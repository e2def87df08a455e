--------------------------- MODULE ReceptionProofs ---------------------------
(***************************************************************************)
(* What the walkers and decoders of Frames make of what Reception encodes,  *)
(* for every input the constants allow.                                     *)
(***************************************************************************)
EXTENDS Reception, SequenceTheorems, NaturalsInduction, TLAPS, WellFoundedInduction

Octets == 0..255

-----------------------------------------------------------------------------
(* Byte strings.                                                            *)

LEMMA OctetsAreNat == \A x \in Octets : x \in Nat
BY DEF Octets

\* A string of n bytes, and a string of n bytes found behind the first k of b.
Bytes(s, n) == s \in Seq(Octets) /\ Len(s) = n
Sits(b, k, s, n) == \A i \in 1..n : b[k + i] = s[i]

\* The name keeps the provers from looking into a concatenation.
Cat(s, t) == s \o t

LEMMA Concat ==
  ASSUME NEW m \in Nat, NEW n \in Nat, NEW s, NEW t, Bytes(s, m), Bytes(t, n)
  PROVE  Bytes(Cat(s, t), m + n) /\ Sits(Cat(s, t), 0, s, m) /\ Sits(Cat(s, t), m, t, n)
<1>1. s \in Seq(Octets) /\ t \in Seq(Octets) /\ Len(s) = m /\ Len(t) = n
  BY DEF Bytes
<1>2. s \o t \in Seq(Octets) /\ Len(s \o t) = m + n
  BY <1>1, ConcatProperties
<1>3. \A i \in 1..m : (s \o t)[0 + i] = s[i]
  BY <1>1, ConcatProperties
<1>4. \A i \in 1..n : (s \o t)[m + i] = t[i]
  BY <1>1, ConcatProperties
<1> QED
  BY <1>2, <1>3, <1>4 DEF Bytes, Sits, Cat

LEMMA SitsDeeper ==
  ASSUME NEW k \in Nat, NEW n \in Nat, NEW j \in Nat, NEW m \in Nat, NEW b, NEW s, NEW t,
         Sits(b, k, s, n), Sits(s, j, t, m), j + m <= n
  PROVE  Sits(b, k + j, t, m)
  BY DEF Sits

LEMMA ZerosAreBytes ==
  ASSUME NEW n \in Nat
  PROVE  Bytes(Zeros(n), n) /\ \A i \in 1..n : Zeros(n)[i] = 0
  BY DEF Zeros, Octets, Bytes

-----------------------------------------------------------------------------
(* Strings put together of strings.                                         *)

\* A set of naturals that holds its every number whose predecessors it holds is Nat.
LEMMA LeastCounterexample ==
  ASSUME NEW G \in SUBSET Nat,
         \A n \in Nat : (\A m \in Nat : m < n => m \in G) => n \in G
  PROVE  G = Nat
<1> DEFINE R == OpToRel(<, Nat)
           B == Nat \ G
<1>1. IsWellFoundedOn(R, Nat)
  BY NatLessThanWellFounded
<1>2. \A y, x \in Nat : <<y, x>> \in R <=> y < x
  BY DEF OpToRel
<1> HIDE DEF R
<1>3. ASSUME B # {} PROVE FALSE
  <2>1. PICK x \in B : \A y \in B : ~(<<y, x>> \in R)
    BY <1>1, <1>3, WFMin
  <2>2. \A m \in Nat : m < x => m \in G
    BY <2>1, <1>2
  <2>3. QED BY <2>1, <2>2
<1>4. QED BY <1>3

\* f concatenates the first m strings of s, one after the other.
FlatOn(f, s, m) == f = [i \in 1..m |-> IF i = 1 THEN s[i] ELSE Cat(f[i - 1], s[i])]

LEMMA FlatOnStep ==
  ASSUME NEW f, NEW s, NEW m \in Nat, FlatOn(f, s, m)
  PROVE  \A i \in 1..m : f[i] = IF i = 1 THEN s[i] ELSE Cat(f[i - 1], s[i])
  BY DEF FlatOn

LEMMA FlatExists ==
  ASSUME NEW s
  PROVE  \A m \in Nat : \E f : FlatOn(f, s, m)
<1> DEFINE G == {m \in Nat : \E f : FlatOn(f, s, m)}
<1>1. ASSUME NEW n \in Nat, \A m \in Nat : m < n => m \in G
      PROVE  \E f : FlatOn(f, s, n)
  <2>1. CASE n = 0
    <3> DEFINE f == [i \in 1..0 |-> s[i]]
    <3>1. f = [i \in 1..0 |-> IF i = 1 THEN s[i] ELSE Cat(f[i - 1], s[i])]
      OBVIOUS
    <3>2. FlatOn(f, s, 0)
      BY <3>1 DEF FlatOn
    <3> QED
      BY <2>1, <3>2
  <2>2. CASE n # 0
    <3>1. n - 1 \in Nat /\ n - 1 < n
      BY <2>2
    <3>2. PICK g : FlatOn(g, s, n - 1)
      BY <1>1, <3>1
    <3> DEFINE f == [i \in 1..n |-> IF i < n THEN g[i] ELSE IF i = 1 THEN s[i] ELSE Cat(g[i - 1], s[i])]
    <3>3. \A i \in 1..(n - 1) : g[i] = IF i = 1 THEN s[i] ELSE Cat(g[i - 1], s[i])
      BY <3>1, <3>2, FlatOnStep
    <3>4. ASSUME NEW i \in 1..n
          PROVE  f[i] = IF i = 1 THEN s[i] ELSE Cat(f[i - 1], s[i])
      <4>1. i # 1 => i - 1 \in 1..n /\ i - 1 < n /\ f[i - 1] = g[i - 1]
        OBVIOUS
      <4>2. CASE i < n
        BY <3>3, <4>1, <4>2
      <4>3. CASE i = n
        BY <4>1, <4>3
      <4> QED
        BY <4>2, <4>3
    <3>5. f = [i \in 1..n |-> IF i = 1 THEN s[i] ELSE Cat(f[i - 1], s[i])]
      BY <3>4
    <3> QED
      BY <3>5 DEF FlatOn
  <2> QED
    BY <2>1, <2>2
<1>2. \A n \in Nat : (\A m \in Nat : m < n => m \in G) => n \in G
  BY <1>1
<1>3. G \in SUBSET Nat
  OBVIOUS
<1> HIDE DEF G
<1>4. G = Nat
  BY <1>2, <1>3, LeastCounterexample
<1> QED
  BY <1>4 DEF G

\* There is one such function.
Alike(s, t, k) == \A i \in 1..k : s[i] = t[i]

LEMMA FlatAgrees ==
  ASSUME NEW s, NEW t, NEW m \in Nat, NEW n \in Nat, NEW k \in Nat, k <= m, k <= n,
         Alike(s, t, k), NEW f, FlatOn(f, s, m), NEW g, FlatOn(g, t, n)
  PROVE  Alike(f, g, k)
<1>0. \A i \in 1..k : s[i] = t[i]
  BY DEF Alike
<1> DEFINE G == {i \in Nat : i \in 1..k => f[i] = g[i]}
<1>1. \A i \in 1..k : /\ f[i] = IF i = 1 THEN s[i] ELSE Cat(f[i - 1], s[i])
                      /\ g[i] = IF i = 1 THEN t[i] ELSE Cat(g[i - 1], t[i])
  BY FlatOnStep
<1>2. ASSUME NEW i \in Nat, \A j \in Nat : j < i => j \in G, i \in 1..k
      PROVE  f[i] = g[i]
  <2>1. CASE i = 1
    BY <1>0, <1>1, <1>2, <2>1
  <2>2. CASE i # 1
    <3>1. i - 1 \in Nat /\ i - 1 < i /\ i - 1 \in 1..k
      BY <1>2, <2>2
    <3>2. f[i - 1] = g[i - 1]
      BY <1>2, <3>1
    <3> QED
      BY <1>0, <1>1, <1>2, <2>2, <3>2
  <2> QED
    BY <2>1, <2>2
<1>3. \A i \in Nat : (\A j \in Nat : j < i => j \in G) => i \in G
  BY <1>2
<1>4. G \in SUBSET Nat
  OBVIOUS
<1> HIDE DEF G
<1>5. G = Nat
  BY <1>3, <1>4, LeastCounterexample
<1> QED
  BY <1>5 DEF G, Alike

\* The first i strings of s, and what they are put together.
Leading(s, i) == SubSeq(s, 1, i)
Flat(s, i) == FlattenSeq(Leading(s, i))

\* Sequences of k strings; the name keeps the provers from looking inside.
Strings(s, k) == s \in Seq(Seq(Octets)) /\ Len(s) = k

LEMMA FlattenIs ==
  ASSUME NEW k \in Nat, k # 0, NEW s, Len(s) = k
  PROVE  \E f : FlatOn(f, s, k) /\ FlattenSeq(s) = f[k]
<1> DEFINE f == CHOOSE f : FlatOn(f, s, k)
<1>1. FlatOn(f, s, k)
  BY FlatExists
<1>2. FlattenSeq(s) = f[k]
  BY DEF FlattenSeq, FlatOn, Cat
<1> QED
  BY <1>1, <1>2

LEMMA FlatSteps ==
  ASSUME NEW k \in Nat, NEW s, Strings(s, k)
  PROVE  /\ Flat(s, 0) = <<>> /\ Flat(s, k) = FlattenSeq(s)
         /\ k # 0 => Flat(s, 1) = s[1]
         /\ \A i \in 1..k : i # 1 => Flat(s, i) = Cat(Flat(s, i - 1), s[i])
<1>1. s \in Seq(Seq(Octets)) /\ Len(s) = k
  BY DEF Strings
<1>2. Flat(s, 0) = <<>>
  BY <1>1 DEF Flat, Leading, FlattenSeq
<1>3. Flat(s, k) = FlattenSeq(s)
  <2>1. SubSeq(s, 1, k) = s
    BY <1>1, SubSeqFull
  <2> QED
    BY <2>1 DEF Flat, Leading
<1>4. ASSUME NEW i \in 1..k
      PROVE  /\ Len(Leading(s, i)) = i
             /\ \A j \in 1..i : Leading(s, i)[j] = s[j]
  BY <1>1 DEF Leading
<1>5. ASSUME NEW i \in 1..k
      PROVE  \E f : FlatOn(f, Leading(s, i), i) /\ Flat(s, i) = f[i]
  BY <1>4, FlattenIs DEF Flat
<1>6. k # 0 => Flat(s, 1) = s[1]
  <2> SUFFICES ASSUME k # 0 PROVE Flat(s, 1) = s[1]
    OBVIOUS
  <2>0. 1 \in 1..k
    OBVIOUS
  <2>1. PICK f : FlatOn(f, Leading(s, 1), 1) /\ Flat(s, 1) = f[1]
    BY <2>0, <1>5
  <2>2. f[1] = Leading(s, 1)[1]
    BY <2>1, FlatOnStep
  <2> QED
    BY <2>0, <2>1, <2>2, <1>4
<1>7. ASSUME NEW i \in 1..k, i # 1
      PROVE  Flat(s, i) = Cat(Flat(s, i - 1), s[i])
  <2>0. i - 1 \in 1..k /\ i - 1 \in Nat /\ i - 1 <= i /\ i \in Nat
    BY <1>7
  <2>1. PICK f : FlatOn(f, Leading(s, i), i) /\ Flat(s, i) = f[i]
    BY <1>5
  <2>2. PICK g : FlatOn(g, Leading(s, i - 1), i - 1) /\ Flat(s, i - 1) = g[i - 1]
    BY <1>5, <2>0
  <2>3. \A j \in 1..(i - 1) : Leading(s, i)[j] = Leading(s, i - 1)[j]
    BY <1>4, <2>0
  <2>4. \A j \in 1..(i - 1) : f[j] = g[j]
    <3>1. Alike(Leading(s, i), Leading(s, i - 1), i - 1)
      BY <2>3 DEF Alike
    <3>2. i - 1 <= i - 1 /\ FlatOn(f, Leading(s, i), i) /\ FlatOn(g, Leading(s, i - 1), i - 1)
      BY <2>0, <2>1, <2>2
    <3>3. Alike(f, g, i - 1)
      BY <2>0, <3>1, <3>2, FlatAgrees
    <3> QED
      BY <3>3 DEF Alike
  <2>5. f[i] = Cat(f[i - 1], Leading(s, i)[i])
    BY <1>7, <2>0, <2>1, FlatOnStep
  <2> QED
    BY <1>4, <2>0, <2>1, <2>2, <2>4, <2>5
<1> QED
  BY <1>2, <1>3, <1>6, <1>7

\* Where the i-th string ends.
At(s, i) == Len(Flat(s, i))

LEMMA StringBytes ==
  ASSUME NEW k \in Nat, NEW s, Strings(s, k)
  PROVE  \A i \in 1..k : Len(s[i]) \in Nat /\ Bytes(s[i], Len(s[i]))
<1>1. s \in Seq(Seq(Octets)) /\ Len(s) = k
  BY DEF Strings
<1>2. ASSUME NEW i \in 1..k PROVE s[i] \in Seq(Octets)
  BY <1>1, ElementOfSeq
<1> QED
  BY <1>2, LenProperties DEF Bytes

LEMMA FlatCat ==
  ASSUME NEW k \in Nat, NEW s, Strings(s, k)
  PROVE  \A i \in 1..k : Flat(s, i) = Cat(Flat(s, i - 1), s[i])
<1> SUFFICES ASSUME NEW i \in 1..k PROVE Flat(s, i) = Cat(Flat(s, i - 1), s[i])
  OBVIOUS
<1>1. CASE i # 1
  BY <1>1, FlatSteps
<1>2. CASE i = 1
  <2>1. Flat(s, 1) = s[1] /\ Flat(s, 0) = <<>>
    BY <1>2, FlatSteps
  <2>2. s[1] \in Seq(Octets)
    BY <1>2, StringBytes DEF Bytes
  <2>3. Cat(<<>>, s[1]) = s[1]
    BY <2>2, ConcatEmptySeq DEF Cat
  <2>4. i - 1 = 0
    BY <1>2
  <2> QED
    BY <1>2, <2>1, <2>3, <2>4
<1> QED
  BY <1>1, <1>2

LEMMA FlatBytes ==
  ASSUME NEW k \in Nat, NEW s, Strings(s, k)
  PROVE  /\ At(s, 0) = 0
         /\ \A i \in 0..k : At(s, i) \in Nat /\ Bytes(Flat(s, i), At(s, i))
         /\ \A i \in 1..k : /\ At(s, i) = At(s, i - 1) + Len(s[i])
                            /\ Sits(Flat(s, i), 0, Flat(s, i - 1), At(s, i - 1))
                            /\ Sits(Flat(s, i), At(s, i - 1), s[i], Len(s[i]))
<1>1. Flat(s, 0) = <<>> /\ At(s, 0) = 0
  BY FlatSteps DEF At
<1> DEFINE G == {i \in Nat : i \in 0..k => At(s, i) \in Nat /\ Bytes(Flat(s, i), At(s, i))}
<1>2. ASSUME NEW i \in 1..k, At(s, i - 1) \in Nat, Bytes(Flat(s, i - 1), At(s, i - 1))
      PROVE  /\ At(s, i) \in Nat /\ Bytes(Flat(s, i), At(s, i))
             /\ At(s, i) = At(s, i - 1) + Len(s[i])
             /\ Sits(Flat(s, i), 0, Flat(s, i - 1), At(s, i - 1))
             /\ Sits(Flat(s, i), At(s, i - 1), s[i], Len(s[i]))
  <2> DEFINE m == At(s, i - 1)
             n == Len(s[i])
             a == Flat(s, i - 1)
  <2>1. m \in Nat /\ n \in Nat /\ Bytes(a, m) /\ Bytes(s[i], n)
    BY <1>2, StringBytes
  <2>2. Flat(s, i) = Cat(a, s[i])
    BY FlatCat
  <2> HIDE DEF m, n, a
  <2>3. Bytes(Cat(a, s[i]), m + n) /\ Sits(Cat(a, s[i]), 0, a, m) /\ Sits(Cat(a, s[i]), m, s[i], n)
    BY <2>1, Concat
  <2>4. At(s, i) = m + n
    BY <2>2, <2>3 DEF At, Bytes
  <2> QED
    BY <2>1, <2>2, <2>3, <2>4 DEF m, n, a
<1>3. ASSUME NEW i \in Nat, \A j \in Nat : j < i => j \in G, i \in 0..k
      PROVE  At(s, i) \in Nat /\ Bytes(Flat(s, i), At(s, i))
  <2>1. CASE i = 0
    <3>1. <<>> \in Seq(Octets) /\ Len(<<>>) = 0
      BY EmptySeq
    <3> QED
      BY <1>1, <2>1, <3>1 DEF Bytes
  <2>2. CASE i # 0
    <3>1. i - 1 \in Nat /\ i - 1 < i /\ i - 1 \in 0..k /\ i \in 1..k
      BY <1>3, <2>2
    <3>2. At(s, i - 1) \in Nat /\ Bytes(Flat(s, i - 1), At(s, i - 1))
      BY <1>3, <3>1
    <3> QED
      BY <1>2, <3>1, <3>2
  <2> QED
    BY <2>1, <2>2
<1>4. \A i \in Nat : (\A j \in Nat : j < i => j \in G) => i \in G
  BY <1>3
<1>5. G \in SUBSET Nat
  OBVIOUS
<1> HIDE DEF G
<1>6. G = Nat
  BY <1>4, <1>5, LeastCounterexample
<1>7. \A i \in 0..k : At(s, i) \in Nat /\ Bytes(Flat(s, i), At(s, i))
  BY <1>6 DEF G
<1>8. ASSUME NEW i \in 1..k
      PROVE  /\ At(s, i) = At(s, i - 1) + Len(s[i])
             /\ Sits(Flat(s, i), 0, Flat(s, i - 1), At(s, i - 1))
             /\ Sits(Flat(s, i), At(s, i - 1), s[i], Len(s[i]))
  <2>1. i - 1 \in 0..k
    OBVIOUS
  <2> QED
    BY <1>2, <1>7, <2>1
<1> QED
  BY <1>1, <1>7, <1>8

\* The i-th string sits in every longer concatenation where it was put.
LEMMA FlatLaidOut ==
  ASSUME NEW k \in Nat, NEW s, Strings(s, k), NEW i \in 1..k
  PROVE  \A j \in i..k : At(s, i) <= At(s, j) /\ Sits(Flat(s, j), At(s, i - 1), s[i], Len(s[i]))
<1> DEFINE Fine(j) == At(s, i) <= At(s, j) /\ Sits(Flat(s, j), At(s, i - 1), s[i], Len(s[i]))
           G == {j \in Nat : j \in i..k => Fine(j)}
<1>1. /\ Len(s[i]) \in Nat /\ At(s, i - 1) \in Nat /\ At(s, i) \in Nat
      /\ At(s, i) = At(s, i - 1) + Len(s[i])
      /\ Sits(Flat(s, i), At(s, i - 1), s[i], Len(s[i]))
  <2>1. i - 1 \in 0..k /\ i \in 0..k
    OBVIOUS
  <2> QED
    BY <2>1, FlatBytes, StringBytes
<1>2. ASSUME NEW j \in (i + 1)..k, Fine(j - 1)
      PROVE  Fine(j)
  <2>1. j \in 1..k /\ j - 1 \in 0..k /\ j \in 0..k
    OBVIOUS
  <2>2. /\ At(s, j - 1) \in Nat /\ At(s, j) \in Nat /\ Len(s[j]) \in Nat
        /\ At(s, j) = At(s, j - 1) + Len(s[j])
        /\ Sits(Flat(s, j), 0, Flat(s, j - 1), At(s, j - 1))
    BY <2>1, FlatBytes, StringBytes
  <2>3. At(s, i - 1) + Len(s[i]) <= At(s, j - 1)
    BY <1>1, <1>2
  <2>4. Sits(Flat(s, j), 0 + At(s, i - 1), s[i], Len(s[i]))
    BY <1>1, <1>2, <2>2, <2>3, SitsDeeper
  <2>5. 0 + At(s, i - 1) = At(s, i - 1)
    BY <1>1
  <2> QED
    BY <1>1, <1>2, <2>2, <2>4, <2>5
<1>3. ASSUME NEW j \in Nat, \A h \in Nat : h < j => h \in G, j \in i..k
      PROVE  Fine(j)
  <2>1. CASE j = i
    BY <1>1, <2>1
  <2>2. CASE j # i
    <3>1. j - 1 \in Nat /\ j - 1 < j /\ j - 1 \in i..k /\ j \in (i + 1)..k
      BY <1>3, <2>2
    <3> QED
      BY <1>2, <1>3, <3>1
  <2> QED
    BY <2>1, <2>2
<1> HIDE DEF Fine
<1>4. \A j \in Nat : (\A h \in Nat : h < j => h \in G) => j \in G
  BY <1>3
<1>5. G \in SUBSET Nat
  OBVIOUS
<1> HIDE DEF G
<1>6. G = Nat
  BY <1>4, <1>5, LeastCounterexample
<1>7. \A j \in i..k : Fine(j)
  BY <1>6 DEF G
<1> QED
  BY <1>7 DEF Fine


LEMMA SitsCat ==
  ASSUME NEW k \in Nat, NEW m \in Nat, NEW n \in Nat, NEW b, NEW s, NEW t, Bytes(s, m), Bytes(t, n),
         Sits(b, k, s, m), Sits(b, k + m, t, n)
  PROVE  Sits(b, k, Cat(s, t), m + n)
<1>1. Sits(Cat(s, t), 0, s, m) /\ Sits(Cat(s, t), m, t, n)
  BY Concat
<1> DEFINE c == Cat(s, t)
<1>2. Sits(c, 0, s, m) /\ Sits(c, m, t, n)
  BY <1>1
<1> HIDE DEF c
<1>3. ASSUME NEW i \in 1..(m + n)
      PROVE  b[k + i] = c[i]
  <2>1. CASE i <= m
    <3>1. c[0 + i] = s[i] /\ b[k + i] = s[i] /\ 0 + i = i
      BY <1>2, <2>1 DEF Sits
    <3> QED
      BY <3>1
  <2>2. CASE i > m
    <3>1. i - m \in 1..n /\ m + (i - m) = i /\ k + m + (i - m) = k + i
      BY <2>2
    <3>2. c[m + (i - m)] = t[i - m] /\ b[k + m + (i - m)] = t[i - m]
      BY <1>2, <3>1 DEF Sits
    <3> QED
      BY <3>1, <3>2
  <2> QED
    BY <2>1, <2>2
<1>4. Sits(b, k, c, m + n)
  BY <1>3 DEF Sits
<1> QED
  BY <1>4 DEF c

LEMMA Monotonic ==
  ASSUME NEW i \in Nat, NEW j \in Nat, NEW size \in Nat, i <= j
  PROVE  i * size \in Nat /\ i * size <= j * size
<1>1. (j - i) * size \in Nat /\ i * size \in Nat
  BY SMT
<1>2. j * size = i * size + (j - i) * size
  BY SMT
<1> QED
  BY <1>1, <1>2, SMT

\* The items of a size that fit are the first ones.
LEMMA FitsAreFirst ==
  ASSUME NEW count \in Nat, NEW size \in Nat, NEW n \in Nat
  PROVE  \E m \in 0..count : /\ {i \in 1..count : 3 + i * size <= n} = 1..m
                             /\ m < count => n < 3 + (m + 1) * size
<1> DEFINE G == {i \in Nat : i \in 1..count => 3 + i * size <= n}
<1>1. CASE G = Nat
  <2>1. {i \in 1..count : 3 + i * size <= n} = 1..count
    BY <1>1
  <2> QED
    BY <2>1
<1>2. CASE G # Nat
  <2>1. \E j \in Nat : j \notin G /\ \A i \in Nat : i < j => i \in G
    <3>1. G \in SUBSET Nat
      OBVIOUS
    <3> HIDE DEF G
    <3> QED
      BY <1>2, <3>1, LeastCounterexample
  <2>2. PICK j \in Nat : j \notin G /\ \A i \in Nat : i < j => i \in G
    BY <2>1
  <2>3. j \in 1..count /\ ~(3 + j * size <= n) /\ j * size \in Nat
    BY <2>2, Monotonic
  <2>4. \A i \in 1..count : i < j => 3 + i * size <= n
    BY <2>2
  <2>5. ASSUME NEW i \in 1..count, i >= j
        PROVE  ~(3 + i * size <= n)
    <3>1. j * size <= i * size /\ i * size \in Nat
      BY <2>3, <2>5, Monotonic
    <3> QED
      BY <2>3, <3>1
  <2> DEFINE S == {i \in 1..count : 3 + i * size <= n}
  <2>6. \A i \in 1..count : i \in S <=> i < j
    BY <2>4, <2>5, <2>3
  <2>7. S \subseteq 1..count
    OBVIOUS
  <2>8. j - 1 + 1 = j /\ n < 3 + j * size
    BY <2>3
  <2> HIDE DEF S
  <2>9. S = 1..(j - 1)
    <3>1. \A i : i \in 1..(j - 1) <=> i \in 1..count /\ i < j
      BY <2>3
    <3> QED
      BY <2>6, <2>7, <3>1, Zenon
  <2> QED
    BY <2>3, <2>8, <2>9 DEF S
<1> QED
  BY <1>1, <1>2

\* Strings of one size.
LEMMA EvenStrings ==
  ASSUME NEW size \in Nat, NEW k \in Nat, NEW s, Strings(s, k), \A i \in 1..k : Len(s[i]) = size
  PROVE  \A i \in 0..k : At(s, i) = i * size
<1> DEFINE G == {i \in Nat : i \in 0..k => At(s, i) = i * size}
<1>1. At(s, 0) = 0 /\ 0 * size = 0
  BY FlatBytes
<1>2. ASSUME NEW i \in 1..k, At(s, i - 1) = (i - 1) * size
      PROVE  At(s, i) = i * size
  <2>1. At(s, i) = At(s, i - 1) + size
    BY FlatBytes
  <2>2. i * size = (i - 1) * size + size
    BY SMT
  <2> QED
    BY <1>2, <2>1, <2>2
<1>3. ASSUME NEW i \in Nat, \A j \in Nat : j < i => j \in G, i \in 0..k
      PROVE  At(s, i) = i * size
  <2>1. CASE i = 0
    BY <1>1, <2>1
  <2>2. CASE i # 0
    <3>1. i - 1 \in Nat /\ i - 1 < i /\ i - 1 \in 0..k /\ i \in 1..k
      BY <1>3, <2>2
    <3> QED
      BY <1>2, <1>3, <3>1
  <2> QED
    BY <2>1, <2>2
<1>4. \A i \in Nat : (\A j \in Nat : j < i => j \in G) => i \in G
  BY <1>3
<1>5. G \in SUBSET Nat
  OBVIOUS
<1> HIDE DEF G
<1>6. G = Nat
  BY <1>4, <1>5, LeastCounterexample
<1> QED
  BY <1>6 DEF G

LEMMA CutBytes ==
  ASSUME NEW b, NEW m \in Nat, Bytes(b, m), NEW n \in 0..m
  PROVE  Bytes(Cut(b, n), n) /\ \A i \in 1..n : Cut(b, n)[i] = b[i]
<1>1. b \in Seq(Octets) /\ Len(b) = m
  BY DEF Bytes
<1> QED
  BY <1>1 DEF Bytes, Cut

\* The least of a set of integers.
LEMMA MinIs ==
  ASSUME NEW P \in SUBSET Int, NEW m \in P, \A x \in P : m <= x
  PROVE  Min(P) = m
<1>1. \A y \in P : (\A x \in P : y <= x) => y = m
  OBVIOUS
<1> QED
  BY <1>1 DEF Min

\* Each reception is told by its path.
LEMMA Paths ==
    /\ ReceiveBeacon => rx'.path = "beacon"
    /\ ReceiveFrench => rx'.path = "french"
    /\ ReceiveNan => rx'.path = "nan"
    /\ ReceivePack => rx'.path = "pack"
    /\ ReceiveLocation => rx'.path = "location"
    /\ ReceiveTap => rx'.path = "radiotap"
    /\ ReceiveSent => rx'.path = "sent"
<1>1. ReceiveBeacon => rx'.path = "beacon"
  BY DEF ReceiveBeacon, Expect
<1>2. ReceiveFrench => rx'.path = "french"
  BY DEF ReceiveFrench, Expect
<1>3. ReceiveNan => rx'.path = "nan"
  BY DEF ReceiveNan, Expect
<1>4. ReceivePack => rx'.path = "pack"
  BY DEF ReceivePack, Expect
<1>5. ReceiveLocation => rx'.path = "location"
  BY DEF ReceiveLocation, Expect
<1>6. ReceiveTap => rx'.path = "radiotap"
  BY DEF ReceiveTap, Expect
<1>7. ReceiveSent => rx'.path = "sent"
  BY DEF ReceiveSent, Expect
<1> QED
  BY <1>1, <1>2, <1>3, <1>4, <1>5, <1>6, <1>7

-----------------------------------------------------------------------------
(* Locations.                                                               *)

\* The bytes of a 24-bit number.
LEMMA Int24Bytes ==
  ASSUME NEW x \in Int, 0 <= x, x <= 16777215
  PROVE  /\ x % 256 \in Octets /\ (x \div 256) % 256 \in Octets /\ x \div 65536 \in Octets
         /\ (x % 256) + 256 * ((x \div 256) % 256) + 65536 * (x \div 65536) = x
<1> DEFINE q == x \div 256
           p == x \div 65536
<1>1. q \in Int /\ (x % 256) \in Int /\ (q % 256) \in Int /\ p \in Int
  BY SMT
<1>2. x = 256 * q + (x % 256) /\ 0 <= (x % 256) /\ (x % 256) <= 255
  BY SMT
<1>3. q = 256 * (q \div 256) + (q % 256) /\ 0 <= (q % 256) /\ (q % 256) <= 255
  BY <1>1, SMT
<1>4. x = 65536 * p + (x % 65536) /\ 0 <= (x % 65536) /\ (x % 65536) <= 65535
  BY SMT
<1>5. p = q \div 256
  BY <1>1, <1>2, <1>3, <1>4, SMT
<1>6. 0 <= p /\ p <= 255
  BY <1>1, <1>4, SMT
<1> QED
  BY <1>1, <1>2, <1>3, <1>5, <1>6, SMT DEF Octets

\* The two's complement of a byte.
LEMMA SignedBack ==
  ASSUME NEW x \in Int, -128 <= x, x <= 127
  PROVE  x % 256 \in Octets /\ Signed(x % 256) = x
  BY SMT DEF Octets, Signed

\* An int32 comes back from its four bytes.
LEMMA Int32Back ==
  ASSUME NEW x, IsInt32(x)
  PROVE  /\ Bytes(Int32Bytes(x), 4)
         /\ Int32Bytes(x)[1] + 256 * Int32Bytes(x)[2] + 65536 * Int32Bytes(x)[3]
              + 16777216 * Signed(Int32Bytes(x)[4]) = x
<1> DEFINE low == x % 16777216
           top == x \div 16777216
<1>1. x \in Int /\ -2147483648 <= x /\ x <= 2147483647
  BY SMT DEF IsInt32
<1>2. low \in Int /\ 0 <= low /\ low <= 16777215 /\ x = 16777216 * top + low
  BY <1>1, SMT
<1>3. top \in Int /\ -128 <= top /\ top <= 127
  BY <1>1, SMT
<1>4. Int32Bytes(x) = <<low % 256, (low \div 256) % 256, low \div 65536, top % 256>>
  BY SMT DEF Int32Bytes
<1> HIDE DEF low, top
<1>5. /\ low % 256 \in Octets /\ (low \div 256) % 256 \in Octets /\ low \div 65536 \in Octets
      /\ (low % 256) + 256 * ((low \div 256) % 256) + 65536 * (low \div 65536) = low
  BY <1>2, Int24Bytes, SMT
<1>6. top % 256 \in Octets /\ Signed(top % 256) = top
  BY <1>3, SignedBack, SMT
<1>7. Int32Bytes(x) \in Seq(Octets) /\ Len(Int32Bytes(x)) = 4
  BY <1>4, <1>5, <1>6, SMT
<1>8. Int32Bytes(x)[1] + 256 * Int32Bytes(x)[2] + 65536 * Int32Bytes(x)[3]
        + 16777216 * Signed(Int32Bytes(x)[4]) = low + 16777216 * top
  BY <1>4, <1>5, <1>6, SMT
<1> QED
  BY <1>2, <1>3, <1>7, <1>8, SMT DEF Bytes

LEMMA Uint16Back ==
  ASSUME NEW x, IsUint16(x)
  PROVE  /\ Bytes(Uint16Bytes(x), 2)
         /\ Uint16Bytes(x)[1] + 256 * Uint16Bytes(x)[2] = x
<1> DEFINE low == x % 256
           top == x \div 256
<1>1. low \in Octets /\ top \in Int /\ x = low + 256 * top
  BY SMT DEF Octets, IsUint16
<1>2. top \in Octets
  BY <1>1, SMT DEF Octets, IsUint16
<1>3. Uint16Bytes(x) = <<low, top>>
  BY DEF Uint16Bytes
<1> HIDE DEF low, top
<1>4. <<low, top>> \in Seq(Octets) /\ Len(<<low, top>>) = 2 /\ <<low, top>>[1] = low /\ <<low, top>>[2] = top
  BY <1>1, <1>2
<1>5. Uint16Bytes(x) \in Seq(Octets) /\ Len(Uint16Bytes(x)) = 2
  BY <1>3, <1>4
<1>6. Uint16Bytes(x)[1] = low /\ Uint16Bytes(x)[2] = top
  BY <1>3, <1>4
<1> QED
  BY <1>1, <1>5, <1>6, SMT DEF Bytes

\* The standard's encoding of a speed loses less than its step.
LEMMA SpeedBack ==
  ASSUME NEW v \in Int, 0 <= v, v <= 1020
  PROVE  LET s == SpeedBytes(v) IN
         /\ s.mult \in {0, 1} /\ s.byte \in Octets
         /\ v - (IF s.mult = 1 THEN 3 * s.byte + 255 ELSE s.byte) \in 0..(IF v <= 255 THEN 0 ELSE 2)
<1>1. CASE v <= 255
  BY <1>1, SMT DEF SpeedBytes, Octets
<1>2. CASE v > 255
  <2> DEFINE q == (v - 255) \div 3
             r == (v - 255) % 3
  <2>1. q \in Int /\ r \in Int /\ v - 255 = 3 * q + r /\ 0 <= r /\ r <= 2
    BY SMT
  <2>2. SpeedBytes(v) = [mult |-> 1, byte |-> q]
    BY <1>2, SMT DEF SpeedBytes
  <2> HIDE DEF q, r
  <2>3. 0 <= q /\ q <= 255
    BY <1>2, <2>1, SMT
  <2>4. v - (3 * q + 255) = r /\ r \in 0..2
    BY <2>1, SMT
  <2> QED
    BY <1>2, <2>1, <2>2, <2>3, <2>4, SMT DEF Octets
<1> QED
  BY <1>1, <1>2

\* What a Location may say.
Sendable(l) ==
    /\ IsInt32(l.lat) /\ IsInt32(l.lon) /\ IsUint16(l.alt)
    /\ l.speed \in Int /\ 0 <= l.speed /\ l.speed <= 1020
    /\ l.heading \in Int /\ 0 <= l.heading /\ l.heading <= 359

\* The first five bytes of a Location.
Opening(l) ==
    LET speed == SpeedBytes(l.speed) IN
    <<16, speed.mult + (IF l.heading >= 180 THEN 2 ELSE 0), l.heading % 180, speed.byte, 255>>

LEMMA OpeningBytes ==
  ASSUME NEW l, Sendable(l)
  PROVE  Bytes(Opening(l), 5)
<1>1. SpeedBytes(l.speed).mult \in {0, 1} /\ SpeedBytes(l.speed).byte \in Octets
  BY SpeedBack, SMT DEF Sendable
<1>2. l.heading % 180 \in Octets
  BY SMT DEF Sendable, Octets
<1> QED
  BY <1>1, <1>2, SMT DEF Opening, Bytes, Octets

\* Where the bytes of a Location are.
LEMMA LocationLaidOut ==
  ASSUME NEW l, Sendable(l)
  PROVE  LET b == LocationBytes(l) IN
         /\ Bytes(b, 25) /\ Sits(b, 0, Opening(l), 5)
         /\ Sits(b, 5, Int32Bytes(l.lat), 4) /\ Sits(b, 9, Int32Bytes(l.lon), 4)
         /\ Sits(b, 15, Uint16Bytes(l.alt), 2) /\ Sits(b, 17, Uint16Bytes(0), 2)
<1> DEFINE b9 == Cat(Opening(l), Int32Bytes(l.lat))
           b13 == Cat(b9, Int32Bytes(l.lon))
           b15 == Cat(b13, Zeros(2))
           b17 == Cat(b15, Uint16Bytes(l.alt))
           b19 == Cat(b17, Uint16Bytes(0))
           b25 == Cat(b19, Zeros(6))
<1>1. LocationBytes(l) = b25
  BY DEF LocationBytes, Opening, Cat
<1>2. /\ Bytes(Opening(l), 5) /\ Bytes(Int32Bytes(l.lat), 4) /\ Bytes(Int32Bytes(l.lon), 4)
      /\ Bytes(Uint16Bytes(l.alt), 2) /\ Bytes(Uint16Bytes(0), 2)
      /\ Bytes(Zeros(2), 2) /\ Bytes(Zeros(6), 6)
  <2>1. IsInt32(l.lat) /\ IsInt32(l.lon) /\ IsUint16(l.alt) /\ IsUint16(0)
    BY SMT DEF Sendable, IsUint16
  <2> QED
    BY <2>1, OpeningBytes, Int32Back, Uint16Back, ZerosAreBytes, SMT
<1>3. Bytes(b9, 9) /\ Sits(b9, 0, Opening(l), 5) /\ Sits(b9, 5, Int32Bytes(l.lat), 4)
  BY <1>2, Concat, SMT
<1> HIDE DEF b9
<1>4. Bytes(b13, 13) /\ Sits(b13, 0, b9, 9) /\ Sits(b13, 9, Int32Bytes(l.lon), 4)
  BY <1>2, <1>3, Concat, SMT
<1> HIDE DEF b13
<1>5. Bytes(b15, 15) /\ Sits(b15, 0, b13, 13)
  BY <1>2, <1>4, Concat, SMT
<1> HIDE DEF b15
<1>6. Bytes(b17, 17) /\ Sits(b17, 0, b15, 15) /\ Sits(b17, 15, Uint16Bytes(l.alt), 2)
  BY <1>2, <1>5, Concat, SMT
<1> HIDE DEF b17
<1>7. Bytes(b19, 19) /\ Sits(b19, 0, b17, 17) /\ Sits(b19, 17, Uint16Bytes(0), 2)
  BY <1>2, <1>6, Concat, SMT
<1> HIDE DEF b19
<1>8. Bytes(b25, 25) /\ Sits(b25, 0, b19, 19)
  BY <1>2, <1>7, Concat, SMT
<1> HIDE DEF b25
<1>9. Sits(b25, 0, b17, 17) /\ Sits(b25, 0, b15, 15) /\ Sits(b25, 0, b13, 13) /\ Sits(b25, 0, b9, 9)
  BY <1>4, <1>5, <1>6, <1>7, <1>8, SMT DEF Sits
<1>10. Sits(b25, 0, Opening(l), 5) /\ Sits(b25, 5, Int32Bytes(l.lat), 4)
  BY <1>3, <1>9, SMT DEF Sits
<1>11. Sits(b25, 9, Int32Bytes(l.lon), 4)
  BY <1>4, <1>9, SMT DEF Sits
<1>12. Sits(b25, 15, Uint16Bytes(l.alt), 2) /\ Sits(b25, 17, Uint16Bytes(0), 2)
  BY <1>6, <1>7, <1>8, <1>9, SMT DEF Sits
<1> QED
  BY <1>1, <1>8, <1>10, <1>11, <1>12
LEMMA Int32At ==
  ASSUME NEW b, NEW i \in Nat, NEW x, IsInt32(x), Sits(b, i, Int32Bytes(x), 4)
  PROVE  Int32(b, i) = x
<1>1. /\ Byte(b, i) = Int32Bytes(x)[1] /\ Byte(b, i + 1) = Int32Bytes(x)[2]
      /\ Byte(b, i + 2) = Int32Bytes(x)[3] /\ Byte(b, i + 3) = Int32Bytes(x)[4]
  BY SMT DEF Byte, Sits
<1> QED
  BY <1>1, Int32Back, SMT DEF Int32

LEMMA Uint16At ==
  ASSUME NEW b, NEW i \in Nat, NEW x, IsUint16(x), Sits(b, i, Uint16Bytes(x), 2)
  PROVE  Uint16(b, i) = x
<1>1. Byte(b, i) = Uint16Bytes(x)[1] /\ Byte(b, i + 1) = Uint16Bytes(x)[2]
  BY SMT DEF Byte, Sits
<1> QED
  BY <1>1, Uint16Back, SMT DEF Uint16

\* A Location comes back.
LEMMA LocationBack ==
  ASSUME NEW l, Sendable(l)
  PROVE  LET out == ParseLocation(LocationBytes(l)) IN
         IF OnGlobe(l) THEN out # None /\ AsSent(l, out) ELSE out = None
<1> DEFINE b == LocationBytes(l)
           out == [lat |-> Int32(b, 5), lon |-> Int32(b, 9), speed |-> Speed(b),
                   heading |-> Byte(b, 2) + (IF Bit(Byte(b, 1), 2) THEN 180 ELSE 0),
                   climb |-> Signed(Byte(b, 4)), alt |-> Altitude(b, 15), height |-> Altitude(b, 17)]
<1>1. /\ Bytes(b, 25) /\ Sits(b, 0, Opening(l), 5)
      /\ Sits(b, 5, Int32Bytes(l.lat), 4) /\ Sits(b, 9, Int32Bytes(l.lon), 4)
      /\ Sits(b, 15, Uint16Bytes(l.alt), 2) /\ Sits(b, 17, Uint16Bytes(0), 2)
  BY LocationLaidOut
<1> HIDE DEF b
<1>2. Int32(b, 5) = l.lat /\ Int32(b, 9) = l.lon
  BY <1>1, Int32At, SMT DEF Sendable
<1>3. Uint16(b, 15) = l.alt /\ Uint16(b, 17) = 0
  BY <1>1, Uint16At, SMT DEF Sendable, IsUint16
<1>4. Altitude(b, 15) = (IF l.alt = 0 THEN None ELSE l.alt - 2000) /\ Altitude(b, 17) = None
  BY <1>3 DEF Altitude
<1> DEFINE speed == SpeedBytes(l.speed)
           east == IF l.heading >= 180 THEN 2 ELSE 0
<1>5. /\ speed.mult \in {0, 1} /\ speed.byte \in Octets
      /\ l.speed - (IF speed.mult = 1 THEN 3 * speed.byte + 255 ELSE speed.byte)
           \in 0..(IF l.speed <= 255 THEN 0 ELSE 2)
  BY SpeedBack, SMT DEF Sendable
<1>6. /\ Byte(b, 1) = speed.mult + east /\ Byte(b, 2) = l.heading % 180
      /\ Byte(b, 3) = speed.byte /\ Byte(b, 4) = 255
  <2>1. /\ Opening(l)[2] = speed.mult + east /\ Opening(l)[3] = l.heading % 180
        /\ Opening(l)[4] = speed.byte /\ Opening(l)[5] = 255
    BY DEF Opening
  <2> QED
    BY <1>1, <2>1, SMT DEF Byte, Sits
<1> HIDE DEF speed, east
<1>7. /\ Bit(Byte(b, 1), 1) <=> speed.mult = 1
      /\ Bit(Byte(b, 1), 2) <=> l.heading >= 180
  BY <1>5, <1>6, SMT DEF Bit, east
<1>8. Speed(b) \in Int /\ l.speed - Speed(b) \in 0..(IF l.speed <= 255 THEN 0 ELSE 2)
  BY <1>5, <1>6, <1>7, SMT DEF Speed, Octets, Sendable
<1>9. out.heading = l.heading /\ out.heading \in Int
  BY <1>6, <1>7, SMT DEF Sendable
<1>10. Signed(Byte(b, 4)) \in Int
  BY <1>6 DEF Signed
<1>11. out \in Location
  <2>1. l.lat \in Int /\ l.lon \in Int /\ l.alt \in Int
    BY SMT DEF Sendable, IsInt32, IsUint16
  <2>2. Altitude(b, 15) \in Int \cup {None} /\ Altitude(b, 17) \in Int \cup {None}
    BY <1>4, <2>1
  <2> QED
    BY <1>2, <1>8, <1>9, <1>10, <2>1, <2>2 DEF Location
<1>12. ParseLocation(b) = IF OnGlobe(l) THEN out ELSE None
  BY <1>1, <1>2, SMT DEF ParseLocation, Bytes, OnGlobe
<1>13. AsSent(l, out)
  BY <1>2, <1>4, <1>8, <1>9, SMT DEF AsSent
<1> HIDE DEF out
<1>14. out # None
  BY <1>11, NoneIsNoData, SMT
<1> QED
  BY <1>12, <1>13, <1>14, SMT DEF b

\* Locations come back from the decoder as they were sent (LocationAsSent, parse_location).
THEOREM LocationsAreAsSent == Spec => []LocationAsSent
<1>1. Init => LocationAsSent
  BY DEF Init, LocationAsSent
<1>2. ASSUME LocationAsSent, [Next]_rx
      PROVE  LocationAsSent'
  <2>1. CASE ReceiveLocation
    <3>1. PICK l \in [lat : Latitudes, lon : Longitudes, speed : Speeds, heading : Headings,
                      alt : Altitudes] :
              rx' = [path |-> "location", input |-> l, output |-> ParseLocation(LocationBytes(l))]
      BY <2>1 DEF ReceiveLocation, Expect
    <3>2. Sendable(l)
      <4>1. /\ l.lat \in Latitudes /\ l.lon \in Longitudes
            /\ l.speed \in Speeds /\ l.heading \in Headings /\ l.alt \in Altitudes
        BY <3>1, SMT
      <4>2. IsInt32(l.lat) /\ IsInt32(l.lon) /\ IsUint16(l.alt)
        BY <4>1, LocationsOK, SMT
      <4>3. l.speed \in 0..1020 /\ l.heading \in 0..359
        BY <4>1, LocationsOK, SMT
      <4> QED
        BY <4>2, <4>3, SMTT(30) DEF Sendable
    <3> QED
      BY <3>1, <3>2, LocationBack, SMT DEF LocationAsSent
  <2>2. CASE ReceiveBeacon \/ ReceiveFrench \/ ReceiveNan \/ ReceivePack \/ ReceiveTap \/ ReceiveSent
    BY <2>2, Paths DEF LocationAsSent
  <2>3. CASE UNCHANGED rx
    BY <1>2, <2>3 DEF LocationAsSent
  <2> QED
    BY <1>2, <2>1, <2>2, <2>3 DEF Next
<1> QED
  BY <1>1, <1>2, PTL DEF Spec

-----------------------------------------------------------------------------
(* Message Packs.                                                           *)

\* What a pack claims, and how much of it is there.
Claims(p) ==
    /\ p.size \in Octets /\ p.count \in Octets /\ p.body \in Seq(Octets)
    /\ p.n \in 0..(Len(p.body) + 3)

LEMMA PackLaidOut ==
  ASSUME NEW p, Claims(p)
  PROVE  LET b == PackBytes(p) IN
         /\ Bytes(b, p.n)
         /\ p.n >= 3 => b[1] = 240 /\ b[2] = p.size /\ b[3] = p.count
<1> DEFINE head == <<240, p.size, p.count>>
           all == Cat(head, p.body)
<1>1. /\ p.size \in Octets /\ p.count \in Octets /\ p.body \in Seq(Octets)
      /\ p.n \in 0..(Len(p.body) + 3) /\ Len(p.body) \in Nat
  BY LenProperties DEF Claims
<1>2. /\ head \in Seq(Octets) /\ Len(head) = 3
      /\ head[1] = 240 /\ head[2] = p.size /\ head[3] = p.count
  BY <1>1 DEF Octets
<1>3. PackBytes(p) = SubSeq(all, 1, p.n)
  BY DEF PackBytes, Cut, Cat
<1> HIDE DEF head
<1>4. /\ all \in Seq(Octets) /\ Len(all) = 3 + Len(p.body)
      /\ all[1] = head[1] /\ all[2] = head[2] /\ all[3] = head[3]
  <2>1. Bytes(head, 3) /\ Bytes(p.body, Len(p.body))
    BY <1>1, <1>2 DEF Bytes
  <2>2. Bytes(all, 3 + Len(p.body)) /\ Sits(all, 0, head, 3)
    BY <1>1, <2>1, Concat
  <2> QED
    BY <2>2 DEF Bytes, Sits
<1> HIDE DEF all
<1>5. /\ SubSeq(all, 1, p.n) \in Seq(Octets) /\ Len(SubSeq(all, 1, p.n)) = p.n
      /\ \A i \in 1..p.n : SubSeq(all, 1, p.n)[i] = all[i]
  BY <1>1, <1>4
<1> DEFINE b == PackBytes(p)
<1>6. b \in Seq(Octets) /\ Len(b) = p.n /\ \A i \in 1..p.n : b[i] = all[i]
  BY <1>3, <1>5
<1> HIDE DEF b
<1>7. p.n >= 3 => 1 \in 1..p.n /\ 2 \in 1..p.n /\ 3 \in 1..p.n
  BY <1>1
<1>8. p.n >= 3 => b[1] = 240 /\ b[2] = p.size /\ b[3] = p.count
  BY <1>2, <1>4, <1>6, <1>7
<1> QED
  BY <1>6, <1>8 DEF Bytes, b

\* A slice that ends inside the string.
LEMMA SliceBytes ==
  ASSUME NEW b, NEW n \in Nat, Bytes(b, n), NEW i \in Nat, NEW k \in Nat, i + k <= n
  PROVE  Bytes(Slice(b, i, i + k), k) /\ Sits(b, i, Slice(b, i, i + k), k)
<1>1. b \in Seq(Octets) /\ Len(b) = n
  BY DEF Bytes
<1>2. Slice(b, i, i + k) = SubSeq(b, i + 1, i + k)
  BY <1>1 DEF Slice
<1>3. /\ SubSeq(b, i + 1, i + k) \in Seq(Octets) /\ Len(SubSeq(b, i + 1, i + k)) = k
      /\ \A j \in 1..k : SubSeq(b, i + 1, i + k)[j] = b[i + j]
  BY <1>1
<1> QED
  BY <1>2, <1>3 DEF Bytes, Sits

\* Messages of a size cut one behind the other give back the string they were cut from.
LEMMA CutInOrder ==
  ASSUME NEW b, NEW size \in Nat, NEW m \in Nat, NEW s, Strings(s, m),
         \A i \in 1..m : Len(s[i]) = size /\ Sits(b, 3 + (i - 1) * size, s[i], size)
  PROVE  At(s, m) = m * size /\ Sits(b, 3, Flat(s, m), m * size)
<1> DEFINE Fine(i) == At(s, i) = i * size /\ Sits(b, 3, Flat(s, i), i * size)
           G == {i \in Nat : i \in 0..m => Fine(i)}
<1>1. Fine(0)
  BY FlatBytes DEF Sits
<1>2. ASSUME NEW i \in 1..m, Fine(i - 1)
      PROVE  Fine(i)
  <2> DEFINE h == (i - 1) * size
             a == Flat(s, i - 1)
  <2>1. i - 1 \in Nat /\ i - 1 \in 0..m /\ i \in Nat /\ h \in Nat /\ i * size = h + size
    BY SMT
  <2>2. At(s, i - 1) = h /\ Sits(b, 3, a, h) /\ Sits(b, 3 + h, s[i], size) /\ Len(s[i]) = size
    BY <1>2
  <2>3. Bytes(a, At(s, i - 1)) /\ Bytes(s[i], Len(s[i])) /\ At(s, i) = At(s, i - 1) + Len(s[i])
    BY <2>1, FlatBytes, StringBytes
  <2>4. Flat(s, i) = Cat(a, s[i])
    BY FlatCat
  <2> HIDE DEF h, a
  <2>5. Bytes(a, h) /\ Bytes(s[i], size)
    BY <2>2, <2>3
  <2>6. Sits(b, 3, Cat(a, s[i]), h + size)
    BY <2>1, <2>2, <2>5, SitsCat
  <2> QED
    BY <2>1, <2>2, <2>3, <2>4, <2>6
<1>3. ASSUME NEW i \in Nat, \A j \in Nat : j < i => j \in G, i \in 0..m
      PROVE  Fine(i)
  <2>1. CASE i = 0
    BY <1>1, <2>1
  <2>2. CASE i # 0
    <3>1. i - 1 \in Nat /\ i - 1 < i /\ i - 1 \in 0..m /\ i \in 1..m
      BY <1>3, <2>2
    <3> QED
      BY <1>2, <1>3, <3>1
  <2> QED
    BY <2>1, <2>2
<1> HIDE DEF Fine
<1>4. \A i \in Nat : (\A j \in Nat : j < i => j \in G) => i \in G
  BY <1>3
<1>5. G \in SUBSET Nat
  OBVIOUS
<1> HIDE DEF G
<1>6. G = Nat
  BY <1>4, <1>5, LeastCounterexample
<1>7. Fine(m)
  BY <1>6 DEF G
<1> QED
  BY <1>7 DEF Fine

\* The messages of a pack are those that fit, each where the sizes before it put it.
LEMMA MessagesCut ==
  ASSUME NEW p, Claims(p), p.n >= 3
  PROVE  LET out == ParseMessagePack(PackBytes(p)) IN
         \E m \in 0..p.count :
            /\ Strings(out, m)
            /\ 3 + m * p.size <= p.n
            /\ m < p.count => p.n < 3 + (m + 1) * p.size
            /\ \A i \in 1..m : Len(out[i]) = p.size /\ Sits(PackBytes(p), 3 + (i - 1) * p.size, out[i], p.size)
<1> DEFINE b == PackBytes(p)
           size == p.size
           n == p.n
           whole == {i \in 1..p.count : 3 + i * size <= n}
           message(i) == Slice(b, 3 + (i - 1) * size, 3 + i * size)
           out == [i \in whole |-> message(i)]
<1>1. size \in Nat /\ p.count \in Nat /\ n \in Nat /\ n >= 3
  <2>1. /\ p.size \in Octets /\ p.count \in Octets /\ p.body \in Seq(Octets)
        /\ p.n \in 0..(Len(p.body) + 3)
    BY DEF Claims
  <2>2. Len(p.body) \in Nat
    BY <2>1, LenProperties
  <2>3. p.n \in Nat
    BY <2>1, <2>2
  <2>4. \A x \in Octets : x \in Nat
    BY OctetsAreNat
  <2> QED
    BY <2>1, <2>3, <2>4
<1>2. Bytes(b, n) /\ Len(b) = n /\ Byte(b, 1) = size /\ Byte(b, 2) = p.count
  <2>1. Bytes(b, n) /\ b[2] = size /\ b[3] = p.count
    BY PackLaidOut
  <2> HIDE DEF b, size, n
  <2>2. Byte(b, 1) = size /\ Byte(b, 2) = p.count
    BY <2>1 DEF Byte
  <2> QED
    BY <2>1, <2>2 DEF Bytes
<1>3. ParseMessagePack(b) = out
  <2>1. ~(Len(b) < 3)
    BY <1>1, <1>2
  <2> QED
    BY <1>2, <2>1, Zenon DEF ParseMessagePack
<1> HIDE DEF b, size, n
<1>4. PICK m \in 0..p.count : whole = 1..m /\ (m < p.count => n < 3 + (m + 1) * size)
  BY <1>1, FitsAreFirst
<1>5. 3 + m * size <= n
  <2>1. CASE m = 0
    BY <1>1, <2>1
  <2>2. CASE m # 0
    <3>1. m \in 1..m
      BY <2>2
    <3> QED
      BY <1>4, <3>1
  <2> QED
    BY <2>1, <2>2
<1>6. ASSUME NEW i \in 1..m
      PROVE  Bytes(message(i), size) /\ Sits(b, 3 + (i - 1) * size, message(i), size)
  <2> DEFINE h == 3 + (i - 1) * size
  <2>1. h \in Nat /\ 3 + i * size = h + size
    BY <1>1, SMT
  <2>2. 3 + i * size <= n
    BY <1>4
  <2> HIDE DEF h
  <2>3. Bytes(Slice(b, h, h + size), size) /\ Sits(b, h, Slice(b, h, h + size), size)
    BY <1>1, <1>2, <2>1, <2>2, SliceBytes
  <2> QED
    BY <2>1, <2>3 DEF h
<1> HIDE DEF message, whole
<1>7. out = [i \in 1..m |-> message(i)]
  BY <1>4
<1>8. \A i \in 1..m : message(i) \in Seq(Octets)
  BY <1>6 DEF Bytes
<1>9. Strings(out, m)
  <2>1. out \in [1..m -> Seq(Octets)]
    BY <1>7, <1>8
  <2> HIDE DEF out
  <2>2. out \in Seq(Seq(Octets)) /\ Len(out) = m
    BY <2>1
  <2> QED
    BY <2>2 DEF Strings
<1>10. \A i \in 1..m : out[i] = message(i)
  BY <1>7
<1> HIDE DEF out
<1>11. \A i \in 1..m : Len(out[i]) = size /\ Sits(b, 3 + (i - 1) * size, out[i], size)
  BY <1>6, <1>10 DEF Bytes
<1> QED
  BY <1>3, <1>4, <1>5, <1>9, <1>11 DEF b, size, n

\* A pack is never read beyond its end, and gives up every message that is there.
LEMMA PackBack ==
  ASSUME NEW p, Claims(p)
  PROVE  LET out == ParseMessagePack(PackBytes(p)) IN
         /\ \A i \in DOMAIN out : Len(out[i]) = p.size
         /\ p.n >= 3 => IsPrefix(<<240, p.size, p.count>> \o FlattenSeq(out), PackBytes(p))
         /\ Len(out) < p.count => p.n < 3 + (Len(out) + 1) * p.size
<1> DEFINE b == PackBytes(p)
           out == ParseMessagePack(b)
<1>0. /\ p.size \in Octets /\ p.count \in Octets /\ p.n \in Nat
      /\ Bytes(b, p.n) /\ (p.n >= 3 => b[1] = 240 /\ b[2] = p.size /\ b[3] = p.count)
  BY PackLaidOut DEF Claims
<1>1. CASE p.n < 3
  <2>1. out = <<>>
    BY <1>0, <1>1 DEF ParseMessagePack, Bytes
  <2>2. (0 + 1) * p.size = p.size /\ p.size >= 0
    BY <1>0 DEF Octets
  <2> HIDE DEF out, b
  <2>3. Len(out) = 0 /\ DOMAIN out = {}
    BY <2>1
  <2>4. p.n < 3 + (0 + 1) * p.size /\ ~(p.n >= 3)
    BY <1>0, <1>1, <2>2 DEF Octets
  <2>5. \A i \in DOMAIN out : Len(out[i]) = p.size
    BY <2>3
  <2> QED
    BY <2>3, <2>4, <2>5 DEF out, b
<1>2. CASE p.n >= 3
  <2>1. PICK m \in 0..p.count :
            /\ Strings(out, m)
            /\ 3 + m * p.size <= p.n
            /\ m < p.count => p.n < 3 + (m + 1) * p.size
            /\ \A i \in 1..m : Len(out[i]) = p.size /\ Sits(b, 3 + (i - 1) * p.size, out[i], p.size)
    BY <1>2, MessagesCut
  <2> DEFINE head == <<240, p.size, p.count>>
             body == FlattenSeq(out)
             all == Cat(head, body)
             k == m * p.size
  <2> HIDE DEF b, out
  <2>2. m \in Nat /\ p.size \in Nat /\ k \in Nat
    BY <1>0, Monotonic DEF Octets
  <2>3. At(out, m) = k /\ Sits(b, 3, Flat(out, m), k)
    BY <2>1, <2>2, CutInOrder
  <2>4. Flat(out, m) = body /\ Bytes(Flat(out, m), At(out, m))
    <3>1. m \in 0..m
      BY <2>2
    <3> QED
      BY <2>1, <2>2, <3>1, FlatSteps, FlatBytes
  <2>5. Bytes(head, 3) /\ Sits(b, 0, head, 3)
    BY <1>0, <1>2 DEF Bytes, Sits, Octets
  <2>6. Len(out) = m /\ DOMAIN out = 1..m
    BY <2>1 DEF Strings
  <2> HIDE DEF head, body, k
  <2>7. Bytes(all, 3 + k) /\ Sits(b, 0, all, 3 + k)
    <3>1. Bytes(body, k) /\ Sits(b, 0 + 3, body, k)
      BY <2>3, <2>4
    <3> QED
      BY <2>2, <2>5, <3>1, Concat, SitsCat
  <2> HIDE DEF all
  <2>8. IsPrefix(all, b)
    <3>1. all \in Seq(Octets) /\ b \in Seq(Octets) /\ Len(all) = 3 + k /\ Len(b) = p.n
      BY <1>0, <2>7 DEF Bytes
    <3>2. 3 + k <= p.n
      BY <2>1 DEF k
    <3>3. \A i \in 1..(3 + k) : b[i] = all[i]
      BY <2>7 DEF Sits
    <3>4. SubSeq(all, 1, 3 + k) = [i \in 1..(3 + k) |-> all[i]]
      BY <2>2, <3>1
    <3>5. SubSeq(b, 1, 3 + k) = [i \in 1..(3 + k) |-> b[i]]
      BY <1>0, <2>2, <3>1, <3>2
    <3>6. SubSeq(all, 1, 3 + k) = SubSeq(b, 1, 3 + k)
      BY <3>3, <3>4, <3>5
    <3> QED
      BY <3>1, <3>2, <3>6 DEF IsPrefix
  <2>9. head \o body = all
    BY DEF all, Cat
  <2>10. IsPrefix(<<240, p.size, p.count>> \o FlattenSeq(out), b)
    BY <2>8, <2>9 DEF head, body
  <2>11. \A i \in DOMAIN out : Len(out[i]) = p.size
    BY <2>1, <2>6
  <2>12. Len(out) < p.count => p.n < 3 + (Len(out) + 1) * p.size
    BY <2>1, <2>6
  <2> QED
    BY <2>10, <2>11, <2>12 DEF b, out
<1> QED
  BY <1>0, <1>1, <1>2

\* The messages of a pack lie one behind the other inside it, as many as are there as a
\* whole, whatever size and count it claims (PackInBounds, parse_message_pack).
THEOREM PacksStayInBounds == Spec => []PackInBounds
<1>1. Init => PackInBounds
  BY DEF Init, PackInBounds
<1>2. ASSUME PackInBounds, [Next]_rx
      PROVE  PackInBounds'
  <2>1. CASE ReceivePack
    <3>0. PICK size \in PackSizes, count \in PackCounts, body \in PackBodies :
              \E n \in 0..(Len(body) + 3) :
                  LET p == [size |-> size, count |-> count, body |-> body, n |-> n] IN
                  rx' = [path |-> "pack", input |-> p, output |-> ParseMessagePack(PackBytes(p))]
      BY <2>1 DEF ReceivePack, Expect
    <3>1. PICK n \in 0..(Len(body) + 3) :
              LET p == [size |-> size, count |-> count, body |-> body, n |-> n] IN
              rx' = [path |-> "pack", input |-> p, output |-> ParseMessagePack(PackBytes(p))]
      BY <3>0
    <3> DEFINE p == [size |-> size, count |-> count, body |-> body, n |-> n]
    <3>2. Claims(p)
      BY <3>1, PacksOK DEF Claims, Octets
    <3> HIDE DEF p
    <3>3. rx'.input = p /\ rx'.output = ParseMessagePack(PackBytes(p))
      BY <3>1 DEF p
    <3> QED
      BY <3>2, <3>3, PackBack DEF PackInBounds
  <2>2. CASE ReceiveBeacon \/ ReceiveFrench \/ ReceiveNan \/ ReceiveLocation \/ ReceiveTap \/ ReceiveSent
    BY <2>2, Paths DEF PackInBounds
  <2>3. CASE UNCHANGED rx
    BY <1>2, <2>3 DEF PackInBounds
  <2> QED
    BY <1>2, <2>1, <2>2, <2>3 DEF Next
<1> QED
  BY <1>1, <1>2, PTL DEF Spec


-----------------------------------------------------------------------------
(* Radiotap headers.                                                        *)

\* The bits of a sum of powers are the powers.
LEMMA BitsBack ==
  ASSUME NEW S \in SUBSET (0..6)
  PROVE  /\ Bits(S) \in Octets
         /\ Bit(Bits(S), 1) <=> 0 \in S
         /\ Bit(Bits(S), 2) <=> 1 \in S
         /\ Bit(Bits(S), 4) <=> 2 \in S
         /\ Bit(Bits(S), 8) <=> 3 \in S
         /\ Bit(Bits(S), 16) <=> 4 \in S
         /\ Bit(Bits(S), 32) <=> 5 \in S
         /\ Bit(Bits(S), 64) <=> 6 \in S
<1> DEFINE bit(k) == IF k \in S THEN 1 ELSE 0
<1>1. Bits(S) = bit(0) + 2 * bit(1) + 4 * bit(2) + 8 * bit(3) + 16 * bit(4) + 32 * bit(5) + 64 * bit(6)
  BY DEF Bits
<1>2. \A k \in 0..6 : bit(k) \in {0, 1} /\ (bit(k) = 1 <=> k \in S)
  OBVIOUS
<1> DEFINE b0 == bit(0)
           b1 == bit(1)
           b2 == bit(2)
           b3 == bit(3)
           b4 == bit(4)
           b5 == bit(5)
           b6 == bit(6)
<1>3. /\ b0 \in {0, 1} /\ b1 \in {0, 1} /\ b2 \in {0, 1} /\ b3 \in {0, 1}
      /\ b4 \in {0, 1} /\ b5 \in {0, 1} /\ b6 \in {0, 1}
  BY <1>2
<1>4. /\ (b0 = 1 <=> 0 \in S) /\ (b1 = 1 <=> 1 \in S) /\ (b2 = 1 <=> 2 \in S) /\ (b3 = 1 <=> 3 \in S)
      /\ (b4 = 1 <=> 4 \in S) /\ (b5 = 1 <=> 5 \in S) /\ (b6 = 1 <=> 6 \in S)
  BY <1>2
<1> DEFINE x == b0 + 2 * b1 + 4 * b2 + 8 * b3 + 16 * b4 + 32 * b5 + 64 * b6
<1>5. Bits(S) = x
  BY <1>1
<1> HIDE DEF bit, b0, b1, b2, b3, b4, b5, b6
<1>6. x \in Octets
  BY <1>3 DEF Octets
<1>7. /\ x % 2 = b0 /\ (x \div 2) % 2 = b1 /\ (x \div 4) % 2 = b2 /\ (x \div 8) % 2 = b3
      /\ (x \div 16) % 2 = b4 /\ (x \div 32) % 2 = b5 /\ (x \div 64) % 2 = b6
  BY <1>3
<1>8. x \div 1 = x
  BY <1>6 DEF Octets
<1> HIDE DEF x
<1> QED
  BY <1>4, <1>5, <1>6, <1>7, <1>8 DEF Bit

\* Where the bytes end behind a field that is put at or after `from`.
PutEnd(S, bit, align, size, from) ==
    IF bit \in S THEN ((from + align - 1) \div align) * align + size ELSE from

\* Bytes that are put at `at` and end at `from`.
Ends(b, at, from) == at \in Nat /\ Len(b) \in Nat /\ Bytes(b, Len(b)) /\ from = at + Len(b)

\* A field that is put: its bit, alignment and size.
Field(bit, align, size) == bit \in 0..5 /\ align \in {1, 2, 8} /\ size \in Nat

LEMMA PutBytes ==
  ASSUME NEW S, NEW at, NEW b, NEW from, Ends(b, at, from),
         NEW bit, NEW align, NEW size, Field(bit, align, size)
  PROVE  Ends(Put(S, at, b, bit, align, size), at, PutEnd(S, bit, align, size, from))
<1> DEFINE m == Len(b)
<1>0. at \in Nat /\ m \in Nat /\ Bytes(b, m) /\ from = at + m
  BY DEF Ends
<1>1. bit \in 0..5 /\ align \in {1, 2, 8} /\ size \in Nat
  BY DEF Field
<1>2. CASE bit \notin S
  BY <1>0, <1>2 DEF Put, PutEnd, Ends
<1>3. CASE bit \in S
  <2> DEFINE gap == (align - (from % align)) % align
             field == [i \in 1..size |-> 100 + bit]
             padded == Cat(b, Zeros(gap))
             all == Cat(padded, field)
             next == ((from + align - 1) \div align) * align
  <2>1. from \in Nat /\ gap \in Nat /\ from + gap = next
    <3>0. from \in Nat
      BY <1>0
    <3>1. CASE align = 1
      BY <3>0, <3>1
    <3>2. CASE align = 2
      BY <3>0, <3>2
    <3>3. CASE align = 8
      BY <3>0, <3>3
    <3> QED
      BY <1>1, <3>1, <3>2, <3>3
  <2>2. Put(S, at, b, bit, align, size) = all
    BY <1>0, <1>3 DEF Put, Padding, Cat
  <2>3. Bytes(field, size)
    BY <1>1 DEF Bytes, Octets
  <2> HIDE DEF gap, field, m, next
  <2>4. Bytes(padded, m + gap)
    BY <1>0, <2>1, ZerosAreBytes, Concat
  <2> HIDE DEF padded
  <2>5. Bytes(all, m + gap + size)
    <3>1. m + gap \in Nat
      BY <1>0, <2>1
    <3> QED
      BY <1>1, <2>3, <2>4, <3>1, Concat
  <2> HIDE DEF all
  <2>6. /\ Len(all) = m + gap + size /\ Len(all) \in Nat
        /\ at + Len(all) = next + size
    BY <1>0, <1>1, <2>1, <2>5 DEF Bytes
  <2> QED
    BY <1>0, <1>3, <2>2, <2>5, <2>6 DEF PutEnd, Ends, next
<1> QED
  BY <1>2, <1>3

\* The present words behind the first one.
Words(extra) == [i \in 1..extra |-> <<32, 0, 0, IF i = extra THEN 0 ELSE 128>>]

LEMMA WordsLaidOut ==
  ASSUME NEW extra \in Nat
  PROVE  /\ Bytes(FlattenSeq(Words(extra)), 4 * extra)
         /\ \A i \in 1..extra : FlattenSeq(Words(extra))[4 * i] = IF i = extra THEN 0 ELSE 128
<1> DEFINE w == Words(extra)
           flat == FlattenSeq(w)
<1>1. \A i \in 1..extra : w[i] \in Seq(Octets) /\ Len(w[i]) = 4 /\ w[i][4] = IF i = extra THEN 0 ELSE 128
  BY DEF Words, Octets
<1>2. w \in [1..extra -> Seq(Octets)]
  BY <1>1 DEF Words
<1> HIDE DEF w
<1>3. Strings(w, extra)
  <2>1. w \in Seq(Seq(Octets)) /\ Len(w) = extra
    BY <1>2
  <2> QED
    BY <2>1 DEF Strings
<1>4. \A i \in 0..extra : At(w, i) = i * 4
  <2>1. \A i \in 1..extra : Len(w[i]) = 4
    BY <1>1
  <2> QED
    BY <1>3, <2>1, EvenStrings
<1>5. Flat(w, extra) = flat
  BY <1>3, FlatSteps
<1>6. Bytes(flat, 4 * extra)
  <2>1. extra \in 0..extra
    OBVIOUS
  <2>2. At(w, extra) = 4 * extra
    BY <1>4, <2>1
  <2>3. Bytes(Flat(w, extra), At(w, extra))
    BY <1>3, <2>1, FlatBytes
  <2> QED
    BY <1>5, <2>2, <2>3
<1> HIDE DEF flat
<1>7. ASSUME NEW i \in 1..extra
      PROVE  flat[4 * i] = IF i = extra THEN 0 ELSE 128
  <2>1. extra \in i..extra /\ i - 1 \in 0..extra
    OBVIOUS
  <2>2. At(w, i - 1) = (i - 1) * 4
    BY <1>4, <2>1
  <2>3. Sits(Flat(w, extra), At(w, i - 1), w[i], Len(w[i]))
    BY <1>3, <2>1, FlatLaidOut
  <2>4. Sits(flat, (i - 1) * 4, w[i], 4)
    BY <1>1, <1>5, <2>2, <2>3
  <2>5. flat[(i - 1) * 4 + 4] = w[i][4]
    BY <2>4 DEF Sits
  <2>6. (i - 1) * 4 + 4 = 4 * i
    OBVIOUS
  <2> QED
    BY <1>1, <2>5, <2>6
<1> QED
  BY <1>6, <1>7 DEF flat, w

\* A header: where its present words are, and where its signal is.
LEMMA TapLaidOut ==
  ASSUME NEW S \in SUBSET (0..5), NEW extra \in Nat
  PROVE  \E before \in Nat :
            LET b == TapBytes(S, extra)
                h == 8 + 4 * extra
                n == IF 5 \in S THEN before + 1 ELSE before
            IN /\ Bytes(b, n) /\ h <= before
               /\ b[5] = Bits(S)
               /\ \A i \in 0..extra : b[8 + 4 * i] = IF i = extra THEN 0 ELSE 128
               /\ 5 \in S => b[before + 1] = Level
               /\ \A x : Byte(x, 4) = Bits(S) => SignalAt(x, h) = before
<1> DEFINE h == 8 + 4 * extra
           w == FlattenSeq(Words(extra))
           first == <<Bits(S), 0, 0, IF extra = 0 THEN 0 ELSE 128>>
           present == Cat(first, w)
           head == Cat(<<0, 0, 0, 0>>, present)
           fields == TapFields(S, Len(head))
           all == Cat(head, fields)
<1>1. S \in SUBSET (0..6)
  OBVIOUS
<1>2. Bytes(first, 4) /\ Bytes(<<0, 0, 0, 0>>, 4) /\ first[1] = Bits(S) /\ first[4] = IF extra = 0 THEN 0 ELSE 128
  BY <1>1, BitsBack DEF Bytes, Octets
<1>3. /\ Bytes(w, 4 * extra) /\ 4 * extra \in Nat
      /\ \A i \in 1..extra : w[4 * i] = IF i = extra THEN 0 ELSE 128
  BY WordsLaidOut
<1>4. TapBytes(S, extra) = Cat(all, IF 5 \in S THEN <<Level>> ELSE <<>>)
  <2>1. Present(S, extra) = present
    BY DEF Present, Words, Cat
  <2>2. <<0, 0, 0, 0>> \o Present(S, extra) = head
    BY <2>1 DEF Cat
  <2> HIDE DEF head
  <2>3. head \o TapFields(S, Len(head)) = all
    BY DEF Cat
  <2> HIDE DEF all
  <2>4. all \o (IF 5 \in S THEN <<Level>> ELSE <<>>) = TapBytes(S, extra)
    BY <2>2, <2>3 DEF TapBytes
  <2> QED
    BY <2>4 DEF Cat
<1> HIDE DEF first, w
<1>5. Bytes(present, 4 + 4 * extra) /\ Sits(present, 0, first, 4) /\ Sits(present, 4, w, 4 * extra)
  BY <1>2, <1>3, Concat
<1> HIDE DEF present
<1>6. Bytes(head, h) /\ Sits(head, 4, present, 4 + 4 * extra) /\ h \in Nat /\ Len(head) = h
  <2>1. h = 4 + (4 + 4 * extra) /\ 4 + 4 * extra \in Nat
    OBVIOUS
  <2>2. Bytes(head, h) /\ Sits(head, 4, present, 4 + 4 * extra)
    BY <1>2, <1>5, <2>1, Concat
  <2> QED
    BY <2>1, <2>2 DEF Bytes
<1>7. head[5] = Bits(S) /\ \A i \in 0..extra : head[8 + 4 * i] = IF i = extra THEN 0 ELSE 128
  <2>1. Sits(head, 4 + 0, first, 4) /\ Sits(head, 4 + 4, w, 4 * extra)
    BY <1>3, <1>5, <1>6, SitsDeeper
  <2>2. head[4 + 0 + 1] = first[1] /\ head[4 + 0 + 4] = first[4]
    BY <2>1 DEF Sits
  <2>3. \A i \in 1..extra : head[4 + 4 + 4 * i] = w[4 * i]
    <3>1. \A i \in 1..extra : 4 * i \in 1..(4 * extra)
      OBVIOUS
    <3> QED
      BY <2>1, <3>1 DEF Sits
  <2> QED
    BY <1>2, <1>3, <2>2, <2>3
<1> HIDE DEF head
<1> DEFINE timer == Put(S, h, <<>>, 0, 8, 8)
           flags == Put(S, h, timer, 1, 1, 1)
           rate == Put(S, h, flags, 2, 1, 1)
           channel == Put(S, h, rate, 3, 2, 4)
           hopping == Put(S, h, channel, 4, 1, 2)
           e0 == PutEnd(S, 0, 8, 8, h)
           e1 == PutEnd(S, 1, 1, 1, e0)
           e2 == PutEnd(S, 2, 1, 1, e1)
           e3 == PutEnd(S, 3, 2, 4, e2)
           e4 == PutEnd(S, 4, 1, 2, e3)
<1>8. fields = hopping
  BY <1>6 DEF TapFields
<1> HIDE DEF fields
<1>9. Bytes(<<>>, 0) /\ Ends(<<>>, h, h)
  BY <1>6 DEF Bytes, Ends
<1> HIDE DEF h
<1>10. Field(0, 8, 8) /\ Field(1, 1, 1) /\ Field(2, 1, 1) /\ Field(3, 2, 4) /\ Field(4, 1, 2)
  BY DEF Field
<1>11. Ends(timer, h, e0)
  BY <1>9, <1>10, PutBytes
<1> HIDE DEF timer, e0
<1>12. Ends(flags, h, e1)
  BY <1>11, <1>10, PutBytes
<1> HIDE DEF flags, e1
<1>13. Ends(rate, h, e2)
  BY <1>12, <1>10, PutBytes
<1> HIDE DEF rate, e2
<1>14. Ends(channel, h, e3)
  BY <1>13, <1>10, PutBytes
<1> HIDE DEF channel, e3
<1>15. Ends(hopping, h, e4)
  BY <1>14, <1>10, PutBytes
<1> HIDE DEF hopping
<1> DEFINE k4 == Len(hopping)
<1>16. k4 \in Nat /\ Bytes(hopping, k4) /\ e4 = h + k4
  BY <1>15 DEF Ends
<1> HIDE DEF k4
<1>17. ASSUME NEW x, Byte(x, 4) = Bits(S)
      PROVE  SignalAt(x, h) = h + k4
  <2>1. /\ Bit(Byte(x, 4), 1) <=> 0 \in S
        /\ Bit(Byte(x, 4), 2) <=> 1 \in S
        /\ Bit(Byte(x, 4), 4) <=> 2 \in S
        /\ Bit(Byte(x, 4), 8) <=> 3 \in S
        /\ Bit(Byte(x, 4), 16) <=> 4 \in S
    BY <1>1, <1>17, BitsBack
  <2>2. /\ Behind(x, 1, 8, 8, h) = e0
        /\ Behind(x, 2, 1, 1, e0) = e1
        /\ Behind(x, 4, 1, 1, e1) = e2
        /\ Behind(x, 8, 2, 4, e2) = e3
        /\ Behind(x, 16, 1, 2, e3) = e4
    BY <2>1 DEF Behind, PutEnd, e0, e1, e2, e3
  <2> QED
    BY <1>16, <2>2 DEF SignalAt
<1> HIDE DEF e4
<1>18. Bytes(all, h + k4) /\ Sits(all, 0, head, h) /\ h + k4 \in Nat /\ h <= h + k4
  BY <1>6, <1>8, <1>16, Concat
<1> HIDE DEF all
<1> DEFINE b == TapBytes(S, extra)
           n == IF 5 \in S THEN h + k4 + 1 ELSE h + k4
<1>19. Bytes(b, n) /\ Sits(b, 0, all, h + k4) /\ (5 \in S => b[h + k4 + 1] = Level)
  <2>1. CASE 5 \in S
    <3>1. Bytes(<<Level>>, 1)
      BY DEF Bytes, Level, Octets
    <3>2. b = Cat(all, <<Level>>)
      BY <1>4, <2>1
    <3>3. Bytes(b, h + k4 + 1) /\ Sits(b, 0, all, h + k4) /\ Sits(b, h + k4, <<Level>>, 1)
      BY <1>18, <3>1, <3>2, Concat
    <3> HIDE DEF b
    <3>4. b[h + k4 + 1] = Level
      BY <3>3 DEF Sits
    <3> QED
      BY <2>1, <3>3, <3>4
  <2>2. CASE 5 \notin S
    <3>1. b = Cat(all, <<>>)
      BY <1>4, <2>2
    <3>2. Bytes(b, h + k4 + 0) /\ Sits(b, 0, all, h + k4)
      BY <1>9, <1>18, <3>1, Concat
    <3> QED
      BY <1>18, <2>2, <3>2
  <2> QED
    BY <2>1, <2>2
<1> HIDE DEF b
<1>20. Sits(b, 0, head, h)
  <2>1. h <= h + k4 /\ h \in Nat /\ h + k4 \in Nat /\ 0 \in Nat /\ 0 + h <= h + k4
    BY <1>6, <1>18
  <2>2. Sits(b, 0 + 0, head, h)
    BY <1>18, <1>19, <2>1, SitsDeeper
  <2> QED
    BY <2>2
<1>21. b[5] = Bits(S) /\ \A i \in 0..extra : b[8 + 4 * i] = IF i = extra THEN 0 ELSE 128
  <2>1. \A i \in 1..h : b[i] = head[i]
    BY <1>20 DEF Sits
  <2>2. 5 \in 1..h /\ \A i \in 0..extra : 8 + 4 * i \in 1..h
    BY DEF h
  <2> QED
    BY <1>7, <2>1, <2>2
<1> HIDE DEF n
<1> DEFINE before == h + k4
<1>22. before \in Nat
  BY <1>18
<1>23. /\ Bytes(b, n) /\ 8 + 4 * extra <= before
       /\ b[5] = Bits(S)
       /\ \A i \in 0..extra : b[8 + 4 * i] = IF i = extra THEN 0 ELSE 128
       /\ 5 \in S => b[before + 1] = Level
       /\ \A x : Byte(x, 4) = Bits(S) => SignalAt(x, 8 + 4 * extra) = before
  BY <1>17, <1>18, <1>19, <1>21 DEF h
<1>24. n = IF 5 \in S THEN before + 1 ELSE before
  BY DEF n
<1> HIDE DEF before
<1> QED
  BY <1>22, <1>23, <1>24 DEF b
\* The chain of present words ends with the first that does not announce another.
Chained(b, n, extra) ==
    \A i \in 0..extra : 8 + 4 * i <= n => b[8 + 4 * i] = IF i = extra THEN 0 ELSE 128

LEMMA ChainEnd ==
  ASSUME NEW extra \in Nat, NEW n \in Nat, NEW b, Bytes(b, n), Chained(b, n, extra)
  PROVE  AfterPresent(b) = IF 8 + 4 * extra <= n THEN 8 + 4 * extra ELSE None
<1>0. \A i \in 0..extra : 8 + 4 * i <= n => b[8 + 4 * i] = IF i = extra THEN 0 ELSE 128
  BY DEF Chained
<1> DEFINE ends == {o \in 8..Len(b) : o % 4 = 0 /\ Byte(b, o - 1) < 128}
           h == 8 + 4 * extra
<1>1. Len(b) = n
  BY DEF Bytes
<1>2. ASSUME NEW o \in 8..n, o % 4 = 0, o < h
      PROVE  ~(Byte(b, o - 1) < 128)
  <2> DEFINE i == (o - 8) \div 4
  <2>1. i \in Nat /\ o = 8 + 4 * i
    BY <1>2
  <2> HIDE DEF i
  <2>2. i \in 0..extra /\ i # extra
    BY <1>2, <2>1
  <2>3. b[o] = 128
    BY <1>0, <1>2, <2>1, <2>2
  <2>4. o - 1 + 1 = o
    OBVIOUS
  <2> QED
    BY <2>3, <2>4 DEF Byte
<1>3. ends \in SUBSET Int /\ \A o \in ends : h <= o
  BY <1>1, <1>2
<1>4. CASE h <= n
  <2>1. extra \in 0..extra /\ h - 1 + 1 = h
    OBVIOUS
  <2>2. Byte(b, h - 1) = 0
    BY <1>0, <1>4, <2>1 DEF Byte
  <2>3. h \in ends
    BY <1>1, <1>4, <2>2
  <2> HIDE DEF ends
  <2>4. Min(ends) = h
    BY <1>3, <2>3, MinIs
  <2> QED
    BY <1>4, <2>3, <2>4 DEF AfterPresent, ends
<1>5. CASE ~(h <= n)
  <2>1. ends = {}
    BY <1>1, <1>3, <1>5
  <2> QED
    BY <1>5, <2>1 DEF AfterPresent
<1> QED
  BY <1>4, <1>5

\* The level of a header is found when all of it is there, and only then.
LEMMA LevelBack ==
  ASSUME NEW S \in SUBSET (0..5), NEW extra \in Nat, NEW n \in 0..Len(TapBytes(S, extra))
  PROVE  ParseRadiotap(Cut(TapBytes(S, extra), n)).rssi
           = IF 5 \in S /\ n = Len(TapBytes(S, extra)) THEN Level - 256 ELSE None
<1> DEFINE tap == TapBytes(S, extra)
           b == Cut(tap, n)
           h == 8 + 4 * extra
<1>1. PICK before \in Nat :
            /\ Bytes(tap, IF 5 \in S THEN before + 1 ELSE before) /\ h <= before
            /\ tap[5] = Bits(S)
            /\ \A i \in 0..extra : tap[8 + 4 * i] = IF i = extra THEN 0 ELSE 128
            /\ 5 \in S => tap[before + 1] = Level
            /\ \A x : Byte(x, 4) = Bits(S) => SignalAt(x, h) = before
  BY TapLaidOut
<1> DEFINE whole == IF 5 \in S THEN before + 1 ELSE before
<1>2. Bytes(tap, whole) /\ whole \in Nat /\ Len(tap) = whole /\ n \in 0..whole /\ n \in Nat
  BY <1>1 DEF Bytes
<1>3. Bytes(b, n) /\ Len(b) = n /\ \A i \in 1..n : b[i] = tap[i]
  <2> HIDE DEF tap, whole
  <2>1. Bytes(b, n) /\ \A i \in 1..n : b[i] = tap[i]
    BY <1>2, CutBytes
  <2> QED
    BY <2>1 DEF Bytes
<1> HIDE DEF b, tap
<1>4. CASE n < 8
  <2>1. ParseRadiotap(b).rssi = None
    BY <1>3, <1>4 DEF ParseRadiotap
  <2>2. n # whole
    BY <1>1, <1>4
  <2> QED
    BY <1>2, <2>1, <2>2 DEF b, tap
<1>5. CASE n >= 8
  <2>1. AfterPresent(b) = IF h <= n THEN h ELSE None
    <3>1. \A i \in 0..extra : 8 + 4 * i <= n => b[8 + 4 * i] = IF i = extra THEN 0 ELSE 128
      BY <1>1, <1>2, <1>3
    <3>2. Chained(b, n, extra)
      BY <3>1 DEF Chained
    <3> QED
      BY <1>2, <1>3, <3>2, ChainEnd
  <2> DEFINE at == SignalAt(b, AfterPresent(b))
  <2>2. ParseRadiotap(b).rssi =
            IF AfterPresent(b) = None THEN None
            ELSE IF Bit(Byte(b, 4), 32) /\ at < Len(b) THEN Signed(Byte(b, at)) ELSE None
    BY <1>3, <1>5 DEF ParseRadiotap
  <2>3. CASE n < h
    <3>1. ParseRadiotap(b).rssi = None /\ n # whole
      BY <1>1, <2>1, <2>2, <2>3
    <3> QED
      BY <1>2, <3>1 DEF b, tap
  <2>4. CASE h <= n
    <3>1. AfterPresent(b) = h /\ h # None
      <4>1. h \in Int
        OBVIOUS
      <4> QED
        BY <2>1, <2>4, <4>1, NoneIsNoData
    <3>2. Byte(b, 4) = Bits(S)
      BY <1>1, <1>3, <1>5 DEF Byte
    <3>3. at = before
      BY <1>1, <3>1, <3>2
    <3>4. Bit(Byte(b, 4), 32) <=> 5 \in S
      <4>1. S \in SUBSET (0..6)
        OBVIOUS
      <4> QED
        BY <3>2, <4>1, BitsBack
    <3> HIDE DEF at
    <3>5. ParseRadiotap(b).rssi = IF 5 \in S /\ before < n THEN Signed(Byte(b, before)) ELSE None
      BY <1>3, <2>2, <3>1, <3>3, <3>4
    <3>6. ASSUME 5 \in S, before < n
          PROVE  n = whole /\ Signed(Byte(b, before)) = Level - 256
      <4>1. n = whole /\ before + 1 \in 1..n
        BY <1>2, <3>6
      <4>2. Byte(b, before) = Level
        BY <1>1, <1>3, <3>6, <4>1 DEF Byte
      <4> QED
        BY <4>1, <4>2 DEF Signed, Level
    <3>7. 5 \in S /\ n = whole => before < n
      OBVIOUS
    <3> HIDE DEF whole
    <3> QED
      BY <1>2, <3>5, <3>6, <3>7 DEF b, tap
  <2> QED
    BY <1>2, <2>3, <2>4
<1> QED
  BY <1>2, <1>4, <1>5

\* The level of a frame is the one the driver wrote, whatever fields and however many
\* present words precede it, and unknown when it is missing (LevelFound, parse_radiotap).
THEOREM LevelsAreFound == Spec => []LevelFound
<1>1. Init => LevelFound
  BY DEF Init, LevelFound
<1>2. ASSUME LevelFound, [Next]_rx
      PROVE  LevelFound'
  <2>1. CASE ReceiveTap
    <3>1. PICK S \in SUBSET (0..5), extra \in 0..MaxPresent :
              \E n \in 0..Len(TapBytes(S, extra)) :
                  rx' = [path |-> "radiotap", input |-> [fields |-> S, extra |-> extra, n |-> n],
                         output |-> ParseRadiotap(Cut(TapBytes(S, extra), n)).rssi]
      BY <2>1 DEF ReceiveTap, Expect
    <3>2. PICK n \in 0..Len(TapBytes(S, extra)) :
                  rx' = [path |-> "radiotap", input |-> [fields |-> S, extra |-> extra, n |-> n],
                         output |-> ParseRadiotap(Cut(TapBytes(S, extra), n)).rssi]
      BY <3>1
    <3>3. extra \in Nat
      BY BoundsOK
    <3> QED
      BY <3>2, <3>3, LevelBack DEF LevelFound
  <2>2. CASE ReceiveBeacon \/ ReceiveFrench \/ ReceiveNan \/ ReceivePack \/ ReceiveLocation \/ ReceiveSent
    BY <2>2, Paths DEF LevelFound
  <2>3. CASE UNCHANGED rx
    BY <1>2, <2>3 DEF LevelFound
  <2> QED
    BY <1>2, <2>1, <2>2, <2>3 DEF Next
<1> QED
  BY <1>1, <1>2, PTL DEF Spec


-----------------------------------------------------------------------------
(* Walks over items.                                                        *)

\* f says what a walk over the items of `end` visits, from wherever it begins.
WalkOn(f, end) ==
    f = [o \in DOMAIN end |-> {o} \cup IF end[o] \in DOMAIN end THEN f[end[o]] ELSE {}]

\* There is such a function: what every set that holds the beginning and is closed holds.
LEMMA WalkExists ==
  ASSUME NEW end
  PROVE  \E f : WalkOn(f, end)
<1> DEFINE D == DOMAIN end
           Closed(C) == \A x \in C : end[x] \in D => end[x] \in C
           From(o) == {x \in D : \A C \in SUBSET D : o \in C /\ Closed(C) => x \in C}
           f == [o \in D |-> From(o)]
<1>1. ASSUME NEW o \in D
      PROVE  From(o) = {o} \cup IF end[o] \in D THEN f[end[o]] ELSE {}
  <2>1. o \in From(o)
    OBVIOUS
  <2>2. CASE end[o] \in D
    <3> DEFINE p == end[o]
               C == {o} \cup From(p)
    <3>1. From(p) \subseteq From(o)
      BY <2>2
    <3>2. C \in SUBSET D /\ o \in C
      OBVIOUS
    <3>3. Closed(C)
      <4> SUFFICES ASSUME NEW x \in C, end[x] \in D PROVE end[x] \in C
        OBVIOUS
      <4>1. CASE x = o
        <5>1. p \in From(p)
          BY <2>2
        <5> QED
          BY <4>1, <5>1
      <4>2. CASE x \in From(p)
        <5>1. end[x] \in From(p)
          BY <4>2
        <5> QED
          BY <5>1
      <4> QED
        BY <4>1, <4>2
    <3>4. From(o) \subseteq C
      BY <3>2, <3>3
    <3>5. f[p] = From(p)
      BY <2>2
    <3> HIDE DEF From, f
    <3> QED
      BY <2>1, <2>2, <3>1, <3>4, <3>5
  <2>3. CASE end[o] \notin D
    <3>1. Closed({o}) /\ {o} \in SUBSET D
      BY <2>3
    <3>2. From(o) \subseteq {o}
      BY <3>1
    <3> HIDE DEF From
    <3> QED
      BY <2>1, <2>3, <3>2
  <2> QED
    BY <2>2, <2>3
<1> HIDE DEF From
<1>2. f = [o \in D |-> {o} \cup IF end[o] \in D THEN f[end[o]] ELSE {}]
  BY <1>1
<1> QED
  BY <1>2 DEF WalkOn

LEMMA OffsetsAre ==
  ASSUME NEW end, NEW from \in DOMAIN end
  PROVE  \E f : WalkOn(f, end) /\ Offsets(end, from) = f[from]
<1> DEFINE f == CHOOSE f : WalkOn(f, end)
<1>1. WalkOn(f, end)
  BY WalkExists
<1>2. Offsets(end, from) = f[from]
  BY DEF Offsets, WalkOn
<1> QED
  BY <1>1, <1>2

\* Items that begin at at[0], at[1], ..., of which those up to n are there as a whole.
Laid(end, at, k, n) ==
    /\ at \in [0..k -> Nat]
    /\ \A i \in 0..(k - 1) : at[i] < at[i + 1]
    /\ DOMAIN end = 0..n
    /\ \A i \in 0..k : at[i] <= n =>
          IF i < k /\ at[i + 1] <= n THEN end[at[i]] = at[i + 1] ELSE end[at[i]] \notin 0..n

\* The beginnings from the i-th on that are not past n.
Begins(at, i, k, n) == {at[j] : j \in {j \in i..k : at[j] <= n}}

LEMMA Increasing ==
  ASSUME NEW end, NEW k \in Nat, NEW n \in Nat, NEW at, Laid(end, at, k, n), NEW i \in 0..k
  PROVE  \A j \in i..k : at[i] <= at[j] /\ (i < j => at[i] < at[j])
<1> DEFINE G == {j \in Nat : j \in i..k => at[i] <= at[j] /\ (i < j => at[i] < at[j])}
<1>1. at \in [0..k -> Nat] /\ \A j \in 0..(k - 1) : at[j] < at[j + 1]
  BY DEF Laid
<1>2. ASSUME NEW j \in Nat, \A h \in Nat : h < j => h \in G, j \in i..k
      PROVE  at[i] <= at[j] /\ (i < j => at[i] < at[j])
  <2>1. CASE j = i
    BY <1>1, <2>1
  <2>2. CASE j # i
    <3>1. j - 1 \in Nat /\ j - 1 < j /\ j - 1 \in i..k /\ j - 1 \in 0..(k - 1) /\ j - 1 + 1 = j
      BY <1>2, <2>2
    <3>2. at[i] <= at[j - 1]
      BY <1>2, <3>1
    <3>3. at[j - 1] < at[j]
      BY <1>1, <3>1
    <3>4. at[i] \in Nat /\ at[j - 1] \in Nat /\ at[j] \in Nat
      BY <1>1, <1>2, <3>1
    <3> QED
      BY <3>2, <3>3, <3>4
  <2> QED
    BY <2>1, <2>2
<1>3. \A j \in Nat : (\A h \in Nat : h < j => h \in G) => j \in G
  BY <1>2
<1>4. G \in SUBSET Nat
  OBVIOUS
<1> HIDE DEF G
<1>5. G = Nat
  BY <1>3, <1>4, LeastCounterexample
<1> QED
  BY <1>5 DEF G

\* A walk visits these beginnings and no other offset.
LEMMA WalkVisits ==
  ASSUME NEW end, NEW k \in Nat, NEW n \in Nat, NEW at, Laid(end, at, k, n), at[0] <= n
  PROVE  Offsets(end, at[0]) = Begins(at, 0, k, n)
<1>1. /\ at \in [0..k -> Nat] /\ DOMAIN end = 0..n
      /\ \A i \in 0..k : at[i] <= n =>
            IF i < k /\ at[i + 1] <= n THEN end[at[i]] = at[i + 1] ELSE end[at[i]] \notin 0..n
  BY DEF Laid
<1>2. at[0] \in DOMAIN end
  BY <1>1
<1>3. PICK f : WalkOn(f, end) /\ Offsets(end, at[0]) = f[at[0]]
  BY <1>2, OffsetsAre
<1>4. \A o \in 0..n : f[o] = {o} \cup IF end[o] \in 0..n THEN f[end[o]] ELSE {}
  BY <1>1, <1>3 DEF WalkOn
<1> DEFINE G == {d \in Nat : d \in 0..k /\ at[k - d] <= n => f[at[k - d]] = Begins(at, k - d, k, n)}
<1>5. ASSUME NEW d \in Nat, \A h \in Nat : h < d => h \in G, d \in 0..k, at[k - d] <= n
      PROVE  f[at[k - d]] = Begins(at, k - d, k, n)
  <2> DEFINE i == k - d
  <2>1. i \in 0..k /\ at[i] \in 0..n
    BY <1>1, <1>5
  <2>2. CASE i < k /\ at[i + 1] <= n
    <3>1. d - 1 \in Nat /\ d - 1 < d /\ d - 1 \in 0..k /\ k - (d - 1) = i + 1 /\ i + 1 \in 0..k
      BY <1>5, <2>1, <2>2
    <3>2. f[at[i + 1]] = Begins(at, i + 1, k, n)
      BY <1>5, <2>2, <3>1
    <3>3. end[at[i]] = at[i + 1] /\ at[i + 1] \in 0..n
      BY <1>1, <2>1, <2>2, <3>1
    <3>4. f[at[i]] = {at[i]} \cup f[at[i + 1]]
      BY <1>4, <2>1, <3>3
    <3>5. \A j \in i..k : j = i \/ j \in (i + 1)..k
      BY <2>1
    <3>6. i \in i..k /\ \A j \in (i + 1)..k : j \in i..k
      BY <2>1
    <3> HIDE DEF i
    <3>7. Begins(at, i, k, n) = {at[i]} \cup Begins(at, i + 1, k, n)
      BY <2>1, <3>5, <3>6 DEF Begins
    <3> QED
      BY <3>2, <3>4, <3>7 DEF i
  <2>3. CASE ~(i < k /\ at[i + 1] <= n)
    <3>1. end[at[i]] \notin 0..n
      BY <1>1, <2>1, <2>3
    <3>2. f[at[i]] = {at[i]}
      BY <1>4, <2>1, <3>1
    <3>3. ASSUME NEW j \in i..k, j # i
          PROVE  ~(at[j] <= n)
      <4>1. i + 1 \in 0..k /\ j \in (i + 1)..k /\ i < k /\ j \in 0..k
        BY <2>1, <3>3
      <4>2. at[i + 1] <= at[j]
        BY <4>1, Increasing
      <4>3. at[i + 1] \in Nat /\ at[j] \in Nat /\ ~(at[i + 1] <= n)
        BY <1>1, <2>3, <4>1
      <4> QED
        BY <4>2, <4>3
    <3>4. i \in i..k
      BY <2>1
    <3> HIDE DEF i
    <3>5. Begins(at, i, k, n) = {at[i]}
      BY <2>1, <3>3, <3>4 DEF Begins
    <3> QED
      BY <3>2, <3>5 DEF i
  <2> QED
    BY <2>2, <2>3
<1>6. \A d \in Nat : (\A h \in Nat : h < d => h \in G) => d \in G
  BY <1>5
<1>7. G \in SUBSET Nat
  OBVIOUS
<1> HIDE DEF G
<1>8. G = Nat
  BY <1>6, <1>7, LeastCounterexample
<1>9. k - k = 0 /\ k \in 0..k
  OBVIOUS
<1>10. f[at[0]] = Begins(at, 0, k, n)
  BY <1>8, <1>9 DEF G
<1> QED
  BY <1>3, <1>10

\* A walk keeps the items that end by n.
Kept(at, k, n) == {at[j - 1] : j \in {j \in 1..k : at[j] <= n}}

LEMMA WalkItems ==
  ASSUME NEW end, NEW k \in Nat, NEW n \in Nat, NEW at, Laid(end, at, k, n)
  PROVE  Items(end, at[0]) = Kept(at, k, n)
<1>1. /\ at \in [0..k -> Nat] /\ DOMAIN end = 0..n
      /\ \A i \in 0..k : at[i] <= n =>
            IF i < k /\ at[i + 1] <= n THEN end[at[i]] = at[i + 1] ELSE end[at[i]] \notin 0..n
  BY DEF Laid
<1>2. CASE ~(at[0] <= n)
  <2>1. Offsets(end, at[0]) = {}
    BY <1>1, <1>2 DEF Offsets
  <2>2. ASSUME NEW j \in 1..k
        PROVE  ~(at[j] <= n)
    <3>1. at[0] <= at[j]
      BY Increasing
    <3>2. at[0] \in Nat /\ at[j] \in Nat
      BY <1>1
    <3> QED
      BY <1>2, <3>1, <3>2
  <2> QED
    BY <2>1, <2>2 DEF Items, Kept
<1>3. CASE at[0] <= n
  <2>1. Offsets(end, at[0]) = Begins(at, 0, k, n)
    BY <1>3, WalkVisits
  <2>2. ASSUME NEW i \in 0..k, at[i] <= n
        PROVE  end[at[i]] \in 0..n <=> i + 1 \in 1..k /\ at[i + 1] <= n
    <3>1. i < k <=> i + 1 \in 1..k
      OBVIOUS
    <3>2. i < k => at[i + 1] \in Nat
      BY <1>1
    <3> QED
      BY <1>1, <2>2, <3>1, <3>2
  <2>3. ASSUME NEW j \in 1..k, at[j] <= n
        PROVE  j - 1 \in 0..k /\ at[j - 1] <= n /\ j - 1 + 1 = j
    <3>1. j - 1 \in 0..k /\ j - 1 + 1 = j /\ j \in (j - 1)..k
      OBVIOUS
    <3>2. at[j - 1] <= at[j]
      BY <3>1, Increasing
    <3>3. at[j - 1] \in Nat /\ at[j] \in Nat
      BY <1>1, <3>1
    <3> QED
      BY <2>3, <3>1, <3>2, <3>3
  <2> DEFINE R == Kept(at, k, n)
  <2>4. \A o \in Items(end, at[0]) : o \in R
    <3> SUFFICES ASSUME NEW o \in Items(end, at[0]) PROVE o \in R
      OBVIOUS
    <3>1. o \in Begins(at, 0, k, n) /\ end[o] \in 0..n
      BY <1>1, <2>1 DEF Items
    <3>2. PICK i \in 0..k : at[i] <= n /\ o = at[i]
      BY <3>1 DEF Begins
    <3>3. i + 1 \in 1..k /\ at[i + 1] <= n /\ i + 1 - 1 = i
      BY <2>2, <3>1, <3>2
    <3> QED
      BY <3>2, <3>3 DEF Kept
  <2>5. \A o \in R : o \in Items(end, at[0])
    <3> SUFFICES ASSUME NEW j \in 1..k, at[j] <= n PROVE at[j - 1] \in Items(end, at[0])
      BY DEF Kept
    <3>1. j - 1 \in 0..k /\ at[j - 1] <= n /\ j - 1 + 1 = j
      BY <2>3
    <3>2. at[j - 1] \in Begins(at, 0, k, n)
      BY <3>1 DEF Begins
    <3>3. end[at[j - 1]] \in 0..n
      BY <2>2, <3>1
    <3> QED
      BY <1>1, <2>1, <3>2, <3>3 DEF Items
  <2> QED
    BY <2>4, <2>5
<1> QED
  BY <1>2, <1>3

-----------------------------------------------------------------------------
(* Elements: a type, a length and a value.                                  *)

\* s are elements with these values.
Elemental(s, value, k) ==
    /\ Strings(s, k)
    /\ \A i \in 1..k :
          /\ value[i] \in Seq(Octets) /\ Len(value[i]) \in Octets
          /\ s[i] = Cat(<<s[i][1], Len(value[i])>>, value[i]) /\ s[i][1] \in Octets

\* Strings in a row, behind the first `lead` bytes of b, of which n are there.
InRow(b, n, lead, s, k) ==
    /\ Bytes(b, n) /\ n <= lead + At(s, k)
    /\ \A i \in 1..At(s, k) : lead + i <= n => b[lead + i] = Flat(s, k)[i]

\* Where they begin.
Row(lead, s, k) == [i \in 0..k |-> lead + At(s, i)]

\* The bytes of t, as many as are there.
Shows(b, n, o, t) == \A j \in 1..Len(t) : o + j <= n => b[o + j] = t[j]

LEMMA SameBytes ==
  ASSUME NEW b, NEW k \in Nat, NEW n \in Nat, NEW s, NEW t, Bytes(s, n), Bytes(t, n),
         Sits(b, k, s, n), Sits(b, k, t, n)
  PROVE  s = t
<1>1. s \in Seq(Octets) /\ t \in Seq(Octets) /\ Len(s) = n /\ Len(t) = n
  BY DEF Bytes
<1>2. \A i \in 1..n : s[i] = t[i]
  BY DEF Sits
<1> QED
  BY <1>1, <1>2, SeqEqual

LEMMA ElementShape ==
  ASSUME NEW k \in Nat, NEW s, NEW value, Elemental(s, value, k), NEW i \in 1..k
  PROVE  /\ Strings(s, k) /\ Len(value[i]) \in Nat /\ Len(s[i]) = 2 + Len(value[i])
         /\ Bytes(value[i], Len(value[i])) /\ s[i][2] = Len(value[i])
         /\ Sits(s[i], 2, value[i], Len(value[i]))
<1> DEFINE v == value[i]
           m == Len(v)
           head == <<s[i][1], m>>
<1>1. /\ Strings(s, k) /\ v \in Seq(Octets) /\ m \in Octets
      /\ s[i] = Cat(head, v) /\ s[i][1] \in Octets
  BY DEF Elemental
<1>2. m \in Nat
  BY <1>1 DEF Octets
<1>3. Bytes(head, 2) /\ head[2] = m
  BY <1>1 DEF Bytes
<1>4. Bytes(v, m)
  BY <1>1 DEF Bytes
<1> HIDE DEF head, m, v
<1>5. Bytes(Cat(head, v), 2 + m) /\ Sits(Cat(head, v), 0, head, 2) /\ Sits(Cat(head, v), 2, v, m)
  BY <1>2, <1>3, <1>4, Concat
<1>6. Len(Cat(head, v)) = 2 + m
  BY <1>5 DEF Bytes
<1>7. Cat(head, v)[0 + 2] = head[2]
  BY <1>5 DEF Sits
<1> QED
  BY <1>1, <1>2, <1>3, <1>4, <1>5, <1>6, <1>7 DEF v, m

\* What is there of an element, by the bytes of the string it is in.
LEMMA RowSits ==
  ASSUME NEW lead \in Nat, NEW k \in Nat, NEW n \in Nat, NEW s, NEW b, Strings(s, k),
         InRow(b, n, lead, s, k), NEW i \in 1..k
  PROVE  /\ At(s, i - 1) \in Nat /\ At(s, i) = At(s, i - 1) + Len(s[i]) /\ Len(s[i]) \in Nat
         /\ At(s, i) \in Nat /\ At(s, k) \in Nat
         /\ Shows(b, n, lead + At(s, i - 1), s[i])
<1>1. i - 1 \in 0..k /\ i \in 0..k /\ k \in 0..k /\ k \in i..k
  OBVIOUS
<1>2. /\ At(s, i - 1) \in Nat /\ At(s, i) = At(s, i - 1) + Len(s[i]) /\ Len(s[i]) \in Nat
      /\ At(s, i) \in Nat /\ At(s, k) \in Nat
  BY <1>1, FlatBytes, StringBytes
<1>3. At(s, i) <= At(s, k) /\ Sits(Flat(s, k), At(s, i - 1), s[i], Len(s[i]))
  BY <1>1, FlatLaidOut
<1>4. ASSUME NEW j \in 1..Len(s[i]), lead + At(s, i - 1) + j <= n
      PROVE  b[lead + At(s, i - 1) + j] = s[i][j]
  <2> DEFINE p == At(s, i - 1)
             h == p + j
  <2>1. h \in 1..At(s, k) /\ lead + h = lead + p + j
    <3> DEFINE q == Len(s[i])
               u == At(s, i)
               v == At(s, k)
    <3>1. p \in Nat /\ q \in Nat /\ u \in Nat /\ v \in Nat /\ u = p + q /\ u <= v /\ j \in 1..q
      BY <1>2, <1>3
    <3> HIDE DEF p, q, u, v
    <3>2. p + j \in 1..v /\ lead + (p + j) = lead + p + j
      BY <3>1
    <3> QED
      BY <3>2 DEF v
  <2>2. Flat(s, k)[h] = s[i][j]
    BY <1>3 DEF Sits
  <2> HIDE DEF h
  <2>3. b[lead + h] = Flat(s, k)[h]
    BY <1>4, <2>1 DEF InRow
  <2> QED
    BY <2>1, <2>2, <2>3
<1> QED
  BY <1>2, <1>4 DEF Shows

\* The elements of a string begin where its walker looks for them, up to one that overruns.
LEMMA ElementsLaid ==
  ASSUME NEW lead \in Nat, NEW k \in Nat, NEW n \in Nat, NEW s, NEW value, NEW b,
         Elemental(s, value, k), InRow(b, n, lead, s, k)
  PROVE  Laid(ElementEnds(b), Row(lead, s, k), k, n)
<1> DEFINE at == Row(lead, s, k)
           end == ElementEnds(b)
<1>1. Strings(s, k) /\ Len(b) = n /\ n <= lead + At(s, k)
  BY DEF Elemental, InRow, Bytes
<1>2. \A i \in 0..k : At(s, i) \in Nat
  BY <1>1, FlatBytes
<1>3. at \in [0..k -> Nat] /\ \A i \in 0..k : at[i] = lead + At(s, i)
  BY <1>2 DEF Row
<1>4. DOMAIN end = 0..n
  BY <1>1 DEF ElementEnds
<1>5. \A o \in 0..n : end[o] = IF o + 2 > n THEN n + 1 ELSE o + 2 + Byte(b, o + 1)
  BY <1>1 DEF ElementEnds
<1> HIDE DEF at, end
<1>6. ASSUME NEW i \in 1..k
      PROVE  /\ at[i] = at[i - 1] + 2 + Len(value[i]) /\ Len(value[i]) \in Nat
             /\ at[i - 1] + 2 <= n => Byte(b, at[i - 1] + 1) = Len(value[i])
  <2>1. /\ Len(value[i]) \in Nat /\ Len(s[i]) = 2 + Len(value[i]) /\ s[i][2] = Len(value[i])
    BY ElementShape
  <2>2. /\ At(s, i - 1) \in Nat /\ At(s, i) = At(s, i - 1) + Len(s[i])
        /\ Shows(b, n, lead + At(s, i - 1), s[i])
    BY <1>1, RowSits
  <2>3. at[i - 1] = lead + At(s, i - 1) /\ at[i] = lead + At(s, i)
    BY <1>3
  <2>4. 2 \in 1..Len(s[i])
    BY <2>1
  <2>5. at[i - 1] + 2 <= n => b[at[i - 1] + 2] = Len(value[i])
    <3>1. Shows(b, n, at[i - 1], s[i])
      BY <2>2, <2>3
    <3>2. at[i - 1] + 2 <= n => b[at[i - 1] + 2] = s[i][2]
      BY <2>4, <3>1 DEF Shows
    <3> QED
      BY <2>1, <3>2
  <2>6. Byte(b, at[i - 1] + 1) = b[at[i - 1] + 2]
    <3>1. at[i - 1] + 1 + 1 = at[i - 1] + 2
      BY <2>2, <2>3
    <3> QED
      BY <3>1 DEF Byte
  <2>7. at[i] = at[i - 1] + 2 + Len(value[i])
    <3> DEFINE p == At(s, i - 1)
               m == Len(value[i])
    <3>1. at[i - 1] = lead + p /\ at[i] = lead + (p + (2 + m)) /\ p \in Nat /\ m \in Nat
      BY <2>1, <2>2, <2>3
    <3> HIDE DEF p, m
    <3>2. at[i] = at[i - 1] + 2 + m
      BY <3>1
    <3> QED
      BY <3>2 DEF m
  <2> QED
    BY <2>1, <2>5, <2>6, <2>7
<1>7. ASSUME NEW i \in 0..(k - 1)
      PROVE  at[i] < at[i + 1]
  <2>1. i + 1 \in 1..k /\ i + 1 - 1 = i /\ i \in 0..k
    OBVIOUS
  <2>2. at[i + 1] = at[i] + 2 + Len(value[i + 1]) /\ Len(value[i + 1]) \in Nat
    BY <1>6, <2>1
  <2> QED
    BY <1>3, <2>1, <2>2
<1>8. ASSUME NEW i \in 0..k, at[i] <= n
      PROVE  IF i < k /\ at[i + 1] <= n THEN end[at[i]] = at[i + 1] ELSE end[at[i]] \notin 0..n
  <2>1. at[i] \in 0..n /\ at[i] \in Nat
    BY <1>3, <1>8
  <2>2. CASE i = k
    <3>1. n <= at[i]
      BY <1>1, <1>3, <2>2
    <3>2. end[at[i]] = n + 1
      BY <1>5, <2>1, <3>1
    <3> QED
      BY <2>2, <3>2
  <2>3. CASE i # k
    <3>1. i + 1 \in 1..k /\ i + 1 - 1 = i /\ i < k
      BY <2>3
    <3>2. /\ at[i + 1] = at[i] + 2 + Len(value[i + 1]) /\ Len(value[i + 1]) \in Nat
          /\ at[i] + 2 <= n => Byte(b, at[i] + 1) = Len(value[i + 1])
      BY <1>6, <3>1
    <3>3. CASE at[i] + 2 <= n
      <4>1. end[at[i]] = at[i + 1]
        BY <1>5, <2>1, <3>2, <3>3
      <4> QED
        BY <3>1, <4>1
    <3>4. CASE ~(at[i] + 2 <= n)
      <4>1. end[at[i]] = n + 1 /\ ~(at[i + 1] <= n)
        BY <1>5, <2>1, <3>2, <3>4
      <4> QED
        BY <4>1
    <3> QED
      BY <3>3, <3>4
  <2> QED
    BY <2>2, <2>3
<1> QED
  BY <1>3, <1>4, <1>7, <1>8 DEF Laid, at, end

\* An element that is there as a whole is read as it was put.
LEMMA ElementRead ==
  ASSUME NEW lead \in Nat, NEW k \in Nat, NEW n \in Nat, NEW s, NEW value, NEW b,
         Elemental(s, value, k), InRow(b, n, lead, s, k), NEW i \in 1..k, lead + At(s, i) <= n
  PROVE  Byte(b, lead + At(s, i - 1)) = s[i][1] /\ Value(b, lead + At(s, i - 1)) = value[i]
<1> DEFINE o == lead + At(s, i - 1)
           m == Len(value[i])
<1>1. /\ Strings(s, k) /\ m \in Nat /\ Len(s[i]) = 2 + m /\ Bytes(value[i], m)
      /\ s[i][2] = m /\ Sits(s[i], 2, value[i], m)
  BY ElementShape
<1>2. /\ At(s, i - 1) \in Nat /\ At(s, i) = At(s, i - 1) + Len(s[i])
      /\ Shows(b, n, o, s[i])
  BY <1>1, RowSits
<1>3. o \in Nat /\ o + 2 + m <= n
  <2>1. At(s, i - 1) \in Nat /\ At(s, i) = At(s, i - 1) + (2 + m) /\ m \in Nat
    BY <1>1, <1>2
  <2> HIDE DEF m
  <2> QED
    BY <2>1
<1> HIDE DEF o, m
<1>4. Byte(b, o) = s[i][1] /\ Byte(b, o + 1) = m
  <2>1. 1 \in 1..Len(s[i]) /\ 2 \in 1..Len(s[i]) /\ o + 1 <= n /\ o + 2 <= n /\ o + 1 + 1 = o + 2
    BY <1>1, <1>3
  <2> QED
    BY <1>1, <1>2, <2>1 DEF Byte, Shows
<1>5. Sits(b, o + 2, value[i], m)
  <2>1. ASSUME NEW j \in 1..m
        PROVE  b[o + 2 + j] = value[i][j]
    <3>0. Len(s[i]) = 2 + m /\ m \in Nat
      BY <1>1
    <3>1. 2 + j \in 1..Len(s[i]) /\ o + (2 + j) <= n /\ o + (2 + j) = o + 2 + j
      BY <1>3, <3>0
    <3>2. s[i][2 + j] = value[i][j]
      BY <1>1 DEF Sits
    <3> QED
      BY <1>2, <3>1, <3>2 DEF Shows
  <2> QED
    BY <2>1 DEF Sits
<1>6. Bytes(b, n)
  BY DEF InRow
<1> DEFINE v == Slice(b, o + 2, o + 2 + m)
<1>7. Bytes(v, m) /\ Sits(b, o + 2, v, m)
  <2>1. o + 2 \in Nat
    BY <1>3
  <2> QED
    BY <1>1, <1>3, <1>6, <2>1, SliceBytes
<1> HIDE DEF v
<1>8. v = value[i]
  <2>1. o + 2 \in Nat
    BY <1>3
  <2> QED
    BY <1>1, <1>5, <1>7, <2>1, SameBytes
<1>9. Value(b, o) = v
  BY <1>4 DEF Value, v
<1> QED
  BY <1>4, <1>8, <1>9 DEF o

\* What a walk along a row keeps.
LEMMA KeptInRow ==
  ASSUME NEW lead, NEW k \in Nat, NEW n \in Nat, NEW s, NEW at,
         \A j \in 1..k : at[j] = lead + At(s, j) /\ at[j - 1] = lead + At(s, j - 1)
  PROVE  Kept(at, k, n) = {lead + At(s, i - 1) : i \in {i \in 1..k : lead + At(s, i) <= n}}
<1> DEFINE V == {j \in 1..k : at[j] <= n}
           W == {i \in 1..k : lead + At(s, i) <= n}
<1>1. V = W
  OBVIOUS
<1>2. \A j \in W : at[j - 1] = lead + At(s, j - 1)
  OBVIOUS
<1>3. Kept(at, k, n) = {at[j - 1] : j \in V}
  BY DEF Kept
<1> HIDE DEF V, W
<1>4. {at[j - 1] : j \in W} = {lead + At(s, j - 1) : j \in W}
  BY <1>2, Zenon
<1> QED
  BY <1>1, <1>3, <1>4 DEF W

\* The elements a walk keeps are those that end by n.
LEMMA ElementsKept ==
  ASSUME NEW lead \in Nat, NEW k \in Nat, NEW n \in Nat, NEW s, NEW value, NEW b,
         Elemental(s, value, k), InRow(b, n, lead, s, k)
  PROVE  Items(ElementEnds(b), lead) = {lead + At(s, i - 1) : i \in {i \in 1..k : lead + At(s, i) <= n}}
<1> DEFINE at == Row(lead, s, k)
<1>1. Strings(s, k)
  BY DEF Elemental
<1>2. \A i \in 0..k : at[i] = lead + At(s, i)
  BY DEF Row
<1>3. at[0] = lead
  <2>1. At(s, 0) = 0
    BY <1>1, FlatBytes
  <2> QED
    BY <1>2, <2>1
<1>4. Laid(ElementEnds(b), at, k, n)
  BY ElementsLaid
<1> HIDE DEF at
<1>5. Items(ElementEnds(b), at[0]) = Kept(at, k, n)
  BY <1>4, WalkItems
<1>6. \A j \in 1..k : at[j] = lead + At(s, j) /\ at[j - 1] = lead + At(s, j - 1)
  BY <1>2
<1> QED
  BY <1>3, <1>5, <1>6, KeptInRow

LEMMA MinOf ==
  ASSUME NEW P \in SUBSET Nat, P # {}
  PROVE  Min(P) \in P /\ \A x \in P : Min(P) <= x
<1> DEFINE G == Nat \ P
<1>1. G \in SUBSET Nat /\ G # Nat
  OBVIOUS
<1>2. \E m \in Nat : m \notin G /\ \A x \in Nat : x < m => x \in G
  <2> HIDE DEF G
  <2> QED
    BY <1>1, LeastCounterexample
<1>3. \E m \in P : \A x \in P : m <= x
  BY <1>2
<1> QED
  BY <1>3 DEF Min

LEMMA RestBytes ==
  ASSUME NEW b, NEW i \in Nat, NEW k \in Nat, Bytes(b, i + k)
  PROVE  Rest(b, i) = Slice(b, i, i + k)
<1>1. Len(b) = i + k
  BY DEF Bytes
<1> QED
  BY <1>1 DEF Rest, Slice

\* The part of a string that is another string.
LEMMA PartIs ==
  ASSUME NEW b, NEW n \in Nat, Bytes(b, n), NEW i \in Nat, NEW k \in Nat, i + k <= n,
         NEW s, Bytes(s, k), Sits(b, i, s, k)
  PROVE  Slice(b, i, i + k) = s /\ (i + k = n => Rest(b, i) = s)
<1>1. Bytes(Slice(b, i, i + k), k) /\ Sits(b, i, Slice(b, i, i + k), k)
  BY SliceBytes
<1>2. Slice(b, i, i + k) = s
  BY <1>1, SameBytes
<1> QED
  BY <1>2, RestBytes

\* Strings in a row behind a head, cut.
LEMMA CutInRow ==
  ASSUME NEW k \in Nat, NEW s, Strings(s, k), NEW lead \in Nat, NEW head, Bytes(head, lead)
  PROVE  LET all == Cat(head, FlattenSeq(s)) IN
         /\ Len(all) = lead + At(s, k)
         /\ \A n \in 0..Len(all) : InRow(Cut(all, n), n, lead, s, k)
<1> DEFINE m == At(s, k)
           flat == FlattenSeq(s)
           all == Cat(head, flat)
<1>1. m \in Nat /\ Bytes(flat, m) /\ flat = Flat(s, k)
  <2>1. k \in 0..k
    OBVIOUS
  <2> QED
    BY <2>1, FlatBytes, FlatSteps
<1> HIDE DEF m, flat
<1>2. Bytes(all, lead + m) /\ Sits(all, lead, flat, m)
  BY <1>1, Concat
<1>3. Len(all) = lead + m
  BY <1>2 DEF Bytes
<1> HIDE DEF all
<1>4. ASSUME NEW n \in 0..Len(all)
      PROVE  InRow(Cut(all, n), n, lead, s, k)
  <2>0. lead + m \in Nat /\ n \in 0..(lead + m)
    BY <1>1, <1>3
  <2>1. Bytes(Cut(all, n), n) /\ \A i \in 1..n : Cut(all, n)[i] = all[i]
    BY <1>2, <2>0, CutBytes
  <2>2. ASSUME NEW i \in 1..m, lead + i <= n
        PROVE  Cut(all, n)[lead + i] = Flat(s, k)[i]
    <3>1. lead + i \in 1..n
      BY <1>1, <2>0, <2>2
    <3>2. all[lead + i] = flat[i]
      BY <1>2 DEF Sits
    <3> QED
      BY <1>1, <2>1, <3>1, <3>2
  <2>3. n <= lead + m
    BY <1>1, <1>3
  <2> QED
    BY <2>1, <2>2, <2>3 DEF InRow, m
<1> QED
  BY <1>3, <1>4 DEF all, m, flat

\* Where the strings of a set begin: the first where the first of the set does.
Starts(lead, s, J) == {lead + At(s, i - 1) : i \in J}

LEMMA FirstItem ==
  ASSUME NEW lead \in Nat, NEW k \in Nat, NEW s, Strings(s, k), NEW J \in SUBSET (1..k)
  PROVE  /\ Starts(lead, s, J) = {} <=> J = {}
         /\ J # {} => Min(Starts(lead, s, J)) = lead + At(s, Min(J) - 1) /\ Min(J) \in J
<1> DEFINE those == Starts(lead, s, J)
<1>1. those = {} <=> J = {}
  BY DEF Starts
<1>2. ASSUME J # {}
      PROVE  Min(those) = lead + At(s, Min(J) - 1) /\ Min(J) \in J
  <2> DEFINE m == Min(J)
  <2>1. J \in SUBSET Nat
    OBVIOUS
  <2>2. m \in J /\ \A i \in J : m <= i
    BY <1>2, <2>1, MinOf
  <2> HIDE DEF m
  <2>3. ASSUME NEW i \in J
        PROVE  lead + At(s, i - 1) \in Int /\ lead + At(s, m - 1) <= lead + At(s, i - 1)
    <3>1. /\ i \in 1..k /\ m \in 1..k /\ i - 1 \in 0..k /\ m - 1 \in 0..k /\ m <= i
          /\ i # m => i - 1 \in m..k /\ m \in 0..k
      BY <2>2
    <3>2. At(s, i - 1) \in Nat /\ At(s, m - 1) \in Nat
      BY <3>1, FlatBytes
    <3>3. i # m => At(s, m) = At(s, m - 1) + Len(s[m]) /\ Len(s[m]) \in Nat /\ At(s, m) <= At(s, i - 1)
      BY <3>1, FlatBytes, StringBytes, FlatLaidOut
    <3> QED
      BY <3>1, <3>2, <3>3
  <2>4. those \in SUBSET Int /\ lead + At(s, m - 1) \in those /\ \A o \in those : lead + At(s, m - 1) <= o
    BY <2>2, <2>3 DEF Starts
  <2> HIDE DEF those
  <2>5. Min(those) = lead + At(s, m - 1)
    BY <2>4, MinIs
  <2> QED
    BY <2>2, <2>5 DEF m
<1> QED
  BY <1>1, <1>2


-----------------------------------------------------------------------------
(* Beacons.                                                                 *)

LEMMA MessageBytes == Bytes(BasicId, 25) /\ BasicId[1] = 2 /\ Bytes(Located(1, 2), 25)
<1>1. Bytes(BasicId, 25) /\ BasicId[1] = 2
  <2> DEFINE a == Cat(<<2, 18>>, <<65, 66>>)
             b == Cat(a, Zeros(21))
  <2>1. b = BasicId
    BY DEF BasicId, Cat
  <2>2. Bytes(<<2, 18>>, 2) /\ Bytes(<<65, 66>>, 2) /\ Bytes(Zeros(21), 21)
    <3>1. Bytes(<<2, 18>>, 2) /\ Bytes(<<65, 66>>, 2)
      BY DEF Bytes, Octets
    <3>2. Bytes(Zeros(21), 21)
      BY ZerosAreBytes
    <3> QED
      BY <3>1, <3>2
  <2>3. Bytes(a, 4) /\ Sits(a, 0, <<2, 18>>, 2)
    BY <2>2, Concat
  <2> HIDE DEF a
  <2>4. Bytes(b, 25) /\ Sits(b, 0, a, 4)
    BY <2>2, <2>3, Concat
  <2> HIDE DEF b
  <2>5. b[1] = 2
    BY <2>3, <2>4 DEF Sits
  <2> QED
    BY <2>1, <2>4, <2>5
<1>2. Bytes(Located(1, 2), 25)
  <2> DEFINE a == <<16, 0, 90, 40, 255>>
             b == Cat(a, Int32Bytes(1))
             c == Cat(b, Int32Bytes(2))
             d == Cat(c, Zeros(12))
  <2>1. d = Located(1, 2)
    BY DEF Located, Cat
  <2>2. Bytes(a, 5) /\ Bytes(Zeros(12), 12)
    <3>1. Bytes(a, 5)
      BY DEF Bytes, Octets
    <3>2. Bytes(Zeros(12), 12)
      BY ZerosAreBytes
    <3> QED
      BY <3>1, <3>2
  <2>3. Bytes(Int32Bytes(1), 4) /\ Bytes(Int32Bytes(2), 4)
    <3>1. IsInt32(1) /\ IsInt32(2)
      BY SMT DEF IsInt32
    <3> QED
      BY <3>1, Int32Back
  <2> HIDE DEF a
  <2>4. Bytes(b, 9)
    BY <2>2, <2>3, Concat
  <2> HIDE DEF b
  <2>5. Bytes(c, 13)
    BY <2>3, <2>4, Concat
  <2> HIDE DEF c
  <2>6. Bytes(d, 25)
    BY <2>2, <2>5, Concat
  <2> QED
    BY <2>1, <2>6
<1> QED
  BY <1>1, <1>2

\* Two strings in a row.
LEMMA FlattenTwo ==
  ASSUME NEW m \in Nat, NEW n \in Nat, NEW s, NEW t, Bytes(s, m), Bytes(t, n)
  PROVE  FlattenSeq(<<s, t>>) = Cat(s, t)
<1> DEFINE both == <<s, t>>
<1>1. s \in Seq(Octets) /\ t \in Seq(Octets)
  BY DEF Bytes
<1>2. both \in Seq(Seq(Octets)) /\ Len(both) = 2 /\ both[1] = s /\ both[2] = t
  BY <1>1
<1> HIDE DEF both
<1>3. Strings(both, 2)
  BY <1>2 DEF Strings
<1>4. Flat(both, 1) = s /\ Flat(both, 2) = FlattenSeq(both)
  BY <1>2, <1>3, FlatSteps
<1>5. Flat(both, 2) = Cat(Flat(both, 2 - 1), both[2])
  <2>1. 2 \in 1..2
    OBVIOUS
  <2> QED
    BY <1>3, <2>1, FlatCat
<1> QED
  BY <1>2, <1>4, <1>5 DEF both

LEMMA AnyPackIs == Bytes(AnyPack, 53) /\ AnyPack[1] = 240 /\ AnyPack[2] = 25 /\ AnyPack[3] = 2
<1> DEFINE head == <<240, 25, 2>>
           a == Located(1, 2)
           tail == Cat(a, BasicId)
           all == Cat(head, tail)
<1>1. Bytes(a, 25) /\ Bytes(BasicId, 25)
  BY MessageBytes
<1>2. AnyPack = all
  <2>1. FlattenSeq(<<a, BasicId>>) = tail
    BY <1>1, FlattenTwo
  <2>2. Len(<<a, BasicId>>) = 2
    OBVIOUS
  <2>3. PackOf(<<a, BasicId>>) = Cat(head, FlattenSeq(<<a, BasicId>>))
    BY <2>2 DEF PackOf, Cat
  <2> QED
    BY <2>1, <2>3 DEF AnyPack
<1> HIDE DEF a
<1>3. Bytes(tail, 50)
  BY <1>1, Concat
<1> HIDE DEF tail
<1>4. Bytes(head, 3) /\ head[1] = 240 /\ head[2] = 25 /\ head[3] = 2
  BY DEF Bytes, Octets
<1> HIDE DEF head
<1>5. Bytes(all, 53) /\ Sits(all, 0, head, 3)
  BY <1>3, <1>4, Concat
<1> HIDE DEF all
<1> QED
  BY <1>2, <1>4, <1>5 DEF Sits

\* A vendor element's value: its maker, its kind, a counter and what it carries.
Vendor(oui, t, p) == Cat(Cat(oui, <<t, 7>>), p)

LEMMA VendorShape ==
  ASSUME NEW oui, NEW t \in Octets, NEW p, NEW m \in Nat, Bytes(oui, 3), Bytes(p, m)
  PROVE  /\ Bytes(Vendor(oui, t, p), 5 + m) /\ Slice(Vendor(oui, t, p), 0, 3) = oui
         /\ Byte(Vendor(oui, t, p), 3) = t /\ Rest(Vendor(oui, t, p), 5) = p
<1> DEFINE a == Cat(oui, <<t, 7>>)
           v == Cat(a, p)
<1>1. Bytes(<<t, 7>>, 2) /\ <<t, 7>>[1] = t
  BY DEF Bytes, Octets
<1>2. Bytes(a, 5) /\ Sits(a, 0, oui, 3) /\ Sits(a, 3, <<t, 7>>, 2)
  BY <1>1, Concat
<1>3. v = Vendor(oui, t, p)
  BY DEF Vendor
<1> HIDE DEF a
<1>4. Bytes(v, 5 + m) /\ Sits(v, 0, a, 5) /\ Sits(v, 5, p, m)
  BY <1>2, Concat
<1> HIDE DEF v
<1>5. Sits(v, 0 + 0, oui, 3) /\ Sits(v, 0 + 3, <<t, 7>>, 2)
  BY <1>2, <1>4, SitsDeeper
<1>6. Slice(v, 0, 0 + 3) = oui /\ Rest(v, 5) = p
  BY <1>4, <1>5, PartIs
<1>7. v[0 + 3 + 1] = <<t, 7>>[1]
  BY <1>5 DEF Sits
<1>8. Byte(v, 3) = t
  BY <1>1, <1>7 DEF Byte
<1> QED
  BY <1>3, <1>4, <1>6, <1>8

\* What a decoder makes of a value: the bytes behind its header, or nothing.
Shaped(v, n, oui, t) == n \in Octets /\ Bytes(v, n) /\ Slice(v, 0, 3) = oui /\ Byte(v, 3) = t

LEMMA ShapedLength ==
  ASSUME NEW v, NEW n, NEW oui, NEW t, Shaped(v, n, oui, t)
  PROVE  v \in Seq(Octets) /\ Len(v) = n /\ Len(v) \in Octets
BY DEF Shaped, Bytes

LEMMA ShapedCarries ==
  ASSUME NEW v, NEW n \in Nat, NEW oui, NEW t, Shaped(v, n, oui, t)
  PROVE  /\ CarriesRid(v) <=> /\ n >= 6
                              /\ \/ oui = AstmOui /\ t = 13
                                 \/ oui = ParrotOui /\ IsMessagePack(Rest(v, 5))
         /\ CarriesFrdid(v) <=> n > 4 /\ oui = FrdidOui /\ t = 1
<1>1. Len(v) = n
  BY ShapedLength
<1>2. Slice(v, 0, 3) = oui /\ Byte(v, 3) = t
  BY DEF Shaped
<1>3. CarriesRid(v) <=> /\ n >= 6
                        /\ \/ oui = AstmOui /\ t = 13
                           \/ oui = ParrotOui /\ IsMessagePack(Rest(v, 5))
  BY <1>1, <1>2 DEF CarriesRid
<1>4. CarriesFrdid(v) <=> n > 4 /\ oui = FrdidOui /\ t = 1
  BY <1>1, <1>2 DEF CarriesFrdid
<1> QED
  BY <1>3, <1>4

LEMMA MakersDiffer ==
    /\ Bytes(AstmOui, 3) /\ Bytes(ParrotOui, 3) /\ Bytes(FrdidOui, 3)
    /\ AstmOui # ParrotOui /\ AstmOui # FrdidOui /\ ParrotOui # FrdidOui
<1>1. AstmOui[1] = 250 /\ ParrotOui[1] = 144 /\ FrdidOui[1] = 106
  BY DEF AstmOui, ParrotOui, FrdidOui
<1>2. AstmOui # ParrotOui /\ AstmOui # FrdidOui /\ ParrotOui # FrdidOui
  BY <1>1
<1>3. Bytes(AstmOui, 3) /\ Bytes(ParrotOui, 3) /\ Bytes(FrdidOui, 3)
  BY DEF Bytes, Octets, AstmOui, ParrotOui, FrdidOui
<1> QED
  BY <1>2, <1>3

\* The vendor elements a test sends, as the decoder meets them.
LEMMA InfosShaped ==
    /\ Shaped(Info("astm"), 30, AstmOui, 13) /\ Rest(Info("astm"), 5) = BasicId
    /\ Shaped(Info("astm_short"), 5, AstmOui, 13)
    /\ Shaped(Info("astm_other"), 30, AstmOui, 14)
    /\ Shaped(Info("parrot"), 58, ParrotOui, 1) /\ Rest(Info("parrot"), 5) = AnyPack
    /\ Shaped(Info("parrot_single"), 30, ParrotOui, 1) /\ Rest(Info("parrot_single"), 5) = BasicId
    /\ Shaped(Info("french"), 7, FrdidOui, 1)
<1>1. Bytes(AstmOui, 3) /\ Bytes(ParrotOui, 3) /\ Bytes(FrdidOui, 3)
  BY MakersDiffer
<1>2. Bytes(BasicId, 25) /\ Bytes(AnyPack, 53)
  BY MessageBytes, AnyPackIs
<1>3. /\ 13 \in Octets /\ 14 \in Octets /\ 1 \in Octets /\ 30 \in Octets /\ 58 \in Octets
      /\ 5 \in Octets /\ 7 \in Octets
  BY DEF Octets
<1>4. Shaped(Info("astm"), 30, AstmOui, 13) /\ Rest(Info("astm"), 5) = BasicId
  <2> DEFINE v == Vendor(AstmOui, 13, BasicId)
  <2>1. Info("astm") = v
    BY DEF Info, Vendor, Cat
  <2>2. /\ Bytes(v, 5 + 25) /\ Slice(v, 0, 3) = AstmOui /\ Byte(v, 3) = 13 /\ Rest(v, 5) = BasicId
    BY <1>1, <1>2, <1>3, VendorShape
  <2> HIDE DEF v
  <2>3. Bytes(v, 30)
    BY <2>2
  <2> QED
    BY <1>3, <2>1, <2>2, <2>3 DEF Shaped
<1>5. Shaped(Info("astm_short"), 5, AstmOui, 13)
  <2> DEFINE h == <<13, 7>>
             v == Cat(AstmOui, h)
  <2>1. Info("astm_short") = v
    BY DEF Info, Cat
  <2>2. Bytes(h, 2) /\ h[1] = 13
    BY <1>3 DEF Bytes, Octets
  <2> HIDE DEF h
  <2>3. Bytes(v, 3 + 2) /\ Sits(v, 0, AstmOui, 3) /\ Sits(v, 3, h, 2)
    BY <1>1, <2>2, Concat
  <2> HIDE DEF v
  <2>4. Bytes(v, 5)
    BY <2>3
  <2>5. Slice(v, 0, 0 + 3) = AstmOui
    BY <1>1, <2>3, <2>4, PartIs
  <2>6. Byte(v, 3) = 13
    BY <2>2, <2>3 DEF Sits, Byte
  <2> QED
    BY <1>3, <2>1, <2>4, <2>5, <2>6 DEF Shaped
<1>6. Shaped(Info("astm_other"), 30, AstmOui, 14)
  <2> DEFINE v == Vendor(AstmOui, 14, BasicId)
  <2>1. Info("astm_other") = v
    BY DEF Info, Vendor, Cat
  <2>2. /\ Bytes(v, 5 + 25) /\ Slice(v, 0, 3) = AstmOui /\ Byte(v, 3) = 14
    BY <1>1, <1>2, <1>3, VendorShape
  <2> HIDE DEF v
  <2>3. Bytes(v, 30)
    BY <2>2
  <2> QED
    BY <1>3, <2>1, <2>2, <2>3 DEF Shaped
<1>7. Shaped(Info("parrot"), 58, ParrotOui, 1) /\ Rest(Info("parrot"), 5) = AnyPack
  <2> DEFINE v == Vendor(ParrotOui, 1, AnyPack)
  <2>1. Info("parrot") = v
    BY DEF Info, Vendor, Cat
  <2>2. /\ Bytes(v, 5 + 53) /\ Slice(v, 0, 3) = ParrotOui /\ Byte(v, 3) = 1 /\ Rest(v, 5) = AnyPack
    BY <1>1, <1>2, <1>3, VendorShape
  <2> HIDE DEF v
  <2>3. Bytes(v, 58)
    BY <2>2
  <2> QED
    BY <1>3, <2>1, <2>2, <2>3 DEF Shaped
<1>8. Shaped(Info("parrot_single"), 30, ParrotOui, 1) /\ Rest(Info("parrot_single"), 5) = BasicId
  <2> DEFINE v == Vendor(ParrotOui, 1, BasicId)
  <2>1. Info("parrot_single") = v
    BY DEF Info, Vendor, Cat
  <2>2. /\ Bytes(v, 5 + 25) /\ Slice(v, 0, 3) = ParrotOui /\ Byte(v, 3) = 1 /\ Rest(v, 5) = BasicId
    BY <1>1, <1>2, <1>3, VendorShape
  <2> HIDE DEF v
  <2>3. Bytes(v, 30)
    BY <2>2
  <2> QED
    BY <1>3, <2>1, <2>2, <2>3 DEF Shaped
<1>9. Shaped(Info("french"), 7, FrdidOui, 1)
  <2> DEFINE h == <<1, 3, 1, 65>>
             v == Cat(FrdidOui, h)
  <2>1. Info("french") = v
    BY DEF Info, Cat
  <2>2. Bytes(h, 4) /\ h[1] = 1
    BY DEF Bytes, Octets
  <2> HIDE DEF h
  <2>3. Bytes(v, 3 + 4) /\ Sits(v, 0, FrdidOui, 3) /\ Sits(v, 3, h, 4)
    BY <1>1, <2>2, Concat
  <2> HIDE DEF v
  <2>4. Bytes(v, 7)
    BY <2>3
  <2>5. Slice(v, 0, 0 + 3) = FrdidOui
    BY <1>1, <2>3, <2>4, PartIs
  <2>6. Byte(v, 3) = 1
    BY <2>2, <2>3 DEF Sits, Byte
  <2> QED
    BY <1>3, <2>1, <2>4, <2>5, <2>6 DEF Shaped
<1> QED
  BY <1>4, <1>5, <1>6, <1>7, <1>8, <1>9

LEMMA PacksTold == ~IsMessagePack(BasicId) /\ IsMessagePack(AnyPack)
<1>1. BasicId[1] = 2 /\ Len(AnyPack) = 53 /\ AnyPack[1] = 240 /\ AnyPack[2] = 25 /\ AnyPack[3] = 2
  BY MessageBytes, AnyPackIs DEF Bytes
<1>2. /\ Byte(BasicId, 0) = 2 /\ Byte(AnyPack, 0) = 240 /\ Byte(AnyPack, 1) = 25
      /\ Byte(AnyPack, 2) = 2
  BY <1>1 DEF Byte
<1>3. 2 \div 16 # 15 /\ 240 \div 16 = 15
  OBVIOUS
<1> QED
  BY <1>1, <1>2, <1>3 DEF IsMessagePack

\* What the elements carry, by what the decoder looks at.
LEMMA InfosRead ==
  ASSUME NEW e \in Elements
  PROVE  /\ Info(e) \in Seq(Octets) /\ Len(Info(e)) \in Octets
         /\ (e # "ssid" /\ CarriesRid(Info(e))) <=> e \in {"astm", "parrot"}
         /\ (e # "ssid" /\ CarriesFrdid(Info(e))) <=> e \in {"french"}
<1>1. AstmOui # ParrotOui /\ AstmOui # FrdidOui /\ ParrotOui # FrdidOui
  BY MakersDiffer
<1>2. CASE e = "ssid"
  <2>1. Info(e) = <<82, 73, 68>>
    BY <1>2 DEF Info
  <2>2. Info(e) \in Seq(Octets) /\ Len(Info(e)) \in Octets
    BY <2>1 DEF Octets
  <2>3. e \notin {"astm", "parrot"} /\ e \notin {"french"}
    BY <1>2
  <2> QED
    BY <1>2, <2>2, <2>3
<1>3. CASE e = "astm"
  <2>1. Shaped(Info(e), 30, AstmOui, 13)
    BY <1>3, InfosShaped
  <2>2. Info(e) \in Seq(Octets) /\ Len(Info(e)) \in Octets
    BY <2>1, ShapedLength
  <2>3. CarriesRid(Info(e)) /\ ~CarriesFrdid(Info(e))
    BY <1>1, <2>1, ShapedCarries
  <2>4. e # "ssid" /\ e \in {"astm", "parrot"} /\ e \notin {"french"}
    BY <1>3
  <2> QED
    BY <2>2, <2>3, <2>4
<1>4. CASE e = "astm_short"
  <2>1. Shaped(Info(e), 5, AstmOui, 13)
    BY <1>4, InfosShaped
  <2>2. Info(e) \in Seq(Octets) /\ Len(Info(e)) \in Octets
    BY <2>1, ShapedLength
  <2>3. ~CarriesRid(Info(e)) /\ ~CarriesFrdid(Info(e))
    BY <1>1, <2>1, ShapedCarries
  <2>4. e \notin {"astm", "parrot"} /\ e \notin {"french"}
    BY <1>4
  <2> QED
    BY <2>2, <2>3, <2>4
<1>5. CASE e = "astm_other"
  <2>1. Shaped(Info(e), 30, AstmOui, 14)
    BY <1>5, InfosShaped
  <2>2. Info(e) \in Seq(Octets) /\ Len(Info(e)) \in Octets
    BY <2>1, ShapedLength
  <2>3. ~CarriesRid(Info(e)) /\ ~CarriesFrdid(Info(e))
    BY <1>1, <2>1, ShapedCarries
  <2>4. e \notin {"astm", "parrot"} /\ e \notin {"french"}
    BY <1>5
  <2> QED
    BY <2>2, <2>3, <2>4
<1>6. CASE e = "parrot"
  <2>1. Shaped(Info(e), 58, ParrotOui, 1) /\ Rest(Info(e), 5) = AnyPack
    BY <1>6, InfosShaped
  <2>2. Info(e) \in Seq(Octets) /\ Len(Info(e)) \in Octets
    BY <2>1, ShapedLength
  <2>3. CarriesRid(Info(e)) /\ ~CarriesFrdid(Info(e))
    BY <1>1, <2>1, ShapedCarries, PacksTold
  <2>4. e # "ssid" /\ e \in {"astm", "parrot"} /\ e \notin {"french"}
    BY <1>6
  <2> QED
    BY <2>2, <2>3, <2>4
<1>7. CASE e = "parrot_single"
  <2>1. Shaped(Info(e), 30, ParrotOui, 1) /\ Rest(Info(e), 5) = BasicId
    BY <1>7, InfosShaped
  <2>2. Info(e) \in Seq(Octets) /\ Len(Info(e)) \in Octets
    BY <2>1, ShapedLength
  <2>3. ~CarriesRid(Info(e)) /\ ~CarriesFrdid(Info(e))
    BY <1>1, <2>1, ShapedCarries, PacksTold
  <2>4. e \notin {"astm", "parrot"} /\ e \notin {"french"}
    BY <1>7
  <2> QED
    BY <2>2, <2>3, <2>4
<1>8. CASE e = "french"
  <2>1. Shaped(Info(e), 7, FrdidOui, 1)
    BY <1>8, InfosShaped
  <2>2. Info(e) \in Seq(Octets) /\ Len(Info(e)) \in Octets
    BY <2>1, ShapedLength
  <2>3. ~CarriesRid(Info(e)) /\ CarriesFrdid(Info(e))
    BY <1>1, <2>1, ShapedCarries
  <2>4. e # "ssid" /\ e \notin {"astm", "parrot"} /\ e \in {"french"}
    BY <1>8
  <2> QED
    BY <2>2, <2>3, <2>4
<1> QED
  BY <1>2, <1>3, <1>4, <1>5, <1>6, <1>7, <1>8 DEF Elements

\* The elements of a beacon as they are sent, and what they carry.
Sending(elements, k) == [i \in 1..k |-> Element(elements[i])]
Carrying(elements, k) == [i \in 1..k |-> Info(elements[i])]

LEMMA ElementsSent ==
  ASSUME NEW k \in Nat, NEW elements \in [1..k -> Elements]
  PROVE  /\ Elemental(Sending(elements, k), Carrying(elements, k), k)
         /\ \A i \in 1..k : /\ Carrying(elements, k)[i] = Info(elements[i])
                            /\ Sending(elements, k)[i][1] = 221 <=> elements[i] # "ssid"
<1> DEFINE s == Sending(elements, k)
           value == Carrying(elements, k)
           tag(e) == IF e = "ssid" THEN 0 ELSE 221
<1>1. /\ DOMAIN s = 1..k /\ \A i \in 1..k : s[i] = Element(elements[i])
      /\ \A i \in 1..k : value[i] = Info(elements[i])
  BY DEF Sending, Carrying
<1> HIDE DEF s, value
<1>2. ASSUME NEW e \in Elements
      PROVE  /\ Info(e) \in Seq(Octets) /\ Len(Info(e)) \in Octets
             /\ Element(e) = Cat(<<tag(e), Len(Info(e))>>, Info(e))
             /\ tag(e) \in Octets /\ Element(e) \in Seq(Octets) /\ Element(e)[1] = tag(e)
  <2>1. Info(e) \in Seq(Octets) /\ Len(Info(e)) \in Octets
    BY InfosRead
  <2>2. tag(e) \in Octets
    BY DEF Octets
  <2>3. Element(e) = Cat(<<tag(e), Len(Info(e))>>, Info(e))
    BY DEF Element, Cat
  <2> DEFINE h == <<tag(e), Len(Info(e))>>
             m == Len(Info(e))
  <2>4. Bytes(h, 2) /\ h[1] = tag(e)
    BY <2>1, <2>2 DEF Bytes
  <2>5. m \in Nat /\ Bytes(Info(e), m)
    BY <2>1 DEF Octets, Bytes
  <2> HIDE DEF h, m
  <2>6. Bytes(Cat(h, Info(e)), 2 + m) /\ Sits(Cat(h, Info(e)), 0, h, 2)
    BY <2>4, <2>5, Concat
  <2>7. Cat(h, Info(e))[0 + 1] = h[1]
    BY <2>6 DEF Sits
  <2>8. Cat(h, Info(e)) \in Seq(Octets)
    BY <2>6 DEF Bytes
  <2>9. Element(e) = Cat(h, Info(e))
    BY <2>3 DEF h
  <2> HIDE DEF tag
  <2> QED
    BY <2>1, <2>2, <2>3, <2>4, <2>7, <2>8, <2>9
<1> HIDE DEF tag
<1>3. \A i \in 1..k : elements[i] \in Elements
  OBVIOUS
<1>4. Strings(s, k)
  <2>1. \A i \in 1..k : Element(elements[i]) \in Seq(Octets)
    BY <1>2, <1>3
  <2>2. s \in Seq(Seq(Octets)) /\ Len(s) = k
    BY <2>1 DEF Sending, s
  <2> QED
    BY <2>2 DEF Strings
<1>5. ASSUME NEW i \in 1..k
      PROVE  /\ value[i] \in Seq(Octets) /\ Len(value[i]) \in Octets
             /\ s[i] = Cat(<<s[i][1], Len(value[i])>>, value[i]) /\ s[i][1] \in Octets
             /\ s[i][1] = 221 <=> elements[i] # "ssid"
  <2>1. elements[i] \in Elements /\ s[i] = Element(elements[i]) /\ value[i] = Info(elements[i])
    BY <1>1, <1>3
  <2>2. s[i][1] = tag(elements[i])
    BY <1>2, <2>1
  <2>3. tag(elements[i]) = 221 <=> elements[i] # "ssid"
    BY DEF tag
  <2> QED
    BY <1>2, <2>1, <2>2, <2>3
<1>6. Elemental(s, value, k)
  BY <1>4, <1>5 DEF Elemental
<1>7. \A i \in 1..k : value[i] = Info(elements[i]) /\ (s[i][1] = 221 <=> elements[i] # "ssid")
  BY <1>1, <1>5
<1> QED
  BY <1>6, <1>7 DEF s, value

\* What is said of a beacon as a whole holds of its first elements.
LEMMA ChainIs ==
  ASSUME NEW k \in Nat, NEW elements \in [1..k -> Elements]
  PROVE  /\ Chain(elements) = Cat(Zeros(12), FlattenSeq(Sending(elements, k)))
         /\ \A i \in 1..k : Len(Chain(SubSeq(elements, 1, i))) = 12 + At(Sending(elements, k), i)
<1> DEFINE s == Sending(elements, k)
<1>1. Chain(elements) = Cat(Zeros(12), FlattenSeq(s))
  BY DEF Chain, Joined, Cat, Sending
<1>2. ASSUME NEW i \in 1..k
      PROVE  Len(Chain(SubSeq(elements, 1, i))) = 12 + At(s, i)
  <2> DEFINE first == SubSeq(elements, 1, i)
  <2>1. first = [j \in 1..i |-> elements[j]]
    BY DEF first
  <2>2. Leading(s, i) = [j \in 1..i |-> Element(elements[j])]
    BY DEF Leading, Sending
  <2> HIDE DEF first
  <2>3. [j \in DOMAIN first |-> Element(first[j])] = [j \in 1..i |-> Element(elements[j])]
    BY <2>1
  <2>4. Chain(first) = Zeros(12) \o FlattenSeq([j \in DOMAIN first |-> Element(first[j])])
    BY DEF Chain, Joined
  <2>5. Chain(first) = Cat(Zeros(12), Flat(s, i))
    BY <2>2, <2>3, <2>4 DEF Flat, Cat
  <2> HIDE DEF s
  <2>6. Strings(s, k) /\ i \in 0..k
    BY ElementsSent DEF Elemental, s
  <2>7. Bytes(Flat(s, i), At(s, i)) /\ At(s, i) \in Nat
    BY <2>6, FlatBytes
  <2>8. Bytes(Zeros(12), 12)
    BY ZerosAreBytes
  <2>9. Bytes(Cat(Zeros(12), Flat(s, i)), 12 + At(s, i))
    BY <2>7, <2>8, Concat
  <2> QED
    BY <2>5, <2>9 DEF Bytes, first
<1> QED
  BY <1>1, <1>2

\* The elements of these kinds that end by n.
Counted(elements, k, n, kinds) ==
    {i \in 1..k : 12 + At(Sending(elements, k), i) <= n /\ elements[i] \in kinds}

LEMMA CountedAre ==
  ASSUME NEW k \in Nat, NEW elements \in [1..k -> Elements], NEW n \in Nat, NEW kinds
  PROVE  {i \in Whole(elements, n) : elements[i] \in kinds} = Counted(elements, k, n, kinds)
<1>1. DOMAIN elements = 1..k
  OBVIOUS
<1>2. Whole(elements, n) = {i \in 1..k : 12 + At(Sending(elements, k), i) <= n}
  BY <1>1, ChainIs DEF Whole
<1> QED
  BY <1>2 DEF Counted

\* A beacon, wherever it was cut, is a row of whole elements and perhaps a part of one.
LEMMA BeaconInRow ==
  ASSUME NEW k \in Nat, NEW elements \in [1..k -> Elements], NEW n \in 0..Len(Chain(elements))
  PROVE  n \in Nat /\ InRow(Cut(Chain(elements), n), n, 12, Sending(elements, k), k)
<1> DEFINE s == Sending(elements, k)
           head == Zeros(12)
           all == Cat(head, FlattenSeq(s))
<1>1. Strings(s, k)
  BY ElementsSent DEF Elemental
<1>2. Bytes(head, 12)
  BY ZerosAreBytes
<1>3. Chain(elements) = all
  BY ChainIs
<1> HIDE DEF s, head
<1>4. /\ Len(all) = 12 + At(s, k)
      /\ \A j \in 0..Len(all) : InRow(Cut(all, j), j, 12, s, k)
  BY <1>1, <1>2, CutInRow
<1>5. n \in 0..Len(all)
  BY <1>3
<1>6. n \in Nat
  BY <1>5
<1> HIDE DEF all
<1> QED
  BY <1>3, <1>4, <1>5, <1>6 DEF s

\* The vendor elements the walker finds, each with what it was given.
LEMMA VendorsFound ==
  ASSUME NEW k \in Nat, NEW elements \in [1..k -> Elements], NEW n \in 0..Len(Chain(elements))
  PROVE  LET b == Cut(Chain(elements), n)
             s == Sending(elements, k)
             whole == {i \in 1..k : 12 + At(s, i) <= n}
         IN /\ VendorElements(b) = {12 + At(s, i - 1) : i \in {i \in whole : elements[i] # "ssid"}}
            /\ \A i \in whole : Value(b, 12 + At(s, i - 1)) = Info(elements[i])
<1> DEFINE b == Cut(Chain(elements), n)
           s == Sending(elements, k)
           value == Carrying(elements, k)
           whole == {i \in 1..k : 12 + At(s, i) <= n}
<1>1. n \in Nat /\ InRow(b, n, 12, s, k)
  BY BeaconInRow
<1>2. /\ Elemental(s, value, k)
      /\ \A i \in 1..k : value[i] = Info(elements[i]) /\ (s[i][1] = 221 <=> elements[i] # "ssid")
  BY ElementsSent
<1> HIDE DEF b, s, value
<1>3. Items(ElementEnds(b), 12) = {12 + At(s, i - 1) : i \in whole}
  BY <1>1, <1>2, ElementsKept
<1>4. ASSUME NEW i \in whole
      PROVE  /\ Byte(b, 12 + At(s, i - 1)) = 221 <=> elements[i] # "ssid"
             /\ Value(b, 12 + At(s, i - 1)) = Info(elements[i])
  <2>1. i \in 1..k /\ 12 + At(s, i) <= n
    OBVIOUS
  <2>2. /\ Byte(b, 12 + At(s, i - 1)) = s[i][1]
        /\ Value(b, 12 + At(s, i - 1)) = value[i]
    BY <1>1, <1>2, <2>1, ElementRead
  <2> QED
    BY <1>2, <2>1, <2>2
<1> HIDE DEF whole
<1>5. VendorElements(b) = {12 + At(s, i - 1) : i \in {i \in whole : elements[i] # "ssid"}}
  BY <1>3, <1>4 DEF VendorElements
<1> QED
  BY <1>4, <1>5 DEF b, s, whole

\* The first element found is the first of the elements sent.
LEMMA FirstFound ==
  ASSUME NEW k \in Nat, NEW elements \in [1..k -> Elements], NEW n \in 0..Len(Chain(elements)),
         NEW kinds, NEW header, NEW those,
         those = Starts(12, Sending(elements, k), Counted(elements, k, n, kinds))
  PROVE  FirstWhole(elements, n, kinds, header) =
            IF those = {} THEN None ELSE Rest(Value(Cut(Chain(elements), n), Min(those)), header)
<1> DEFINE b == Cut(Chain(elements), n)
           s == Sending(elements, k)
           J == Counted(elements, k, n, kinds)
<1>1. Strings(s, k)
  BY ElementsSent DEF Elemental
<1>2. J \in SUBSET (1..k) /\ \A i \in J : 12 + At(s, i) <= n
  BY DEF Counted
<1>3. \A i \in 1..k : 12 + At(s, i) <= n => Value(b, 12 + At(s, i - 1)) = Info(elements[i])
  BY VendorsFound
<1>4. FirstWhole(elements, n, kinds, header) =
         IF J = {} THEN None ELSE Rest(Info(elements[Min(J)]), header)
  <2>1. {i \in Whole(elements, n) : elements[i] \in kinds} = J
    BY <1>2, BeaconInRow, CountedAre
  <2> HIDE DEF J
  <2> QED
    BY <2>1 DEF FirstWhole
<1>5. those = Starts(12, s, J)
  OBVIOUS
<1> HIDE DEF b, s, J
<1>6. /\ those = {} <=> J = {}
      /\ J # {} => Min(those) = 12 + At(s, Min(J) - 1) /\ Min(J) \in J
  <2>1. 12 \in Nat
    OBVIOUS
  <2> QED
    BY <1>1, <1>2, <1>5, <2>1, FirstItem
<1>7. CASE J = {}
  BY <1>4, <1>6, <1>7
<1>8. CASE J # {}
  <2>1. Min(J) \in 1..k /\ 12 + At(s, Min(J)) <= n
    BY <1>2, <1>6, <1>8
  <2>2. Value(b, 12 + At(s, Min(J) - 1)) = Info(elements[Min(J)])
    BY <1>3, <2>1
  <2> QED
    BY <1>4, <1>6, <1>8, <2>2 DEF b
<1> QED
  BY <1>7, <1>8

LEMMA BeaconBack ==
  ASSUME NEW k \in Nat, NEW elements \in [1..k -> Elements], NEW n \in 0..Len(Chain(elements))
  PROVE  /\ ExtractBeaconRid(Cut(Chain(elements), n)) = FirstWhole(elements, n, {"astm", "parrot"}, 5)
         /\ ExtractBeaconFrdid(Cut(Chain(elements), n)) = FirstWhole(elements, n, {"french"}, 4)
<1> DEFINE b == Cut(Chain(elements), n)
           s == Sending(elements, k)
           whole == {i \in 1..k : 12 + At(s, i) <= n}
           carriers == {o \in VendorElements(b) : CarriesRid(Value(b, o))}
           french == {o \in VendorElements(b) : CarriesFrdid(Value(b, o))}
<1>1. /\ VendorElements(b) = {12 + At(s, i - 1) : i \in {i \in whole : elements[i] # "ssid"}}
      /\ \A i \in whole : Value(b, 12 + At(s, i - 1)) = Info(elements[i])
  BY VendorsFound
<1>2. \A i \in whole : i \in 1..k /\ elements[i] \in Elements
  OBVIOUS
<1>3. \A kinds : Counted(elements, k, n, kinds) = {i \in whole : elements[i] \in kinds}
  BY DEF Counted
<1> HIDE DEF b, s, whole
<1>4. carriers = {12 + At(s, i - 1) : i \in {i \in whole : elements[i] \in {"astm", "parrot"}}}
  <2>1. \A i \in whole : (elements[i] # "ssid" /\ CarriesRid(Info(elements[i])))
                            <=> elements[i] \in {"astm", "parrot"}
    BY <1>2, InfosRead
  <2> DEFINE kinds == {"astm", "parrot"}
  <2> HIDE DEF kinds
  <2> QED
    BY <1>1, <2>1 DEF kinds
<1>5. french = {12 + At(s, i - 1) : i \in {i \in whole : elements[i] \in {"french"}}}
  <2>1. \A i \in whole : (elements[i] # "ssid" /\ CarriesFrdid(Info(elements[i])))
                            <=> elements[i] \in {"french"}
    BY <1>2, InfosRead
  <2> QED
    BY <1>1, <2>1
<1>6. ExtractBeaconRid(b) = FirstWhole(elements, n, {"astm", "parrot"}, 5)
  <2>1. carriers = Starts(12, s, Counted(elements, k, n, {"astm", "parrot"}))
    BY <1>3, <1>4 DEF Starts
  <2> HIDE DEF carriers
  <2>2. FirstWhole(elements, n, {"astm", "parrot"}, 5) =
          IF carriers = {} THEN None ELSE Rest(Value(b, Min(carriers)), 5)
    BY <2>1, FirstFound DEF b, s
  <2> QED
    BY <2>2 DEF ExtractBeaconRid, carriers
<1>7. ExtractBeaconFrdid(b) = FirstWhole(elements, n, {"french"}, 4)
  <2>1. french = Starts(12, s, Counted(elements, k, n, {"french"}))
    BY <1>3, <1>5 DEF Starts
  <2> HIDE DEF french
  <2>2. FirstWhole(elements, n, {"french"}, 4) =
          IF french = {} THEN None ELSE Rest(Value(b, Min(french)), 4)
    BY <2>1, FirstFound DEF b, s
  <2> QED
    BY <2>2 DEF ExtractBeaconFrdid, french
<1> QED
  BY <1>6, <1>7 DEF b

\* Whatever the elements and wherever the frame was cut, the payloads the decoder takes from a
\* beacon are those of the first whole element of their kind (wifi_feeder.py:410-469).
THEOREM BeaconsAreFound == Spec => []BeaconFound
<1>1. Init => BeaconFound
  BY DEF Init, BeaconFound
<1>2. ASSUME BeaconFound, [Next]_rx
      PROVE  BeaconFound'
  <2>1. CASE ReceiveBeacon
    <3>1. PICK elements \in UpTo(Elements, MaxElements) : \E n \in 0..Len(Chain(elements)) :
              rx' = [path |-> "beacon", input |-> [elements |-> elements, n |-> n],
                     output |-> [rid |-> ExtractBeaconRid(Cut(Chain(elements), n)),
                                 frdid |-> ExtractBeaconFrdid(Cut(Chain(elements), n))]]
      BY <2>1 DEF ReceiveBeacon, Expect
    <3>2. PICK n \in 0..Len(Chain(elements)) :
              rx' = [path |-> "beacon", input |-> [elements |-> elements, n |-> n],
                     output |-> [rid |-> ExtractBeaconRid(Cut(Chain(elements), n)),
                                 frdid |-> ExtractBeaconFrdid(Cut(Chain(elements), n))]]
      BY <3>1
    <3>3. PICK k \in 0..MaxElements : elements \in [1..k -> Elements]
      BY <3>1, BoundsOK DEF UpTo
    <3>4. k \in Nat
      BY <3>3, BoundsOK
    <3>5. /\ ExtractBeaconRid(Cut(Chain(elements), n)) = FirstWhole(elements, n, {"astm", "parrot"}, 5)
          /\ ExtractBeaconFrdid(Cut(Chain(elements), n)) = FirstWhole(elements, n, {"french"}, 4)
      BY <3>2, <3>3, <3>4, BeaconBack
    <3>6. /\ rx'.input.elements = elements /\ rx'.input.n = n
          /\ rx'.output.rid = ExtractBeaconRid(Cut(Chain(elements), n))
          /\ rx'.output.frdid = ExtractBeaconFrdid(Cut(Chain(elements), n))
      BY <3>2
    <3> QED
      BY <3>5, <3>6 DEF BeaconFound
  <2>2. CASE ReceiveFrench \/ ReceiveNan \/ ReceivePack \/ ReceiveLocation \/ ReceiveTap \/ ReceiveSent
    BY <2>2, Paths DEF BeaconFound
  <2>3. CASE UNCHANGED rx
    BY <1>2, <2>3 DEF BeaconFound
  <2> QED
    BY <1>2, <2>1, <2>2, <2>3 DEF Next
<1> QED
  BY <1>1, <1>2, PTL DEF Spec

-----------------------------------------------------------------------------
(* French payloads.                                                         *)

LEMMA MaxOf ==
  ASSUME NEW k \in Nat, NEW P \in SUBSET (0..k), P # {}
  PROVE  Max(P) \in P /\ \A x \in P : x <= Max(P)
<1> DEFINE Q == {k - x : x \in P}
<1>1. Q \in SUBSET Nat /\ Q # {}
  <2>1. \A x \in P : k - x \in Nat
    OBVIOUS
  <2>2. PICK x \in P : TRUE
    OBVIOUS
  <2> QED
    BY <2>1, <2>2
<1>2. PICK q \in Q : \A y \in Q : q <= y
  <2> HIDE DEF Q
  <2> QED
    BY <1>1, MinOf
<1>3. PICK m \in P : q = k - m
  BY <1>2
<1>4. \A x \in P : x <= m
  <2> SUFFICES ASSUME NEW x \in P PROVE x <= m
    OBVIOUS
  <2>1. q <= k - x
    BY <1>2
  <2> QED
    BY <1>3, <2>1
<1>5. \E x \in P : \A y \in P : x >= y
  <2>1. \A y \in P : y \in Int
    OBVIOUS
  <2> QED
    BY <1>4, <2>1
<1> QED
  BY <1>5 DEF Max

LEMMA MaxIs ==
  ASSUME NEW P \in SUBSET Int, NEW m \in P, \A x \in P : x <= m
  PROVE  Max(P) = m
<1>1. \E x \in P : \A y \in P : x >= y
  OBVIOUS
<1>2. Max(P) \in P /\ \A y \in P : Max(P) >= y
  BY <1>1 DEF Max
<1> DEFINE x == Max(P)
<1>3. x \in P /\ x >= m
  BY <1>2
<1> HIDE DEF x
<1>4. x \in Int /\ m \in Int /\ x <= m
  BY <1>3
<1>5. x = m
  BY <1>3, <1>4
<1> QED
  BY <1>5 DEF x

\* The last string of a set begins last.
LEMMA LastItem ==
  ASSUME NEW lead \in Nat, NEW k \in Nat, NEW s, Strings(s, k), NEW J \in SUBSET (1..k), J # {}
  PROVE  Max(Starts(lead, s, J)) = lead + At(s, Max(J) - 1) /\ Max(J) \in J
<1> DEFINE those == Starts(lead, s, J)
           m == Max(J)
<1>1. J \in SUBSET (0..k)
  OBVIOUS
<1>2. m \in J /\ \A i \in J : i <= m
  BY <1>1, MaxOf
<1> HIDE DEF m
<1>3. ASSUME NEW i \in J
      PROVE  lead + At(s, i - 1) \in Int /\ lead + At(s, i - 1) <= lead + At(s, m - 1)
  <2>1. /\ i \in 1..k /\ m \in 1..k /\ i - 1 \in 0..k /\ m - 1 \in 0..k /\ i <= m
        /\ i # m => m - 1 \in i..k /\ i \in 0..k
    BY <1>2
  <2>2. At(s, i - 1) \in Nat /\ At(s, m - 1) \in Nat
    BY <2>1, FlatBytes
  <2>3. i # m => At(s, i) = At(s, i - 1) + Len(s[i]) /\ Len(s[i]) \in Nat /\ At(s, i) <= At(s, m - 1)
    BY <2>1, FlatBytes, StringBytes, FlatLaidOut
  <2> QED
    BY <2>1, <2>2, <2>3
<1>4. those \in SUBSET Int /\ lead + At(s, m - 1) \in those /\ \A o \in those : o <= lead + At(s, m - 1)
  BY <1>2, <1>3 DEF Starts
<1> HIDE DEF those
<1>5. Max(those) = lead + At(s, m - 1)
  BY <1>4, MaxIs
<1> QED
  BY <1>2, <1>5 DEF m, those

LEMMA ReversedBack ==
  ASSUME NEW x, IsInt32(x)
  PROVE  /\ Bytes(Reversed(Int32Bytes(x)), 4)
         /\ Int32(Reversed(Reversed(Int32Bytes(x))), 0) = x
<1> DEFINE b == Int32Bytes(x)
<1>1. Bytes(b, 4)
  BY Int32Back
<1> HIDE DEF b
<1>2. b \in Seq(Octets) /\ Len(b) = 4
  BY <1>1 DEF Bytes
<1> DEFINE r == Reversed(b)
<1>3. r = [i \in 1..4 |-> b[5 - i]]
  <2>1. DOMAIN b = 1..4
    BY <1>2
  <2> QED
    BY <1>2, <2>1 DEF Reversed
<1>4. Bytes(r, 4)
  <2>1. \A i \in 1..4 : 5 - i \in 1..4 /\ b[5 - i] \in Octets
    BY <1>2
  <2>2. [i \in 1..4 |-> b[5 - i]] \in Seq(Octets) /\ Len([i \in 1..4 |-> b[5 - i]]) = 4
    BY <2>1
  <2> QED
    BY <1>3, <2>2 DEF Bytes
<1>5. \A i \in 1..4 : Reversed(r)[i] = b[i]
  <2>0. Len(r) = 4 /\ DOMAIN r = 1..4
    BY <1>3, <1>4 DEF Bytes
  <2> HIDE DEF r
  <2>1. Reversed(r) = [i \in 1..4 |-> r[5 - i]]
    BY <2>0 DEF Reversed
  <2> QED
    BY <1>3, <2>1
<1>6. Sits(Reversed(Reversed(b)), 0, b, 4)
  BY <1>5 DEF Sits
<1>7. 0 \in Nat
  OBVIOUS
<1> QED
  BY <1>4, <1>6, <1>7, Int32At DEF b

\* The coordinates the fields hold.
Pole == Reversed(Int32Bytes(-9000000))
Meridian == Reversed(Int32Bytes(18000000))
Beyond == Reversed(Int32Bytes(18000001))

LEMMA CoordinatesBack ==
    /\ Bytes(Pole, 4) /\ Int32(Reversed(Pole), 0) = -9000000
    /\ Bytes(Meridian, 4) /\ Int32(Reversed(Meridian), 0) = 18000000
    /\ Bytes(Beyond, 4) /\ Int32(Reversed(Beyond), 0) = 18000001
<1>1. IsInt32(-9000000) /\ IsInt32(18000000) /\ IsInt32(18000001)
  BY SMT DEF IsInt32
<1>2. Bytes(Pole, 4) /\ Int32(Reversed(Pole), 0) = -9000000
  BY <1>1, ReversedBack DEF Pole
<1>3. Bytes(Meridian, 4) /\ Int32(Reversed(Meridian), 0) = 18000000
  BY <1>1, ReversedBack DEF Meridian
<1>4. Bytes(Beyond, 4) /\ Int32(Reversed(Beyond), 0) = 18000001
  BY <1>1, ReversedBack DEF Beyond
<1> QED
  BY <1>2, <1>3, <1>4

\* The fields a test sends: what each type may hold.
Holds(t, v) ==
    CASE t = 1 -> v = <<1>>
      [] t = 2 -> v = <<65, 0, 66>>
      [] t = 3 -> v \in {<<83>>, <<>>}
      [] t = 4 -> v \in {Pole, <<0, 0>>}
      [] t = 5 -> v \in {Meridian, Beyond}
      [] OTHER -> FALSE

LEMMA FieldsHold ==
  ASSUME NEW f \in Fields
  PROVE  f[1] \in {1, 2, 3, 4, 5} /\ Holds(f[1], f[2])
<1>1. \/ f[1] = 1 /\ f[2] = <<1>>
      \/ f[1] = 2 /\ f[2] = <<65, 0, 66>>
      \/ f[1] = 3 /\ f[2] = <<83>>
      \/ f[1] = 3 /\ f[2] = <<>>
      \/ f[1] = 4 /\ f[2] = Pole
      \/ f[1] = 4 /\ f[2] = <<0, 0>>
      \/ f[1] = 5 /\ f[2] = Meridian
      \/ f[1] = 5 /\ f[2] = Beyond
  BY DEF Fields, Pole, Meridian, Beyond
<1>2. /\ Holds(1, <<1>>) /\ Holds(2, <<65, 0, 66>>) /\ Holds(3, <<83>>) /\ Holds(3, <<>>)
      /\ Holds(4, Pole) /\ Holds(4, <<0, 0>>) /\ Holds(5, Meridian) /\ Holds(5, Beyond)
  BY DEF Holds
<1>3. f[1] \in {1, 2, 3, 4, 5}
  BY <1>1
<1>4. Holds(f[1], f[2])
  BY <1>1, <1>2, Zenon
<1> QED
  BY <1>3, <1>4

LEMMA FieldShape ==
  ASSUME NEW f \in Fields
  PROVE  f[1] \in Octets /\ f[2] \in Seq(Octets) /\ Len(f[2]) \in Octets
<1>1. f[1] \in {1, 2, 3, 4, 5} /\ Holds(f[1], f[2])
  BY FieldsHold
<1>2. f[2] \in {<<1>>, <<65, 0, 66>>, <<83>>, <<>>, <<0, 0>>, Pole, Meridian, Beyond}
  BY <1>1 DEF Holds
<1>3. /\ <<1>> \in Seq(Octets) /\ Len(<<1>>) = 1
      /\ <<65, 0, 66>> \in Seq(Octets) /\ Len(<<65, 0, 66>>) = 3
      /\ <<83>> \in Seq(Octets) /\ Len(<<83>>) = 1
      /\ <<>> \in Seq(Octets) /\ Len(<<>>) = 0
      /\ <<0, 0>> \in Seq(Octets) /\ Len(<<0, 0>>) = 2
  <2>1. 1 \in Octets /\ 65 \in Octets /\ 0 \in Octets /\ 66 \in Octets /\ 83 \in Octets
    BY DEF Octets
  <2> QED
    BY <2>1
<1>4. /\ Pole \in Seq(Octets) /\ Len(Pole) = 4
      /\ Meridian \in Seq(Octets) /\ Len(Meridian) = 4
      /\ Beyond \in Seq(Octets) /\ Len(Beyond) = 4
  BY CoordinatesBack DEF Bytes
<1>5. f[1] \in Octets
  BY <1>1 DEF Octets
<1>6. 0 \in Octets /\ 1 \in Octets /\ 2 \in Octets /\ 3 \in Octets /\ 4 \in Octets
  BY DEF Octets
<1>7. f[2] \in Seq(Octets)
  BY <1>2, <1>3, <1>4
<1>8. Len(f[2]) \in Octets
  BY <1>2, <1>3, <1>4, <1>6, Zenon
<1> QED
  BY <1>5, <1>7, <1>8
\* The fields of a payload as they are sent, and what they hold.
Filling(fields, k) == [i \in 1..k |-> Tlv(fields[i])]
Filled(fields, k) == [i \in 1..k |-> fields[i][2]]

LEMMA FieldsSent ==
  ASSUME NEW k \in Nat, NEW fields \in [1..k -> Fields]
  PROVE  /\ Elemental(Filling(fields, k), Filled(fields, k), k)
         /\ \A i \in 1..k : /\ Filled(fields, k)[i] = fields[i][2]
                            /\ Filling(fields, k)[i][1] = fields[i][1]
<1> DEFINE s == Filling(fields, k)
           value == Filled(fields, k)
<1>1. /\ DOMAIN s = 1..k /\ \A i \in 1..k : s[i] = Tlv(fields[i])
      /\ \A i \in 1..k : value[i] = fields[i][2]
  BY DEF Filling, Filled
<1> HIDE DEF s, value
<1>2. ASSUME NEW f \in Fields
      PROVE  /\ f[2] \in Seq(Octets) /\ Len(f[2]) \in Octets /\ f[1] \in Octets
             /\ Tlv(f) = Cat(<<f[1], Len(f[2])>>, f[2])
             /\ Tlv(f) \in Seq(Octets) /\ Tlv(f)[1] = f[1]
  <2>1. f[1] \in Octets /\ f[2] \in Seq(Octets) /\ Len(f[2]) \in Octets
    BY FieldShape
  <2>2. Tlv(f) = Cat(<<f[1], Len(f[2])>>, f[2])
    BY DEF Tlv, Cat
  <2> DEFINE h == <<f[1], Len(f[2])>>
             m == Len(f[2])
  <2>3. Bytes(h, 2) /\ h[1] = f[1]
    BY <2>1 DEF Bytes
  <2>4. m \in Nat /\ Bytes(f[2], m)
    BY <2>1 DEF Octets, Bytes
  <2> HIDE DEF h, m
  <2>5. Bytes(Cat(h, f[2]), 2 + m) /\ Sits(Cat(h, f[2]), 0, h, 2)
    BY <2>3, <2>4, Concat
  <2>6. Cat(h, f[2])[0 + 1] = h[1]
    BY <2>5 DEF Sits
  <2>7. Cat(h, f[2]) \in Seq(Octets)
    BY <2>5 DEF Bytes
  <2>8. Tlv(f) = Cat(h, f[2])
    BY <2>2 DEF h
  <2> QED
    BY <2>1, <2>2, <2>3, <2>6, <2>7, <2>8
<1>3. \A i \in 1..k : fields[i] \in Fields
  OBVIOUS
<1>4. Strings(s, k)
  <2>1. \A i \in 1..k : Tlv(fields[i]) \in Seq(Octets)
    BY <1>2, <1>3
  <2>2. s \in Seq(Seq(Octets)) /\ Len(s) = k
    BY <2>1 DEF Filling, s
  <2> QED
    BY <2>2 DEF Strings
<1>5. ASSUME NEW i \in 1..k
      PROVE  /\ value[i] \in Seq(Octets) /\ Len(value[i]) \in Octets
             /\ s[i] = Cat(<<s[i][1], Len(value[i])>>, value[i]) /\ s[i][1] \in Octets
             /\ s[i][1] = fields[i][1]
  <2> DEFINE f == fields[i]
  <2>1. f \in Fields /\ s[i] = Tlv(f) /\ value[i] = f[2]
    BY <1>1, <1>3
  <2> HIDE DEF f
  <2>2. /\ f[2] \in Seq(Octets) /\ Len(f[2]) \in Octets /\ f[1] \in Octets
        /\ Tlv(f) = Cat(<<f[1], Len(f[2])>>, f[2]) /\ Tlv(f)[1] = f[1]
    BY <1>2, <2>1
  <2>3. s[i][1] = f[1]
    BY <2>1, <2>2
  <2>4. s[i] = Cat(<<s[i][1], Len(value[i])>>, value[i])
    BY <2>1, <2>2, <2>3
  <2> QED
    BY <2>1, <2>2, <2>3, <2>4 DEF f
<1> QED
  BY <1>1, <1>4, <1>5 DEF Elemental, s, value

LEMMA PayloadIs ==
  ASSUME NEW k \in Nat, NEW fields \in [1..k -> Fields]
  PROVE  /\ \A i \in 0..k : Len(FrenchPayload(SubSeq(fields, 1, i))) = At(Filling(fields, k), i)
         /\ \A n \in 0..Len(FrenchPayload(fields)) :
               n \in Nat /\ InRow(Cut(FrenchPayload(fields), n), n, 0, Filling(fields, k), k)
<1> DEFINE s == Filling(fields, k)
           flat == FlattenSeq(s)
<1>1. Strings(s, k)
  BY FieldsSent DEF Elemental
<1>2. ASSUME NEW i \in 0..k
      PROVE  Len(FrenchPayload(SubSeq(fields, 1, i))) = At(s, i)
  <2> DEFINE first == SubSeq(fields, 1, i)
  <2>1. first = [j \in 1..i |-> fields[j]]
    BY DEF first
  <2>2. Leading(s, i) = [j \in 1..i |-> Tlv(fields[j])]
    BY DEF Leading, Filling
  <2> HIDE DEF first
  <2>3. [j \in DOMAIN first |-> Tlv(first[j])] = [j \in 1..i |-> Tlv(fields[j])]
    BY <2>1
  <2>4. FrenchPayload(first) = FlattenSeq([j \in DOMAIN first |-> Tlv(first[j])])
    BY DEF FrenchPayload, Joined
  <2> QED
    BY <2>2, <2>3, <2>4 DEF At, Flat, first
<1>3. FrenchPayload(fields) = flat
  BY DEF FrenchPayload, Joined, Filling
<1>4. Bytes(<<>>, 0)
  BY DEF Bytes
<1> HIDE DEF s
<1>5. flat \in Seq(Octets)
  <2>1. k \in 0..k
    OBVIOUS
  <2>2. Bytes(Flat(s, k), At(s, k)) /\ flat = Flat(s, k)
    BY <1>1, <2>1, FlatBytes, FlatSteps
  <2> QED
    BY <2>2 DEF Bytes
<1>6. Cat(<<>>, flat) = flat
  <2> HIDE DEF flat
  <2> QED
    BY <1>5 DEF Cat
<1>7. \A n \in 0..Len(flat) : InRow(Cut(flat, n), n, 0, s, k)
  <2>1. \A n \in 0..Len(Cat(<<>>, flat)) : InRow(Cut(Cat(<<>>, flat), n), n, 0, s, k)
    BY <1>1, <1>4, CutInRow
  <2> QED
    BY <1>6, <2>1
<1> HIDE DEF flat
<1>8. \A n \in 0..Len(flat) : n \in Nat
  OBVIOUS
<1> QED
  BY <1>2, <1>3, <1>7, <1>8 DEF s

\* A payload is tiled when it was cut behind one of its fields, and only behind one.
LEMMA PayloadTiled ==
  ASSUME NEW k \in Nat, NEW fields \in [1..k -> Fields], NEW n \in 0..Len(FrenchPayload(fields))
  PROVE  LET s == Filling(fields, k) IN
         /\ Tiled(Cut(FrenchPayload(fields), n)) <=> \E m \in 0..k : At(s, m) = n
         /\ \A m \in 0..k : At(s, m) = n => {j \in 0..k : At(s, j) = n} = {m}
         /\ \A m \in 0..k : At(s, m) = n => {i \in 1..k : 0 + At(s, i) <= n} = 1..m
<1> DEFINE b == Cut(FrenchPayload(fields), n)
           s == Filling(fields, k)
           value == Filled(fields, k)
           at == Row(0, s, k)
<1>1. n \in Nat /\ InRow(b, n, 0, s, k)
  BY PayloadIs
<1>2. Elemental(s, value, k)
  BY FieldsSent
<1> HIDE DEF b, s, value
<1>3. Strings(s, k)
  BY <1>2 DEF Elemental
<1>4. \A i \in 0..k : at[i] = At(s, i) /\ At(s, i) \in Nat
  BY <1>3, FlatBytes DEF Row
<1>5. at[0] = 0
  <2>1. At(s, 0) = 0 /\ 0 \in 0..k
    BY <1>3, FlatBytes
  <2> QED
    BY <1>4, <2>1
<1>6. Laid(ElementEnds(b), at, k, n)
  <2>1. 0 \in Nat
    OBVIOUS
  <2> QED
    BY <1>1, <1>2, <2>1, ElementsLaid
<1> HIDE DEF at
<1>7. Offsets(ElementEnds(b), 0) = Begins(at, 0, k, n)
  <2>1. at[0] <= n
    BY <1>1, <1>5
  <2>2. Offsets(ElementEnds(b), at[0]) = Begins(at, 0, k, n)
    BY <1>1, <1>6, <2>1, WalkVisits
  <2> QED
    BY <1>5, <2>2
<1>8. Tiled(b) <=> \E m \in 0..k : At(s, m) = n
  <2>1. Len(b) = n
    BY <1>1 DEF InRow, Bytes
  <2>2. n \in Begins(at, 0, k, n) <=> \E m \in 0..k : at[m] = n
    BY <1>1 DEF Begins
  <2> QED
    BY <1>4, <1>7, <2>1, <2>2 DEF Tiled
<1>9. ASSUME NEW m \in 0..k, At(s, m) = n
      PROVE  /\ \A j \in m..k : m < j => n < At(s, j)
             /\ \A j \in 0..m : j < m => At(s, j) < n
  <2>1. \A j \in m..k : m < j => at[m] < at[j]
    BY <1>1, <1>6, Increasing
  <2>2. ASSUME NEW j \in 0..m, j < m
        PROVE  At(s, j) < n
    <3>1. j \in 0..k /\ m \in j..k
      BY <2>2
    <3>2. at[j] < at[m]
      BY <1>1, <1>6, <2>2, <3>1, Increasing
    <3> QED
      BY <1>4, <1>9, <3>1, <3>2
  <2>3. \A j \in m..k : j \in 0..k
    OBVIOUS
  <2> QED
    BY <1>4, <1>9, <2>1, <2>2, <2>3
<1>10. ASSUME NEW m \in 0..k, At(s, m) = n
       PROVE  /\ {j \in 0..k : At(s, j) = n} = {m}
              /\ {i \in 1..k : 0 + At(s, i) <= n} = 1..m
  <2>1. \A j \in 0..k : (j < m => At(s, j) < n) /\ (m < j => n < At(s, j)) /\ At(s, j) \in Nat
    BY <1>4, <1>9, <1>10
  <2>2. \A j \in 0..k : At(s, j) = n <=> j = m
    BY <1>1, <1>10, <2>1
  <2>3. \A i \in 1..k : 0 + At(s, i) <= n <=> i \in 1..m
    BY <1>1, <1>10, <2>1
  <2> QED
    BY <2>2, <2>3
<1> QED
  BY <1>8, <1>10 DEF b, s

\* The fields the decoder keeps are the last of each type.
LEMMA PayloadKept ==
  ASSUME NEW k \in Nat, NEW fields \in [1..k -> Fields], NEW n \in 0..Len(FrenchPayload(fields)),
         NEW m \in 0..k, At(Filling(fields, k), m) = n
  PROVE  LET T == Tlvs(Cut(FrenchPayload(fields), n)) IN
         /\ DOMAIN T = {fields[i][1] : i \in 1..m}
         /\ \A t \in DOMAIN T : T[t] = LastOf(fields, m, t)
<1> DEFINE b == Cut(FrenchPayload(fields), n)
           s == Filling(fields, k)
           value == Filled(fields, k)
           T == Tlvs(b)
           items == Items(ElementEnds(b), 0)
           of(t) == {i \in 1..m : fields[i][1] = t}
<1>1. n \in Nat /\ InRow(b, n, 0, s, k)
  BY PayloadIs
<1>2. /\ Elemental(s, value, k)
      /\ \A i \in 1..k : value[i] = fields[i][2] /\ s[i][1] = fields[i][1]
  BY FieldsSent
<1>3. {i \in 1..k : 0 + At(s, i) <= n} = 1..m
  BY PayloadTiled
<1> HIDE DEF b, s, value
<1>4. Strings(s, k) /\ 0 \in Nat
  BY <1>2 DEF Elemental
<1>5. items = Starts(0, s, 1..m)
  <2>1. items = {0 + At(s, i - 1) : i \in {i \in 1..k : 0 + At(s, i) <= n}}
    BY <1>1, <1>2, <1>4, ElementsKept
  <2> QED
    BY <1>3, <2>1 DEF Starts
<1>6. ASSUME NEW i \in 1..m
      PROVE  /\ Byte(b, 0 + At(s, i - 1)) = fields[i][1] /\ Value(b, 0 + At(s, i - 1)) = fields[i][2]
             /\ i \in 1..k
  <2>1. i \in 1..k /\ 0 + At(s, i) <= n
    BY <1>3
  <2> QED
    BY <1>1, <1>2, <1>4, <2>1, ElementRead
<1>7. T = [t \in {Byte(b, o) : o \in items} |-> Value(b, Max({o \in items : Byte(b, o) = t}))]
  BY DEF Tlvs
<1> HIDE DEF items
<1>8. {Byte(b, o) : o \in items} = {fields[i][1] : i \in 1..m}
  <2>1. items = {0 + At(s, i - 1) : i \in 1..m}
    BY <1>5 DEF Starts
  <2>2. {Byte(b, o) : o \in items} = {Byte(b, 0 + At(s, i - 1)) : i \in 1..m}
    BY <2>1
  <2>3. {Byte(b, 0 + At(s, i - 1)) : i \in 1..m} = {fields[i][1] : i \in 1..m}
    BY <1>6
  <2> QED
    BY <2>2, <2>3
<1>9. ASSUME NEW t \in {fields[i][1] : i \in 1..m}
      PROVE  Value(b, Max({o \in items : Byte(b, o) = t})) = LastOf(fields, m, t)
  <2> DEFINE J == of(t)
             last == Max(J)
  <2>1. J # {} /\ J \in SUBSET (1..k) /\ J \in SUBSET (1..m)
    BY <1>6
  <2>2. {o \in items : Byte(b, o) = t} = Starts(0, s, J)
    BY <1>5, <1>6 DEF Starts
  <2>3. LastOf(fields, m, t) = fields[last][2]
    BY <2>1 DEF LastOf
  <2> HIDE DEF J
  <2>4. Max(Starts(0, s, J)) = 0 + At(s, last - 1) /\ last \in J
    BY <1>4, <2>1, LastItem
  <2> HIDE DEF last
  <2>5. Value(b, 0 + At(s, last - 1)) = fields[last][2]
    BY <1>6, <2>1, <2>4
  <2> QED
    BY <2>2, <2>3, <2>4, <2>5
<1> QED
  BY <1>7, <1>8, <1>9 DEF b

\* The last field of a type holds what its type may hold.
LEMMA LastHolds ==
  ASSUME NEW k \in Nat, NEW fields \in [1..k -> Fields], NEW m \in 0..k, NEW t
  PROVE  IF t \in {fields[i][1] : i \in 1..m} THEN Holds(t, LastOf(fields, m, t))
                                              ELSE LastOf(fields, m, t) = <<>>
<1> DEFINE J == {i \in 1..m : fields[i][1] = t}
<1>1. t \in {fields[i][1] : i \in 1..m} <=> J # {}
  OBVIOUS
<1>2. LastOf(fields, m, t) = IF J = {} THEN <<>> ELSE fields[Max(J)][2]
  BY DEF LastOf
<1>3. ASSUME J # {}
      PROVE  Holds(t, fields[Max(J)][2])
  <2>1. J \in SUBSET (0..m) /\ \A i \in J : i \in 1..k /\ fields[i][1] = t
    OBVIOUS
  <2> HIDE DEF J
  <2>2. Max(J) \in J
    <3>1. m \in Nat
      OBVIOUS
    <3> QED
      BY <1>3, <2>1, <3>1, MaxOf
  <2>3. fields[Max(J)] \in Fields /\ fields[Max(J)][1] = t
    BY <2>1, <2>2
  <2> QED
    BY <2>3, FieldsHold
<1> QED
  BY <1>1, <1>2, <1>3

\* `last` is the last field of a type.
Tells(T, t, last) ==
    IF t \in DOMAIN T THEN T[t] = last /\ Holds(t, last) ELSE last = <<>>

\* What the decoder reads of a type.
LEMMA TextBack ==
  ASSUME NEW T, NEW t, NEW last, Tells(T, t, last)
  PROVE  /\ t = 3 => last \in {<<>>, <<83>>} /\ Text(T, t) = last
         /\ t = 2 => last \in {<<>>, <<65, 0, 66>>} /\ Text(T, t) = IF last = <<>> THEN <<>> ELSE <<65>>
<1>1. CASE t \notin DOMAIN T
  BY <1>1 DEF Text, Tells
<1>2. CASE t \in DOMAIN T
  <2> DEFINE nuls(v) == {i \in DOMAIN v : v[i] = 0}
  <2>1. Text(T, t) = IF nuls(last) = {} THEN last ELSE SubSeq(last, 1, Min(nuls(last)) - 1)
    BY <1>2 DEF Text, Tells
  <2>2. nuls(<<>>) = {} /\ nuls(<<83>>) = {}
    OBVIOUS
  <2>3. nuls(<<65, 0, 66>>) = {2}
    <3>1. DOMAIN <<65, 0, 66>> = 1..3
      OBVIOUS
    <3>2. <<65, 0, 66>>[1] = 65 /\ <<65, 0, 66>>[2] = 0 /\ <<65, 0, 66>>[3] = 66
      OBVIOUS
    <3> QED
      BY <3>1, <3>2
  <2>4. Min({2}) = 2
    BY MinIs
  <2>5. SubSeq(<<65, 0, 66>>, 1, 1) = <<65>>
    <3> DEFINE q == <<65, 0, 66>>
               first == SubSeq(q, 1, 1)
    <3>1. q \in Seq(Nat) /\ Len(q) = 3 /\ q[1] = 65
      OBVIOUS
    <3> HIDE DEF q
    <3>2. first \in Seq(Nat) /\ Len(first) = 1 /\ first[1] = 65
      BY <3>1
    <3> HIDE DEF first
    <3>3. first = <<65>>
      BY <3>2
    <3> QED
      BY <3>3 DEF first, q
  <2> HIDE DEF nuls
  <2>6. t = 3 => last \in {<<83>>, <<>>}
    BY <1>2 DEF Holds, Tells
  <2>7. t = 2 => last = <<65, 0, 66>>
    BY <1>2 DEF Holds, Tells
  <2>8. <<65, 0, 66>> # <<>>
    OBVIOUS
  <2>9. ASSUME t = 2 PROVE Text(T, t) = <<65>>
    <3>1. Text(T, t) = SubSeq(<<65, 0, 66>>, 1, 2 - 1)
      BY <2>1, <2>3, <2>4, <2>7, <2>9
    <3> QED
      BY <2>5, <3>1
  <2> QED
    BY <2>1, <2>2, <2>6, <2>7, <2>8, <2>9
<1> QED
  BY <1>1, <1>2

LEMMA CoordinateBack ==
  ASSUME NEW T, NEW t, NEW last, Tells(T, t, last)
  PROVE  /\ t = 4 => Coordinate(T, t) = IF last = Pole THEN -9000000 ELSE None
         /\ t = 5 => Coordinate(T, t) = IF last = Meridian THEN 18000000
                                        ELSE IF last = Beyond THEN 18000001 ELSE None
         /\ t \in {8, 9} => Coordinate(T, t) = None
<1>1. /\ Len(Pole) = 4 /\ Int32(Reversed(Pole), 0) = -9000000
      /\ Len(Meridian) = 4 /\ Int32(Reversed(Meridian), 0) = 18000000
      /\ Len(Beyond) = 4 /\ Int32(Reversed(Beyond), 0) = 18000001
  BY CoordinatesBack DEF Bytes
<1>2. Len(<<>>) = 0 /\ Len(<<0, 0>>) = 2
  OBVIOUS
<1>3. Pole # <<>> /\ Pole # <<0, 0>> /\ Meridian # <<>> /\ Beyond # <<>>
  BY <1>1, <1>2
<1>4. CASE t \notin DOMAIN T
  BY <1>3, <1>4 DEF Coordinate, Tells
<1>5. CASE t \in DOMAIN T
  <2>1. Coordinate(T, t) = IF Len(last) = 4 THEN Int32(Reversed(last), 0) ELSE None
    BY <1>5 DEF Coordinate, Tells
  <2>2. t = 4 => last \in {Pole, <<0, 0>>}
    BY <1>5 DEF Holds, Tells
  <2>3. t = 5 => last \in {Meridian, Beyond}
    BY <1>5 DEF Holds, Tells
  <2>4. ~(t \in {8, 9})
    BY <1>5 DEF Holds, Tells
  <2>5. Meridian # Beyond
    BY <1>1
  <2>6. t = 4 => Coordinate(T, t) = IF last = Pole THEN -9000000 ELSE None
    <3>1. last = Pole => Coordinate(T, t) = -9000000
      BY <1>1, <2>1
    <3>2. last = <<0, 0>> => Coordinate(T, t) = None
      BY <1>2, <2>1
    <3> QED
      BY <1>3, <2>2, <3>1, <3>2
  <2>7. t = 5 => Coordinate(T, t) = IF last = Meridian THEN 18000000
                                    ELSE IF last = Beyond THEN 18000001 ELSE None
    BY <1>1, <2>1, <2>3, <2>5
  <2> QED
    BY <2>4, <2>6, <2>7
<1> QED
  BY <1>4, <1>5

LEMMA SaidBack ==
  ASSUME NEW k \in Nat, NEW fields \in [1..k -> Fields], NEW m \in 0..k, NEW T,
         DOMAIN T = {fields[i][1] : i \in 1..m}, \A t \in DOMAIN T : T[t] = LastOf(fields, m, t)
  PROVE  (IF Text(T, 2) = <<>> /\ Text(T, 3) = <<>> THEN None
          ELSE [id |-> IF Text(T, 3) # <<>> THEN Text(T, 3) ELSE Text(T, 2),
                serial |-> Text(T, 3) # <<>>,
                position |-> Point(T, 4, 5), takeoff |-> Point(T, 8, 9)])
           = Said(fields, m)
<1> DEFINE last(t) == LastOf(fields, m, t)
<1>1. \A t : Tells(T, t, last(t))
  BY LastHolds DEF Tells
<1> DEFINE serial == last(3)
           french == last(2)
           lat == last(4)
           lon == last(5)
           placed == lat = Pole /\ lon = Meridian
<1>2. Said(fields, m) =
        IF serial = <<>> /\ french = <<>> THEN None
        ELSE [id |-> IF serial # <<>> THEN <<83>> ELSE <<65>>, serial |-> serial # <<>>,
              position |-> IF placed THEN <<-9000000, 18000000>> ELSE None, takeoff |-> None]
  BY DEF Said, Pole, Meridian
<1> HIDE DEF last
<1>3. serial \in {<<>>, <<83>>} /\ Text(T, 3) = serial
  BY <1>1, TextBack
<1>4. french \in {<<>>, <<65, 0, 66>>} /\ Text(T, 2) = IF french = <<>> THEN <<>> ELSE <<65>>
  BY <1>1, TextBack
<1>5. Coordinate(T, 4) = IF lat = Pole THEN -9000000 ELSE None
  BY <1>1, CoordinateBack, SMT
<1>6. Coordinate(T, 5) = IF lon = Meridian THEN 18000000 ELSE IF lon = Beyond THEN 18000001 ELSE None
  BY <1>1, CoordinateBack
<1>7. Coordinate(T, 8) = None /\ Coordinate(T, 9) = None
  <2>1. Tells(T, 8, last(8)) /\ Tells(T, 9, last(9))
    BY <1>1
  <2> QED
    BY <2>1, CoordinateBack
<1> HIDE DEF serial, french, lat, lon
<1>8. Point(T, 8, 9) = None
  BY <1>7 DEF Point, Within
<1>9. Point(T, 4, 5) = IF placed THEN <<-9000000, 18000000>> ELSE None
  <2> DEFINE x == Coordinate(T, 4)
             y == Coordinate(T, 5)
  <2>1. Point(T, 4, 5) = IF Within(x, 9000000) /\ Within(y, 18000000) THEN <<x, y>> ELSE None
    BY DEF Point
  <2>2. Within(-9000000, 9000000) /\ Within(18000000, 18000000) /\ ~Within(18000001, 18000000)
    <3>1. -9000000 # None /\ 18000000 # None
      BY NoneIsNoData
    <3> QED
      BY <3>1 DEF Within
  <2>3. ~Within(None, 9000000) /\ ~Within(None, 18000000)
    BY DEF Within
  <2>4. Within(x, 9000000) <=> lat = Pole
    BY <1>5, <2>2, <2>3
  <2>5. Within(y, 18000000) <=> lon = Meridian
    BY <1>6, <2>2, <2>3
  <2>6. placed => x = -9000000 /\ y = 18000000
    BY <1>5, <1>6
  <2> HIDE DEF x, y
  <2> QED
    BY <2>1, <2>4, <2>5, <2>6
<1>10. <<83>> # <<>> /\ <<65>> # <<>> /\ <<65, 0, 66>> # <<>>
  OBVIOUS
<1> HIDE DEF placed
<1>11. Text(T, 2) = <<>> /\ Text(T, 3) = <<>> <=> serial = <<>> /\ french = <<>>
  BY <1>3, <1>4, <1>10
<1>12. CASE serial = <<>> /\ french = <<>>
  BY <1>2, <1>11, <1>12
<1>13. CASE ~(serial = <<>> /\ french = <<>>)
  <2>1. (IF Text(T, 3) # <<>> THEN Text(T, 3) ELSE Text(T, 2)) = IF serial # <<>> THEN <<83>> ELSE <<65>>
    BY <1>3, <1>4, <1>13
  <2>2. (Text(T, 3) # <<>>) = (serial # <<>>)
    BY <1>3
  <2> QED
    BY <1>2, <1>8, <1>9, <1>11, <1>13, <2>1, <2>2
<1> QED
  BY <1>12, <1>13

LEMMA FrenchBack ==
  ASSUME NEW k \in Nat, NEW fields \in [1..k -> Fields], NEW n \in 0..Len(FrenchPayload(fields))
  PROVE  LET whole == {j \in 0..k : Len(FrenchPayload(SubSeq(fields, 1, j))) = n} IN
         ParseFrdid(Cut(FrenchPayload(fields), n)) = IF whole = {} THEN None ELSE Said(fields, Min(whole))
<1> DEFINE b == Cut(FrenchPayload(fields), n)
           s == Filling(fields, k)
           whole == {j \in 0..k : Len(FrenchPayload(SubSeq(fields, 1, j))) = n}
           T == Tlvs(b)
<1>1. whole = {j \in 0..k : At(s, j) = n}
  BY PayloadIs
<1>2. Tiled(b) <=> whole # {}
  <2>1. Tiled(b) <=> \E m \in 0..k : At(s, m) = n
    BY PayloadTiled
  <2> QED
    BY <1>1, <2>1
<1>3. ParseFrdid(b) =
        IF ~Tiled(b) \/ (Text(T, 2) = <<>> /\ Text(T, 3) = <<>>) THEN None
        ELSE [id |-> IF Text(T, 3) # <<>> THEN Text(T, 3) ELSE Text(T, 2),
              serial |-> Text(T, 3) # <<>>,
              position |-> Point(T, 4, 5), takeoff |-> Point(T, 8, 9)]
  BY DEF ParseFrdid
<1>4. CASE whole = {}
  <2> HIDE DEF b, whole, T
  <2>1. ParseFrdid(b) = None
    BY <1>2, <1>3, <1>4
  <2> QED
    BY <1>4, <2>1 DEF b, whole
<1>5. CASE whole # {}
  <2>1. PICK m \in 0..k : At(s, m) = n
    BY <1>1, <1>5
  <2>2. {j \in 0..k : At(s, j) = n} = {m}
    BY <2>1, PayloadTiled
  <2>3. DOMAIN T = {fields[i][1] : i \in 1..m} /\ \A t \in DOMAIN T : T[t] = LastOf(fields, m, t)
    BY <2>1, PayloadKept
  <2>4. Min({m}) = m
    <3> DEFINE P == {m}
    <3>1. P \in SUBSET Int /\ m \in P /\ \A x \in P : m <= x
      OBVIOUS
    <3> HIDE DEF P
    <3>2. Min(P) = m
      BY <3>1, MinIs
    <3> QED
      BY <3>2 DEF P
  <2>5. whole = {m}
    BY <1>1, <2>2
  <2> HIDE DEF b, whole, T
  <2>6. (IF Text(T, 2) = <<>> /\ Text(T, 3) = <<>> THEN None
         ELSE [id |-> IF Text(T, 3) # <<>> THEN Text(T, 3) ELSE Text(T, 2),
               serial |-> Text(T, 3) # <<>>,
               position |-> Point(T, 4, 5), takeoff |-> Point(T, 8, 9)]) = Said(fields, m)
    BY <2>3, SaidBack
  <2>7. ParseFrdid(b) = Said(fields, m)
    BY <1>2, <1>3, <1>5, <2>6
  <2>8. Min(whole) = m
    BY <2>4, <2>5
  <2> QED
    BY <1>5, <2>7, <2>8 DEF b, whole
<1> QED
  BY <1>4, <1>5

\* A French payload says what its fields say when it ends with one of them and nothing at all
\* otherwise, whatever the fields and wherever it was cut (wifi_feeder.py:472-540).
THEOREM FrenchIsAllOrNothing == Spec => []FrenchAllOrNothing
<1>1. Init => FrenchAllOrNothing
  BY DEF Init, FrenchAllOrNothing
<1>2. ASSUME FrenchAllOrNothing, [Next]_rx
      PROVE  FrenchAllOrNothing'
  <2>1. CASE ReceiveFrench
    <3>1. PICK fields \in UpTo(Fields, MaxFields) : \E n \in 0..Len(FrenchPayload(fields)) :
              rx' = [path |-> "french", input |-> [fields |-> fields, n |-> n],
                     output |-> ParseFrdid(Cut(FrenchPayload(fields), n))]
      BY <2>1 DEF ReceiveFrench, Expect
    <3>2. PICK n \in 0..Len(FrenchPayload(fields)) :
              rx' = [path |-> "french", input |-> [fields |-> fields, n |-> n],
                     output |-> ParseFrdid(Cut(FrenchPayload(fields), n))]
      BY <3>1
    <3>3. PICK k \in 0..MaxFields : fields \in [1..k -> Fields]
      BY <3>1, BoundsOK DEF UpTo
    <3>4. k \in Nat /\ Len(fields) = k
      BY <3>3, BoundsOK
    <3> DEFINE whole == {j \in 0..k : Len(FrenchPayload(SubSeq(fields, 1, j))) = n}
    <3>5. ParseFrdid(Cut(FrenchPayload(fields), n)) = IF whole = {} THEN None ELSE Said(fields, Min(whole))
      BY <3>2, <3>3, <3>4, FrenchBack
    <3>6. /\ rx'.input.fields = fields /\ rx'.input.n = n
          /\ rx'.output = ParseFrdid(Cut(FrenchPayload(fields), n))
      BY <3>2
    <3> QED
      BY <3>4, <3>5, <3>6 DEF FrenchAllOrNothing
  <2>2. CASE ReceiveBeacon \/ ReceiveNan \/ ReceivePack \/ ReceiveLocation \/ ReceiveTap \/ ReceiveSent
    BY <2>2, Paths DEF FrenchAllOrNothing
  <2>3. CASE UNCHANGED rx
    BY <1>2, <2>3 DEF FrenchAllOrNothing
  <2> QED
    BY <1>2, <2>1, <2>2, <2>3 DEF Next
<1> QED
  BY <1>1, <1>2, PTL DEF Spec

-----------------------------------------------------------------------------
(* NAN action frames.                                                       *)

\* Where the optional fields of a descriptor end: the bitmap, the filter, the binding, the info.
BitmapEnd(S) == 9 + (IF 6 \in S THEN 2 ELSE 0)
FilterEnd(S) == BitmapEnd(S) + (IF 2 \in S THEN 3 ELSE 0)
BindingEnd(S) == FilterEnd(S) + (IF 3 \in S THEN 2 ELSE 0)
InfoEnd(S) == BindingEnd(S) + (IF 4 \in S THEN 27 ELSE 0)

LEMMA FieldEnds ==
  ASSUME NEW S
  PROVE  /\ BitmapEnd(S) \in {9, 11} /\ FilterEnd(S) \in Nat /\ BindingEnd(S) \in Nat /\ InfoEnd(S) \in Nat
         /\ 9 <= BitmapEnd(S) /\ BitmapEnd(S) <= FilterEnd(S) /\ FilterEnd(S) <= BindingEnd(S)
         /\ BindingEnd(S) <= InfoEnd(S) /\ InfoEnd(S) <= 43
<1>1. BitmapEnd(S) \in {9, 11}
  BY DEF BitmapEnd
<1>2. FilterEnd(S) \in {BitmapEnd(S), BitmapEnd(S) + 3}
  BY <1>1 DEF FilterEnd
<1>3. BindingEnd(S) \in {FilterEnd(S), FilterEnd(S) + 2}
  BY <1>1, <1>2 DEF BindingEnd
<1>4. InfoEnd(S) \in {BindingEnd(S), BindingEnd(S) + 27}
  BY <1>1, <1>2, <1>3 DEF InfoEnd
<1> QED
  BY <1>1, <1>2, <1>3, <1>4

\* What a string and an optional one behind it hold.
Option(present, f) == IF present THEN f ELSE <<>>

LEMMA OptionConcat ==
  ASSUME NEW m \in Nat, NEW n \in Nat, NEW b, NEW f, Bytes(b, m), Bytes(f, n), NEW present \in BOOLEAN
  PROVE  LET e == m + (IF present THEN n ELSE 0) IN
         /\ Bytes(Cat(b, Option(present, f)), e)
         /\ Sits(Cat(b, Option(present, f)), 0, b, m)
         /\ present => Sits(Cat(b, Option(present, f)), m, f, n)
<1> DEFINE g == Option(present, f)
           z == IF present THEN n ELSE 0
<1>1. Bytes(<<>>, 0)
  BY DEF Bytes
<1>2. z \in Nat /\ Bytes(g, z)
  BY <1>1 DEF Option
<1>3. present => g = f /\ z = n
  BY DEF Option
<1> HIDE DEF g, z
<1>4. Bytes(Cat(b, g), m + z) /\ Sits(Cat(b, g), 0, b, m) /\ Sits(Cat(b, g), m, g, z)
  BY <1>2, Concat
<1> QED
  BY <1>3, <1>4 DEF g, z

LEMMA DescriptorShape ==
  ASSUME NEW S \in SUBSET (0..6), NEW service, Bytes(service, 6)
  PROVE  LET d == Descriptor(S, service) IN
         /\ Bytes(d, InfoEnd(S)) /\ Sits(d, 0, service, 6) /\ Byte(d, 8) = Bits(S)
         /\ 2 \in S => Byte(d, BitmapEnd(S)) = 2
         /\ 3 \in S => Byte(d, FilterEnd(S)) = 1
         /\ 4 \in S => Byte(d, BindingEnd(S)) = 26 /\ Sits(d, BindingEnd(S) + 2, BasicId, 25)
<1> DEFINE info == Cat(<<26, 7>>, BasicId)
           control == <<1, 0, Bits(S)>>
           a == Cat(service, control)
           b == Cat(a, Option(6 \in S, <<9, 9>>))
           c == Cat(b, Option(2 \in S, <<2, 16, 4>>))
           e == Cat(c, Option(3 \in S, <<1, 16>>))
           d == Cat(e, Option(4 \in S, info))
           i1 == BitmapEnd(S)
           i2 == FilterEnd(S)
           i3 == BindingEnd(S)
           i4 == InfoEnd(S)
<1>1. d = Descriptor(S, service)
  BY DEF Descriptor, Option, Cat
<1>2. /\ i1 = 9 + (IF 6 \in S THEN 2 ELSE 0) /\ i2 = i1 + (IF 2 \in S THEN 3 ELSE 0)
      /\ i3 = i2 + (IF 3 \in S THEN 2 ELSE 0) /\ i4 = i3 + (IF 4 \in S THEN 27 ELSE 0)
  BY DEF BitmapEnd, FilterEnd, BindingEnd, InfoEnd
<1>3. /\ i1 \in Nat /\ i2 \in Nat /\ i3 \in Nat /\ i4 \in Nat
      /\ 9 <= i1 /\ i1 <= i2 /\ i2 <= i3 /\ i3 <= i4
  <2>1. i1 \in {9, 11}
    BY FieldEnds
  <2> QED
    BY <2>1, FieldEnds
<1>4. Bytes(<<9, 9>>, 2) /\ Bytes(<<2, 16, 4>>, 3) /\ Bytes(<<1, 16>>, 2) /\ Bytes(<<26, 7>>, 2)
  BY DEF Bytes, Octets
<1>5. Bytes(info, 27) /\ info[1] = 26 /\ Sits(info, 2, BasicId, 25)
  <2>1. Bytes(info, 2 + 25) /\ Sits(info, 0, <<26, 7>>, 2) /\ Sits(info, 2, BasicId, 25)
    BY <1>4, MessageBytes, Concat
  <2>2. info[0 + 1] = <<26, 7>>[1]
    BY <2>1 DEF Sits
  <2> HIDE DEF info
  <2> QED
    BY <2>1, <2>2
<1>6. Bytes(control, 3) /\ control[3] = Bits(S)
  <2>1. Bits(S) \in Octets
    BY BitsBack
  <2>2. 0 \in Octets /\ 1 \in Octets
    BY DEF Octets
  <2> QED
    BY <2>1, <2>2 DEF Bytes
<1> HIDE DEF info, control, i1, i2, i3, i4
<1>7. Bytes(a, 9) /\ Sits(a, 0, service, 6) /\ a[9] = Bits(S)
  <2>1. Bytes(a, 6 + 3) /\ Sits(a, 0, service, 6) /\ Sits(a, 6, control, 3)
    BY <1>6, Concat
  <2>2. a[6 + 3] = control[3]
    BY <2>1 DEF Sits
  <2> HIDE DEF a
  <2> QED
    BY <1>6, <2>1, <2>2
<1> HIDE DEF a
<1>8. Bytes(b, i1) /\ Sits(b, 0, a, 9)
  <2>1. (6 \in S) \in BOOLEAN
    OBVIOUS
  <2>2. Bytes(b, 9 + (IF 6 \in S THEN 2 ELSE 0)) /\ Sits(b, 0, a, 9)
    BY <1>4, <1>7, <2>1, OptionConcat
  <2> HIDE DEF b
  <2> QED
    BY <1>2, <2>2
<1> HIDE DEF b
<1>9. Bytes(c, i2) /\ Sits(c, 0, b, i1) /\ (2 \in S => Sits(c, i1, <<2, 16, 4>>, 3) /\ i2 = i1 + 3)
  <2>1. (2 \in S) \in BOOLEAN
    OBVIOUS
  <2>2. /\ Bytes(c, i1 + (IF 2 \in S THEN 3 ELSE 0)) /\ Sits(c, 0, b, i1)
        /\ 2 \in S => Sits(c, i1, <<2, 16, 4>>, 3)
    BY <1>3, <1>4, <1>8, <2>1, OptionConcat
  <2> HIDE DEF c
  <2> QED
    BY <1>2, <2>2
<1> HIDE DEF c
<1>10. Bytes(e, i3) /\ Sits(e, 0, c, i2) /\ (3 \in S => Sits(e, i2, <<1, 16>>, 2) /\ i3 = i2 + 2)
  <2>1. (3 \in S) \in BOOLEAN
    OBVIOUS
  <2>2. Bytes(c, i2)
    BY <1>9
  <2>3. /\ Bytes(e, i2 + (IF 3 \in S THEN 2 ELSE 0)) /\ Sits(e, 0, c, i2)
        /\ 3 \in S => Sits(e, i2, <<1, 16>>, 2)
    BY <1>3, <1>4, <2>1, <2>2, OptionConcat
  <2> HIDE DEF e
  <2> QED
    BY <1>2, <2>3
<1> HIDE DEF e
<1>11. Bytes(d, i4) /\ Sits(d, 0, e, i3) /\ (4 \in S => Sits(d, i3, info, 27) /\ i4 = i3 + 27)
  <2>1. (4 \in S) \in BOOLEAN
    OBVIOUS
  <2>2. /\ Bytes(d, i3 + (IF 4 \in S THEN 27 ELSE 0)) /\ Sits(d, 0, e, i3)
        /\ 4 \in S => Sits(d, i3, info, 27)
    BY <1>3, <1>5, <1>10, <2>1, OptionConcat
  <2> HIDE DEF d
  <2> QED
    BY <1>2, <2>2
<1> HIDE DEF d
<1>12. Sits(d, 0, c, i2)
  BY <1>3, <1>10, <1>11, SitsDeeper
<1>13. Sits(d, 0, b, i1)
  BY <1>3, <1>9, <1>12, SitsDeeper
<1>14. Sits(d, 0, a, 9)
  BY <1>3, <1>8, <1>13, SitsDeeper
<1>15. Sits(d, 0, service, 6) /\ d[0 + 9] = a[9]
  <2>1. d[0 + 9] = a[9]
    BY <1>14 DEF Sits
  <2> QED
    BY <1>7, <1>14, <2>1, SitsDeeper
<1>16. 2 \in S => Byte(d, i1) = 2
  <2>1. 2 \in S => Sits(d, 0 + i1, <<2, 16, 4>>, 3)
    BY <1>3, <1>9, <1>12, SitsDeeper
  <2>2. 2 \in S => d[0 + i1 + 1] = <<2, 16, 4>>[1]
    BY <2>1 DEF Sits
  <2> QED
    BY <1>3, <2>2 DEF Byte
<1>17. 3 \in S => Byte(d, i2) = 1
  <2>1. 3 \in S => Sits(d, 0 + i2, <<1, 16>>, 2)
    BY <1>3, <1>10, <1>11, SitsDeeper
  <2>2. 3 \in S => d[0 + i2 + 1] = <<1, 16>>[1]
    BY <2>1 DEF Sits
  <2> QED
    BY <1>3, <2>2 DEF Byte
<1>18. 4 \in S => Byte(d, i3) = 26 /\ Sits(d, i3 + 2, BasicId, 25)
  <2>1. 4 \in S => d[i3 + 1] = info[1]
    BY <1>11 DEF Sits
  <2>2. 4 \in S => Sits(d, i3 + 2, BasicId, 25)
    BY <1>3, <1>5, <1>11, SitsDeeper
  <2> QED
    BY <1>5, <2>1, <2>2 DEF Byte
<1>19. Byte(d, 8) = Bits(S)
  BY <1>7, <1>15 DEF Byte
<1> QED
  BY <1>1, <1>11, <1>15, <1>16, <1>17, <1>18, <1>19 DEF i1, i2, i3, i4

LEMMA ServicesDiffer == Bytes(OdidService, 6) /\ Bytes(OtherService, 6) /\ OdidService # OtherService
<1>1. OdidService[1] = 136 /\ OtherService[1] = 1
  BY DEF OdidService, OtherService
<1>2. Bytes(OdidService, 6) /\ Bytes(OtherService, 6)
  BY DEF OdidService, OtherService, Bytes, Octets
<1> QED
  BY <1>1, <1>2

\* The service info is found behind every combination of optional fields.
LEMMA InfoFound ==
  ASSUME NEW S \in SUBSET (0..6), NEW service, Bytes(service, 6), 4 \in S
  PROVE  LET d == Descriptor(S, service) IN
         /\ ServiceInfoAt(d) = BindingEnd(S) /\ Byte(d, BindingEnd(S)) = 26
         /\ Len(d) = BindingEnd(S) + 27 /\ ServiceInfo(d) = BasicId
<1> DEFINE d == Descriptor(S, service)
           i1 == BitmapEnd(S)
           i2 == FilterEnd(S)
           i3 == BindingEnd(S)
<1>1. /\ Bytes(d, InfoEnd(S)) /\ Byte(d, 8) = Bits(S)
      /\ 2 \in S => Byte(d, i1) = 2
      /\ 3 \in S => Byte(d, i2) = 1
      /\ Byte(d, i3) = 26 /\ Sits(d, i3 + 2, BasicId, 25)
  BY DescriptorShape
<1>2. /\ i1 = 9 + (IF 6 \in S THEN 2 ELSE 0) /\ i2 = i1 + (IF 2 \in S THEN 3 ELSE 0)
      /\ i3 = i2 + (IF 3 \in S THEN 2 ELSE 0) /\ InfoEnd(S) = i3 + 27
  BY DEF BitmapEnd, FilterEnd, BindingEnd, InfoEnd
<1>3. i1 \in Nat /\ i2 \in Nat /\ i3 \in Nat /\ i1 <= i2 /\ i2 <= i3
  <2>1. i1 \in {9, 11}
    BY FieldEnds
  <2> QED
    BY <2>1, FieldEnds
<1>4. /\ Bit(Bits(S), 4) <=> 2 \in S
      /\ Bit(Bits(S), 8) <=> 3 \in S
      /\ Bit(Bits(S), 64) <=> 6 \in S
  BY BitsBack
<1>5. Len(d) = i3 + 27
  BY <1>1, <1>2 DEF Bytes
<1> HIDE DEF d, i1, i2, i3
<1>6. Past(d, i1, 2 \in S) = i2 /\ Past(d, i2, 3 \in S) = i3
  BY <1>1, <1>2, <1>3, <1>5 DEF Past
<1>7. ServiceInfoAt(d) = i3
  <2>1. (IF 6 \in S THEN 11 ELSE 9) = i1
    BY <1>2
  <2>2. ServiceInfoAt(d) = Past(d, Past(d, i1, Bit(Byte(d, 8), 4)), Bit(Byte(d, 8), 8))
    BY <1>1, <1>4, <2>1 DEF ServiceInfoAt
  <2>3. \A at : Past(d, at, Bit(Byte(d, 8), 4)) = Past(d, at, 2 \in S)
    BY <1>1, <1>4 DEF Past
  <2>4. \A at : Past(d, at, Bit(Byte(d, 8), 8)) = Past(d, at, 3 \in S)
    BY <1>1, <1>4 DEF Past
  <2> QED
    BY <1>6, <2>2, <2>3, <2>4
<1>8. ServiceInfo(d) = BasicId
  <2>1. i3 + 1 + 26 = i3 + 2 + 25 /\ i3 + 2 \in Nat /\ i3 + 2 + 25 <= i3 + 27 /\ i3 + 27 \in Nat
    BY <1>3
  <2>2. Bytes(d, i3 + 27)
    BY <1>1, <1>2
  <2>3. Slice(d, i3 + 2, i3 + 2 + 25) = BasicId
    BY <1>1, <2>1, <2>2, MessageBytes, PartIs
  <2> QED
    BY <1>1, <1>7, <2>1, <2>3 DEF ServiceInfo
<1> QED
  BY <1>1, <1>5, <1>7, <1>8 DEF d, i3

LEMMA DescriptorRead ==
  ASSUME NEW S \in SUBSET (0..6)
  PROVE  /\ CarriesOdid(Descriptor(S, OdidService)) <=> 4 \in S
         /\ 4 \in S => ServiceInfo(Descriptor(S, OdidService)) = BasicId
         /\ ~CarriesOdid(Descriptor(S, OtherService))
<1>1. Bytes(OdidService, 6) /\ Bytes(OtherService, 6) /\ OdidService # OtherService
  BY ServicesDiffer
<1>2. ASSUME NEW service, Bytes(service, 6)
      PROVE  LET d == Descriptor(S, service) IN
             /\ Slice(d, 0, 6) = service /\ Byte(d, 8) = Bits(S)
             /\ Len(d) = InfoEnd(S) /\ InfoEnd(S) \in Nat /\ 9 <= InfoEnd(S)
  <2> DEFINE d == Descriptor(S, service)
             n == InfoEnd(S)
  <2>1. Bytes(d, n) /\ Sits(d, 0, service, 6) /\ Byte(d, 8) = Bits(S)
    BY <1>2, DescriptorShape
  <2>2. n \in Nat /\ 9 <= n
    <3>1. BitmapEnd(S) \in {9, 11}
      BY FieldEnds
    <3> QED
      BY <3>1, FieldEnds
  <2> HIDE DEF d, n
  <2>3. Slice(d, 0, 0 + 6) = service
    BY <1>2, <2>1, <2>2, PartIs
  <2> QED
    BY <2>1, <2>2, <2>3 DEF Bytes, d, n
<1>3. ~CarriesOdid(Descriptor(S, OtherService))
  BY <1>1, <1>2 DEF CarriesOdid
<1> DEFINE d == Descriptor(S, OdidService)
<1>4. Slice(d, 0, 6) = OdidService /\ Byte(d, 8) = Bits(S) /\ Len(d) = InfoEnd(S) /\ 9 <= Len(d)
  BY <1>1, <1>2
<1>5. Bit(Bits(S), 16) <=> 4 \in S
  BY BitsBack
<1>6. CASE 4 \in S
  <2>1. /\ ServiceInfoAt(d) = BindingEnd(S) /\ Byte(d, BindingEnd(S)) = 26
        /\ Len(d) = BindingEnd(S) + 27 /\ ServiceInfo(d) = BasicId
    BY <1>1, <1>6, InfoFound
  <2>2. BindingEnd(S) \in Nat
    BY FieldEnds
  <2> HIDE DEF d
  <2>3. CarriesOdid(d)
    BY <1>4, <1>5, <1>6, <2>1, <2>2 DEF CarriesOdid
  <2> QED
    BY <1>3, <1>6, <2>1, <2>3 DEF d
<1>7. CASE 4 \notin S
  <2> HIDE DEF d
  <2>1. ~CarriesOdid(d)
    BY <1>4, <1>5, <1>7 DEF CarriesOdid
  <2> QED
    BY <1>3, <1>7, <2>1 DEF d
<1> QED
  BY <1>6, <1>7

\* s are attributes with these values.
Attributal(s, value, k) ==
    /\ Strings(s, k)
    /\ \A i \in 1..k :
          /\ value[i] \in Seq(Octets) /\ IsUint16(Len(value[i]))
          /\ s[i] = Cat(Cat(<<s[i][1]>>, Uint16Bytes(Len(value[i]))), value[i]) /\ s[i][1] \in Octets

LEMMA AttributeShape ==
  ASSUME NEW k \in Nat, NEW s, NEW value, Attributal(s, value, k), NEW i \in 1..k
  PROVE  /\ Strings(s, k) /\ Len(value[i]) \in Nat /\ Len(s[i]) = 3 + Len(value[i])
         /\ IsUint16(Len(value[i])) /\ Bytes(value[i], Len(value[i]))
         /\ Sits(s[i], 1, Uint16Bytes(Len(value[i])), 2)
         /\ Sits(s[i], 3, value[i], Len(value[i]))
<1> DEFINE v == value[i]
           m == Len(v)
           id == <<s[i][1]>>
           head == Cat(id, Uint16Bytes(m))
<1>1. /\ Strings(s, k) /\ v \in Seq(Octets) /\ IsUint16(m)
      /\ s[i] = Cat(head, v) /\ s[i][1] \in Octets
  BY DEF Attributal
<1>2. m \in Nat
  BY <1>1 DEF IsUint16
<1>3. Bytes(id, 1) /\ Bytes(Uint16Bytes(m), 2)
  <2>1. Bytes(id, 1)
    BY <1>1 DEF Bytes
  <2> QED
    BY <1>1, <2>1, Uint16Back
<1>4. Bytes(v, m)
  BY <1>1 DEF Bytes
<1> HIDE DEF id, m, v
<1>5. Bytes(head, 1 + 2) /\ Sits(head, 1, Uint16Bytes(m), 2)
  BY <1>3, Concat
<1> HIDE DEF head
<1>6. Bytes(head, 3)
  BY <1>5
<1>7. Bytes(Cat(head, v), 3 + m) /\ Sits(Cat(head, v), 0, head, 3) /\ Sits(Cat(head, v), 3, v, m)
  BY <1>2, <1>4, <1>6, Concat
<1>8. Len(Cat(head, v)) = 3 + m
  BY <1>7 DEF Bytes
<1>9. Sits(Cat(head, v), 0 + 1, Uint16Bytes(m), 2)
  BY <1>5, <1>7, SitsDeeper
<1> QED
  BY <1>1, <1>2, <1>4, <1>7, <1>8, <1>9 DEF v, m

\* What is there of an attribute, by its header.
LEMMA AttributeHeader ==
  ASSUME NEW lead \in Nat, NEW k \in Nat, NEW n \in Nat, NEW s, NEW value, NEW b,
         Attributal(s, value, k), InRow(b, n, lead, s, k), NEW i \in 1..k,
         lead + At(s, i - 1) + 3 <= n
  PROVE  /\ Byte(b, lead + At(s, i - 1)) = s[i][1]
         /\ Uint16(b, lead + At(s, i - 1) + 1) = Len(value[i])
<1> DEFINE o == lead + At(s, i - 1)
           m == Len(value[i])
<1>1. /\ Strings(s, k) /\ m \in Nat /\ Len(s[i]) = 3 + m
      /\ IsUint16(m) /\ Sits(s[i], 1, Uint16Bytes(m), 2)
  BY AttributeShape
<1>2. At(s, i - 1) \in Nat /\ Shows(b, n, o, s[i])
  BY <1>1, RowSits
<1>3. o \in Nat /\ o + 3 <= n
  BY <1>2
<1> HIDE DEF o, m
<1>4. 1 \in 1..Len(s[i]) /\ 2 \in 1..Len(s[i]) /\ 3 \in 1..Len(s[i])
  BY <1>1
<1>5. b[o + 1] = s[i][1] /\ b[o + 2] = s[i][2] /\ b[o + 3] = s[i][3]
  BY <1>2, <1>3, <1>4 DEF Shows
<1>6. s[i][1 + 1] = Uint16Bytes(m)[1] /\ s[i][1 + 2] = Uint16Bytes(m)[2]
  BY <1>1 DEF Sits
<1>7. Sits(b, o + 1, Uint16Bytes(m), 2)
  <2>1. o + 1 + 1 = o + 2 /\ o + 1 + 2 = o + 3
    BY <1>3
  <2>2. b[o + 1 + 1] = Uint16Bytes(m)[1] /\ b[o + 1 + 2] = Uint16Bytes(m)[2]
    BY <1>5, <1>6, <2>1
  <2>3. \A j \in 1..2 : j = 1 \/ j = 2
    OBVIOUS
  <2> QED
    BY <2>2, <2>3 DEF Sits
<1>8. o + 1 \in Nat
  BY <1>3
<1>9. Uint16(b, o + 1) = m
  BY <1>1, <1>7, <1>8, Uint16At
<1> QED
  BY <1>5, <1>9 DEF Byte, o, m

LEMMA AttributesLaid ==
  ASSUME NEW lead \in Nat, NEW k \in Nat, NEW n \in Nat, NEW s, NEW value, NEW b,
         Attributal(s, value, k), InRow(b, n, lead, s, k)
  PROVE  Laid(AttributeEnds(b), Row(lead, s, k), k, n)
<1> DEFINE at == Row(lead, s, k)
           end == AttributeEnds(b)
<1>1. Strings(s, k) /\ Len(b) = n /\ n <= lead + At(s, k)
  BY DEF Attributal, InRow, Bytes
<1>2. \A i \in 0..k : At(s, i) \in Nat
  BY <1>1, FlatBytes
<1>3. at \in [0..k -> Nat] /\ \A i \in 0..k : at[i] = lead + At(s, i)
  BY <1>2 DEF Row
<1>4. DOMAIN end = 0..n
  BY <1>1 DEF AttributeEnds
<1>5. \A o \in 0..n : end[o] = IF o + 3 > n THEN n + 1 ELSE o + 3 + Uint16(b, o + 1)
  BY <1>1 DEF AttributeEnds
<1> HIDE DEF at, end
<1>6. ASSUME NEW i \in 1..k
      PROVE  /\ at[i] = at[i - 1] + 3 + Len(value[i]) /\ Len(value[i]) \in Nat
             /\ at[i - 1] + 3 <= n => Uint16(b, at[i - 1] + 1) = Len(value[i])
  <2>1. Len(value[i]) \in Nat /\ Len(s[i]) = 3 + Len(value[i])
    BY AttributeShape
  <2>2. At(s, i - 1) \in Nat /\ At(s, i) = At(s, i - 1) + Len(s[i])
    BY <1>1, RowSits
  <2>3. at[i - 1] = lead + At(s, i - 1) /\ at[i] = lead + At(s, i)
    BY <1>3
  <2>4. at[i - 1] + 3 <= n => Uint16(b, at[i - 1] + 1) = Len(value[i])
    BY <2>3, AttributeHeader
  <2> QED
    BY <2>1, <2>2, <2>3, <2>4
<1>7. ASSUME NEW i \in 0..(k - 1)
      PROVE  at[i] < at[i + 1]
  <2>1. i + 1 \in 1..k /\ i + 1 - 1 = i /\ i \in 0..k
    OBVIOUS
  <2>2. at[i + 1] = at[i] + 3 + Len(value[i + 1]) /\ Len(value[i + 1]) \in Nat
    BY <1>6, <2>1
  <2> QED
    BY <1>3, <2>1, <2>2
<1>8. ASSUME NEW i \in 0..k, at[i] <= n
      PROVE  IF i < k /\ at[i + 1] <= n THEN end[at[i]] = at[i + 1] ELSE end[at[i]] \notin 0..n
  <2>1. at[i] \in 0..n /\ at[i] \in Nat
    BY <1>3, <1>8
  <2>2. CASE i = k
    <3>1. n <= at[i]
      BY <1>1, <1>3, <2>2
    <3>2. end[at[i]] = n + 1
      BY <1>5, <2>1, <3>1
    <3> QED
      BY <2>2, <3>2
  <2>3. CASE i # k
    <3>1. i + 1 \in 1..k /\ i + 1 - 1 = i /\ i < k
      BY <2>3
    <3>2. /\ at[i + 1] = at[i] + 3 + Len(value[i + 1]) /\ Len(value[i + 1]) \in Nat
          /\ at[i] + 3 <= n => Uint16(b, at[i] + 1) = Len(value[i + 1])
      BY <1>6, <3>1
    <3>3. CASE at[i] + 3 <= n
      <4>1. end[at[i]] = at[i + 1]
        BY <1>5, <2>1, <3>2, <3>3
      <4> QED
        BY <3>1, <4>1
    <3>4. CASE ~(at[i] + 3 <= n)
      <4>1. end[at[i]] = n + 1 /\ ~(at[i + 1] <= n)
        BY <1>5, <2>1, <3>2, <3>4
      <4> QED
        BY <4>1
    <3> QED
      BY <3>3, <3>4
  <2> QED
    BY <2>2, <2>3
<1> QED
  BY <1>3, <1>4, <1>7, <1>8 DEF Laid, at, end

\* An attribute that is there as a whole is read as it was put.
LEMMA AttributeRead ==
  ASSUME NEW lead \in Nat, NEW k \in Nat, NEW n \in Nat, NEW s, NEW value, NEW b,
         Attributal(s, value, k), InRow(b, n, lead, s, k), NEW i \in 1..k, lead + At(s, i) <= n
  PROVE  /\ Byte(b, lead + At(s, i - 1)) = s[i][1]
         /\ AttributeValue(b, lead + At(s, i - 1)) = value[i]
<1> DEFINE o == lead + At(s, i - 1)
           m == Len(value[i])
<1>1. /\ Strings(s, k) /\ m \in Nat /\ Len(s[i]) = 3 + m /\ Bytes(value[i], m)
      /\ Sits(s[i], 3, value[i], m)
  BY AttributeShape
<1>2. /\ At(s, i - 1) \in Nat /\ At(s, i) = At(s, i - 1) + Len(s[i])
      /\ Shows(b, n, o, s[i])
  BY <1>1, RowSits
<1>3. o \in Nat /\ o + 3 + m <= n /\ o + 3 <= n
  <2>1. At(s, i - 1) \in Nat /\ At(s, i) = At(s, i - 1) + (3 + m) /\ m \in Nat
    BY <1>1, <1>2
  <2> HIDE DEF m
  <2> QED
    BY <2>1
<1>4. Byte(b, o) = s[i][1] /\ Uint16(b, o + 1) = m
  BY <1>3, AttributeHeader
<1> HIDE DEF o, m
<1>5. Sits(b, o + 3, value[i], m)
  <2>1. ASSUME NEW j \in 1..m
        PROVE  b[o + 3 + j] = value[i][j]
    <3>0. Len(s[i]) = 3 + m /\ m \in Nat
      BY <1>1
    <3>1. 3 + j \in 1..Len(s[i]) /\ o + (3 + j) <= n /\ o + (3 + j) = o + 3 + j
      BY <1>3, <3>0
    <3>2. s[i][3 + j] = value[i][j]
      BY <1>1 DEF Sits
    <3> QED
      BY <1>2, <3>1, <3>2 DEF Shows
  <2> QED
    BY <2>1 DEF Sits
<1>6. Bytes(b, n)
  BY DEF InRow
<1>7. Slice(b, o + 3, o + 3 + m) = value[i]
  <2>1. o + 3 \in Nat
    BY <1>3
  <2> QED
    BY <1>1, <1>3, <1>5, <1>6, <2>1, PartIs
<1> QED
  BY <1>4, <1>7 DEF AttributeValue, o

LEMMA AttributesKept ==
  ASSUME NEW lead \in Nat, NEW k \in Nat, NEW n \in Nat, NEW s, NEW value, NEW b,
         Attributal(s, value, k), InRow(b, n, lead, s, k)
  PROVE  Items(AttributeEnds(b), lead) = Starts(lead, s, {i \in 1..k : lead + At(s, i) <= n})
<1> DEFINE at == Row(lead, s, k)
<1>1. Strings(s, k)
  BY DEF Attributal
<1>2. \A i \in 0..k : at[i] = lead + At(s, i)
  BY DEF Row
<1>3. at[0] = lead
  <2>1. At(s, 0) = 0
    BY <1>1, FlatBytes
  <2> QED
    BY <1>2, <2>1
<1>4. Laid(AttributeEnds(b), at, k, n)
  BY AttributesLaid
<1> HIDE DEF at
<1>5. Items(AttributeEnds(b), at[0]) = Kept(at, k, n)
  BY <1>4, WalkItems
<1>6. \A j \in 1..k : at[j] = lead + At(s, j) /\ at[j - 1] = lead + At(s, j - 1)
  BY <1>2
<1>7. Kept(at, k, n) = {lead + At(s, i - 1) : i \in {i \in 1..k : lead + At(s, i) <= n}}
  BY <1>6, KeptInRow
<1> QED
  BY <1>3, <1>5, <1>7, Zenon DEF Starts

\* A row that ends with an ODID descriptor and the beginning of another attribute.
LEMMA OdidFound ==
  ASSUME NEW lead \in Nat, NEW k \in Nat, NEW n \in Nat, NEW s, NEW value, NEW b,
         Attributal(s, value, k), InRow(b, n, lead, s, k), 2 <= k, n < lead + At(s, k),
         NEW S \in SUBSET (0..6), s[k - 1][1] = 3, value[k - 1] = Descriptor(S, OdidService),
         \A i \in 1..(k - 2) : s[i][1] # 3 \/ ~CarriesOdid(value[i])
  PROVE  LET those == OdidDescriptors(b, lead) IN
         IF 4 \in S /\ lead + At(s, k - 1) <= n
         THEN those # {} /\ ServiceInfo(AttributeValue(b, Min(those))) = BasicId
         ELSE those = {}
<1> DEFINE W == {i \in 1..k : lead + At(s, i) <= n}
           those == OdidDescriptors(b, lead)
           J == {i \in W : i = k - 1 /\ 4 \in S}
<1>1. Strings(s, k)
  BY DEF Attributal
<1>2. Items(AttributeEnds(b), lead) = Starts(lead, s, W)
  BY AttributesKept
<1>3. ASSUME NEW i \in W
      PROVE  /\ Byte(b, lead + At(s, i - 1)) = s[i][1]
             /\ AttributeValue(b, lead + At(s, i - 1)) = value[i]
             /\ i \in 1..(k - 1)
  <2>1. i \in 1..k /\ lead + At(s, i) <= n /\ i # k
    <3>1. i \in 1..k /\ i \in 0..k /\ lead + At(s, i) <= n
      OBVIOUS
    <3>2. At(s, i) \in Nat
      BY <1>1, <3>1, FlatBytes
    <3> QED
      BY <3>1, <3>2
  <2> QED
    BY <2>1, AttributeRead
<1>4. CarriesOdid(value[k - 1]) <=> 4 \in S
  BY DescriptorRead
<1>5. ASSUME NEW i \in W
      PROVE  (s[i][1] = 3 /\ CarriesOdid(value[i])) <=> i = k - 1 /\ 4 \in S
  <2>1. CASE i = k - 1
    BY <1>4, <2>1
  <2>2. CASE i # k - 1
    <3>1. i \in 1..(k - 2)
      BY <1>3, <2>2
    <3> QED
      BY <2>2, <3>1
  <2> QED
    BY <2>1, <2>2
<1>6. J \in SUBSET (1..k)
  OBVIOUS
<1> HIDE DEF W
<1>7. those = Starts(lead, s, J)
  BY <1>2, <1>3, <1>5 DEF OdidDescriptors, Starts
<1>8. CASE 4 \in S /\ lead + At(s, k - 1) <= n
  <2>1. k - 1 \in J /\ J # {}
    BY <1>8 DEF W
  <2> DEFINE m == Min(J)
  <2>2. /\ those # {}
        /\ Min(those) = lead + At(s, m - 1) /\ m \in J
    <3> HIDE DEF J, those
    <3> QED
      BY <1>1, <1>6, <1>7, <2>1, FirstItem
  <2>3. m \in W /\ m = k - 1
    BY <2>2
  <2> HIDE DEF m, J, those
  <2>4. AttributeValue(b, Min(those)) = Descriptor(S, OdidService)
    BY <1>3, <2>2, <2>3
  <2>5. ServiceInfo(AttributeValue(b, Min(those))) = BasicId
    BY <1>8, <2>4, DescriptorRead
  <2> QED
    BY <1>8, <2>2, <2>5 DEF those
<1>9. CASE ~(4 \in S /\ lead + At(s, k - 1) <= n)
  <2>1. J = {}
    BY <1>9 DEF W
  <2>2. those = {}
    BY <1>7, <2>1 DEF Starts
  <2> QED
    BY <1>9, <2>2
<1> QED
  BY <1>8, <1>9

\* A walk that begins where an attribute overruns finds nothing.
LEMMA NothingWalked ==
  ASSUME NEW n \in Nat, NEW b, Bytes(b, n), NEW from \in Nat,
         from + 3 <= n => from + 3 + Uint16(b, from + 1) > n
  PROVE  OdidDescriptors(b, from) = {}
<1> DEFINE end == AttributeEnds(b)
<1>1. Len(b) = n
  BY DEF Bytes
<1>2. DOMAIN end = 0..n /\ \A o \in 0..n : end[o] = IF o + 3 > n THEN n + 1 ELSE o + 3 + Uint16(b, o + 1)
  BY <1>1 DEF AttributeEnds
<1> HIDE DEF end
<1>3. CASE from <= n
  <2>1. from \in 0..n
    BY <1>3
  <2>2. end[from] \notin 0..n
    BY <1>2, <2>1
  <2>3. PICK f : WalkOn(f, end) /\ Offsets(end, from) = f[from]
    BY <1>2, <2>1, OffsetsAre
  <2>4. f[from] = {from}
    BY <1>2, <2>1, <2>2, <2>3 DEF WalkOn
  <2>5. Items(end, from) = {}
    BY <1>2, <2>2, <2>3, <2>4 DEF Items
  <2> QED
    BY <2>5 DEF OdidDescriptors, end
<1>4. CASE ~(from <= n)
  <2>1. from \notin DOMAIN end
    BY <1>2, <1>4
  <2>2. Items(end, from) = {}
    BY <2>1 DEF Items, Offsets
  <2> QED
    BY <2>2 DEF OdidDescriptors, end
<1> QED
  BY <1>3, <1>4

\* Nor does one that begins a byte off the row: it takes part of the first attribute's header
\* or value for a length, which is past the end of a frame this short.
LEMMA NothingAmiss ==
  ASSUME NEW lead \in Nat, NEW k \in Nat, NEW n \in 0..250, NEW s, NEW value, NEW b,
         Attributal(s, value, k), InRow(b, n, lead, s, k), 2 <= k,
         2 <= Len(value[1]), Len(value[1]) <= 255, value[1][1] # 0
  PROVE  /\ OdidDescriptors(b, lead + 1) = {}
         /\ lead # 0 => OdidDescriptors(b, lead - 1) = {}
<1> DEFINE a == s[1]
           v == value[1]
           m == Len(v)
<1>1. 1 \in 1..k /\ n \in Nat
  OBVIOUS
<1>2. /\ Strings(s, k) /\ m \in Nat /\ Len(a) = 3 + m /\ IsUint16(m) /\ Bytes(v, m)
      /\ Sits(a, 1, Uint16Bytes(m), 2) /\ Sits(a, 3, v, m)
  BY <1>1, AttributeShape
<1>3. At(s, 0) = 0
  BY <1>2, FlatBytes
<1>4. Shows(b, n, lead, a)
  <2>1. Shows(b, n, lead + At(s, 1 - 1), a)
    BY <1>1, <1>2, RowSits
  <2> QED
    BY <1>3, <2>1
<1>5. a[1] \in Octets /\ v \in Seq(Octets)
  BY <1>1, <1>2 DEF Attributal, Bytes
<1>6. 2 <= m /\ m <= 255 /\ v[1] # 0
  OBVIOUS
<1>7. Bytes(b, n)
  BY DEF InRow
<1> HIDE DEF a, v, m
<1>8. Uint16Bytes(m)[1] = m /\ Uint16Bytes(m)[2] = 0
  <2>1. (m % 256) = m /\ m \div 256 = 0
    BY <1>2, <1>6
  <2> QED
    BY <2>1 DEF Uint16Bytes
<1>9. a[2] = m /\ a[3] = 0 /\ a[4] = v[1]
  <2>1. a[1 + 1] = Uint16Bytes(m)[1] /\ a[1 + 2] = Uint16Bytes(m)[2]
    BY <1>2 DEF Sits
  <2>2. 1 \in 1..m
    BY <1>2, <1>6
  <2>3. a[3 + 1] = v[1]
    BY <1>2, <2>2 DEF Sits
  <2> QED
    BY <1>8, <2>1, <2>3
<1>10. /\ v[1] \in Nat /\ 1 <= v[1] /\ a[1] \in Nat
  <2>1. v[1] \in Octets
    <3>1. v \in Seq(Octets) /\ Len(v) = m
      BY <1>2 DEF Bytes
    <3> QED
      BY <1>2, <1>6, <3>1
  <2>2. \A x \in Octets : x \in Nat
    BY OctetsAreNat
  <2>3. v[1] \in Nat /\ a[1] \in Nat
    BY <1>5, <2>1, <2>2
  <2> QED
    BY <1>6, <2>3
<1>11. /\ lead + 2 <= n => b[lead + 1] = a[1] /\ b[lead + 2] = m
       /\ lead + 4 <= n => b[lead + 3] = 0 /\ b[lead + 4] = v[1]
  <2>1. 1 \in 1..Len(a) /\ 2 \in 1..Len(a) /\ 3 \in 1..Len(a) /\ 4 \in 1..Len(a)
    BY <1>2, <1>6
  <2>2. /\ lead + 1 <= n => b[lead + 1] = a[1]
        /\ lead + 2 <= n => b[lead + 2] = a[2]
        /\ lead + 3 <= n => b[lead + 3] = a[3]
        /\ lead + 4 <= n => b[lead + 4] = a[4]
    BY <1>4, <2>1 DEF Shows
  <2> QED
    BY <1>1, <1>9, <2>2
<1>12. OdidDescriptors(b, lead + 1) = {}
  <2> DEFINE from == lead + 1
  <2>1. from \in Nat /\ from + 1 + 1 = lead + 3 /\ from + 1 + 1 + 1 = lead + 4
    OBVIOUS
  <2>2. Uint16(b, from + 1) = b[lead + 3] + 256 * b[lead + 4]
    BY <2>1 DEF Uint16, Byte
  <2>3. ASSUME from + 3 <= n
        PROVE  from + 3 + Uint16(b, from + 1) > n
    <3>1. lead + 4 <= n
      BY <1>1, <2>3
    <3>2. Uint16(b, from + 1) = 256 * v[1]
      BY <1>10, <1>11, <2>2, <3>1
    <3>3. 256 * v[1] >= 256 /\ 256 * v[1] \in Nat /\ n <= 250
      BY <1>10
    <3> HIDE DEF from
    <3> QED
      BY <1>1, <2>1, <3>2, <3>3
  <2> HIDE DEF from
  <2>4. OdidDescriptors(b, from) = {}
    BY <1>1, <1>7, <2>1, <2>3, NothingWalked
  <2> QED
    BY <2>4 DEF from
<1>13. ASSUME lead # 0
       PROVE  OdidDescriptors(b, lead - 1) = {}
  <2> DEFINE from == lead - 1
  <2>1. from \in Nat /\ from + 1 + 1 = lead + 1 /\ from + 1 + 1 + 1 = lead + 2
    BY <1>13
  <2>2. Uint16(b, from + 1) = b[lead + 1] + 256 * b[lead + 2]
    BY <2>1 DEF Uint16, Byte
  <2>3. ASSUME from + 3 <= n
        PROVE  from + 3 + Uint16(b, from + 1) > n
    <3>1. lead + 2 <= n
      BY <1>1, <1>13, <2>3
    <3>2. Uint16(b, from + 1) = a[1] + 256 * m
      BY <1>11, <2>2, <3>1
    <3>3. a[1] + 256 * m >= 256 /\ a[1] + 256 * m \in Nat /\ n <= 250
      BY <1>2, <1>6, <1>10
    <3> HIDE DEF from
    <3> QED
      BY <1>1, <2>1, <3>2, <3>3
  <2> HIDE DEF from
  <2>4. OdidDescriptors(b, from) = {}
    BY <1>1, <1>7, <2>1, <2>3, NothingWalked
  <2> QED
    BY <2>4 DEF from
<1> QED
  BY <1>12, <1>13

LEMMA AttributeIs ==
  ASSUME NEW id \in Octets, NEW m \in Nat, NEW v, Bytes(v, m), m <= 255
  PROVE  /\ Attribute(id, v) = Cat(Cat(<<id>>, Uint16Bytes(Len(v))), v)
         /\ Attribute(id, v)[1] = id /\ Bytes(Attribute(id, v), 3 + m)
         /\ v \in Seq(Octets) /\ Len(v) = m /\ IsUint16(Len(v))
         /\ Sits(Attribute(id, v), 3, v, m)
<1> DEFINE one == <<id>>
           size == Uint16Bytes(Len(v))
           head == Cat(one, size)
           all == Cat(head, v)
<1>1. all = Attribute(id, v)
  BY DEF Attribute, Cat
<1>2. v \in Seq(Octets) /\ Len(v) = m
  BY DEF Bytes
<1>3. IsUint16(Len(v))
  BY <1>2 DEF IsUint16
<1>4. Bytes(one, 1) /\ one[1] = id
  BY DEF Bytes
<1>5. Bytes(size, 2)
  BY <1>3, Uint16Back
<1> HIDE DEF one, size
<1>6. Bytes(head, 1 + 2) /\ Sits(head, 0, one, 1)
  BY <1>4, <1>5, Concat
<1> HIDE DEF head
<1>7. Bytes(all, 3 + m) /\ Sits(all, 0, head, 3) /\ Sits(all, 3, v, m)
  <2>1. Bytes(head, 3)
    BY <1>6
  <2> QED
    BY <2>1, Concat
<1> HIDE DEF all
<1>8. head[0 + 1] = one[1] /\ all[0 + 1] = head[1]
  BY <1>6, <1>7 DEF Sits
<1>9. all[1] = id
  BY <1>4, <1>8
<1> QED
  BY <1>1, <1>2, <1>3, <1>7, <1>9 DEF all, head, one, size

\* What is there of two strings in a row.
LEMMA ShowsCat ==
  ASSUME NEW o \in Nat, NEW p \in Nat, NEW q \in Nat, NEW s, NEW t, Bytes(s, p), Bytes(t, q),
         NEW b, NEW n \in Nat, Shows(b, n, o, s), Shows(b, n, o + p, t)
  PROVE  Shows(b, n, o, Cat(s, t))
<1>1. Bytes(Cat(s, t), p + q) /\ Sits(Cat(s, t), 0, s, p) /\ Sits(Cat(s, t), p, t, q)
  BY Concat
<1>2. Len(s) = p /\ Len(t) = q /\ Len(Cat(s, t)) = p + q
  BY <1>1 DEF Bytes
<1>3. ASSUME NEW i \in 1..(p + q), o + i <= n
      PROVE  b[o + i] = Cat(s, t)[i]
  <2>1. CASE i <= p
    <3>1. i \in 1..p /\ 0 + i = i
      BY <2>1
    <3>2. Cat(s, t)[0 + i] = s[i]
      BY <1>1, <3>1 DEF Sits
    <3> QED
      BY <1>2, <1>3, <3>1, <3>2 DEF Shows
  <2>2. CASE ~(i <= p)
    <3> DEFINE j == i - p
    <3>1. j \in 1..q /\ p + j = i /\ o + p + j = o + i
      BY <2>2
    <3> HIDE DEF j
    <3>2. Cat(s, t)[p + j] = t[j]
      BY <1>1, <3>1 DEF Sits
    <3>3. b[o + p + j] = t[j]
      BY <1>2, <1>3, <3>1 DEF Shows
    <3> QED
      BY <3>1, <3>2, <3>3
  <2> QED
    BY <2>1, <2>2
<1> QED
  BY <1>2, <1>3 DEF Shows

\* Two or three strings in a row, by where each sits.
LEMMA TwoInRow ==
  ASSUME NEW lead \in Nat, NEW p \in Nat, NEW q \in Nat, NEW s, NEW t, Bytes(s, p), Bytes(t, q),
         NEW b, NEW n \in Nat, Bytes(b, n), n <= lead + p + q,
         Shows(b, n, lead, s), Shows(b, n, lead + p, t)
  PROVE  /\ Strings(<<s, t>>, 2) /\ At(<<s, t>>, 1) = p /\ At(<<s, t>>, 2) = p + q
         /\ InRow(b, n, lead, <<s, t>>, 2)
<1> DEFINE r == <<s, t>>
<1>1. s \in Seq(Octets) /\ t \in Seq(Octets) /\ Len(s) = p /\ Len(t) = q
  BY DEF Bytes
<1>2. r \in Seq(Seq(Octets)) /\ Len(r) = 2 /\ r[1] = s /\ r[2] = t
  BY <1>1
<1> HIDE DEF r
<1>3. Strings(r, 2)
  BY <1>2 DEF Strings
<1>4. 2 \in Nat /\ 2 \in 1..2 /\ 2 - 1 = 1
  OBVIOUS
<1>5. Flat(r, 1) = s
  BY <1>2, <1>3, FlatSteps
<1>6. Flat(r, 2) = Cat(s, t)
  BY <1>2, <1>3, <1>4, <1>5, FlatCat
<1>7. Bytes(Cat(s, t), p + q) /\ Shows(b, n, lead, Cat(s, t))
  BY Concat, ShowsCat
<1>8. At(r, 1) = p /\ At(r, 2) = p + q
  BY <1>1, <1>5, <1>6, <1>7 DEF At, Bytes
<1>9. InRow(b, n, lead, r, 2)
  <2>1. n <= lead + At(r, 2)
    BY <1>8
  <2>2. \A i \in 1..At(r, 2) : lead + i <= n => b[lead + i] = Flat(r, 2)[i]
    BY <1>6, <1>7, <1>8 DEF Shows, Bytes
  <2> QED
    BY <2>1, <2>2 DEF InRow
<1> QED
  BY <1>3, <1>8, <1>9 DEF r

LEMMA ThreeInRow ==
  ASSUME NEW lead \in Nat, NEW p \in Nat, NEW q \in Nat, NEW z \in Nat, NEW s, NEW t, NEW u,
         Bytes(s, p), Bytes(t, q), Bytes(u, z),
         NEW b, NEW n \in Nat, Bytes(b, n), n <= lead + p + q + z,
         Shows(b, n, lead, s), Shows(b, n, lead + p, t), Shows(b, n, lead + p + q, u)
  PROVE  /\ Strings(<<s, t, u>>, 3) /\ At(<<s, t, u>>, 1) = p /\ At(<<s, t, u>>, 2) = p + q
         /\ At(<<s, t, u>>, 3) = p + q + z /\ InRow(b, n, lead, <<s, t, u>>, 3)
<1> DEFINE r == <<s, t, u>>
           st == Cat(s, t)
<1>1. /\ s \in Seq(Octets) /\ t \in Seq(Octets) /\ u \in Seq(Octets)
      /\ Len(s) = p /\ Len(t) = q /\ Len(u) = z
  BY DEF Bytes
<1>2. r \in Seq(Seq(Octets)) /\ Len(r) = 3 /\ r[1] = s /\ r[2] = t /\ r[3] = u
  BY <1>1
<1> HIDE DEF r
<1>3. Strings(r, 3)
  BY <1>2 DEF Strings
<1>4. 3 \in Nat /\ 2 \in 1..3 /\ 3 \in 1..3 /\ 3 - 1 = 2 /\ 2 - 1 = 1
  OBVIOUS
<1>5. Flat(r, 1) = s
  BY <1>2, <1>3, FlatSteps
<1>6. Flat(r, 2) = st
  BY <1>2, <1>3, <1>4, <1>5, FlatCat
<1>7. Flat(r, 3) = Cat(st, u)
  BY <1>2, <1>3, <1>4, <1>6, FlatCat
<1>8. Bytes(st, p + q) /\ Shows(b, n, lead, st)
  BY Concat, ShowsCat
<1> HIDE DEF st
<1> DEFINE pq == p + q
<1>9. pq \in Nat /\ lead + pq = lead + p + q /\ pq + z = p + q + z /\ Bytes(st, pq)
  BY <1>8
<1> HIDE DEF pq
<1>10. Bytes(Cat(st, u), pq + z) /\ Shows(b, n, lead, Cat(st, u))
  <2>1. Shows(b, n, lead + pq, u)
    BY <1>9
  <2> QED
    BY <1>8, <1>9, <2>1, Concat, ShowsCat
<1>11. At(r, 1) = p /\ At(r, 2) = p + q /\ At(r, 3) = p + q + z
  BY <1>1, <1>5, <1>6, <1>7, <1>8, <1>9, <1>10 DEF At, Bytes
<1>12. InRow(b, n, lead, r, 3)
  <2>1. n <= lead + At(r, 3)
    BY <1>11
  <2>2. \A i \in 1..At(r, 3) : lead + i <= n => b[lead + i] = Flat(r, 3)[i]
    BY <1>7, <1>9, <1>10, <1>11 DEF Shows, Bytes
  <2> QED
    BY <2>1, <2>2 DEF InRow
<1> QED
  BY <1>3, <1>11, <1>12 DEF r
\* What sits in a string is shown by what is left of it when it is cut.
LEMMA CutShows ==
  ASSUME NEW w, NEW m \in Nat, Bytes(w, m), NEW n \in 0..m,
         NEW o \in Nat, NEW z \in Nat, NEW t, Bytes(t, z), Sits(w, o, t, z)
  PROVE  Shows(Cut(w, n), n, o, t)
<1>1. \A i \in 1..n : Cut(w, n)[i] = w[i]
  BY CutBytes
<1>2. Len(t) = z
  BY DEF Bytes
<1>3. ASSUME NEW j \in 1..z, o + j <= n
      PROVE  Cut(w, n)[o + j] = t[j]
  <2>1. o + j \in 1..n
    BY <1>3
  <2>2. w[o + j] = t[j]
    BY DEF Sits
  <2> QED
    BY <1>1, <2>1, <2>2
<1> QED
  BY <1>2, <1>3 DEF Shows

\* The parts of a frame.
NanLead(f) == 6 + (IF f.wide THEN 1 ELSE 0)
Odid(f) == Descriptor(f.bits, OdidService)
BeforeValue(kind) == IF kind = "master" THEN <<1, 2>> ELSE Descriptor({4}, OtherService)
BeforeId(kind) == IF kind = "master" THEN 0 ELSE 3
Trail == Attribute(0, <<>>)
NanCount(f) == IF f.before = "none" THEN 2 ELSE 3
NanParts(f) ==
    IF f.before = "none" THEN <<Attribute(3, Odid(f)), Trail>>
                         ELSE <<NanBefore(f.before), Attribute(3, Odid(f)), Trail>>
NanValues(f) ==
    IF f.before = "none" THEN <<Odid(f), <<>>>> ELSE <<BeforeValue(f.before), Odid(f), <<>>>>
NanSent(f) ==
    /\ f.wide \in BOOLEAN /\ f.before \in {"none", "master", "service"}
    /\ f.bits \in SUBSET (0..6)

LEMMA TrailIs == Trail[1] = 0 /\ Bytes(Trail, 3)
<1> DEFINE nothing == <<>>
<1>1. 0 \in Octets
  BY DEF Octets
<1>2. Bytes(nothing, 0)
  BY DEF Bytes
<1> HIDE DEF nothing
<1>3. 0 \in Nat /\ 0 <= 255 /\ 3 + 0 = 3
  OBVIOUS
<1>4. Attribute(0, nothing)[1] = 0 /\ Bytes(Attribute(0, nothing), 3 + 0)
  BY <1>1, <1>2, <1>3, AttributeIs
<1> QED
  BY <1>3, <1>4 DEF Trail, nothing

LEMMA NanHeadIs ==
  ASSUME NEW f, NanSent(f)
  PROVE  /\ Bytes(NanHead(f.wide), NanLead(f)) /\ NanHead(f.wide)[1] = 4 /\ NanHead(f.wide)[6] = 19
         /\ Sits(NanHead(f.wide), 2, NanOui, 3) /\ Bytes(NanOui, 3)
<1> DEFINE p == <<4, 9>>
           last == <<19>>
           a == Cat(p, NanOui)
           b == Cat(a, last)
           h == Cat(b, Option(f.wide, <<0>>))
<1>1. h = NanHead(f.wide)
  BY DEF NanHead, Option, Cat
<1>2. Bytes(p, 2) /\ p[1] = 4 /\ Bytes(last, 1) /\ last[1] = 19 /\ Bytes(<<0>>, 1)
  BY DEF Bytes, Octets
<1>3. Bytes(NanOui, 3)
  BY DEF Bytes, Octets, NanOui
<1> HIDE DEF p, last
<1>4. Bytes(a, 2 + 3) /\ Sits(a, 0, p, 2) /\ Sits(a, 2, NanOui, 3)
  BY <1>2, <1>3, Concat
<1> HIDE DEF a
<1>5. Bytes(a, 5)
  BY <1>4
<1>6. Bytes(b, 5 + 1) /\ Sits(b, 0, a, 5) /\ Sits(b, 5, last, 1)
  BY <1>2, <1>5, Concat
<1> HIDE DEF b
<1>7. Bytes(b, 6)
  BY <1>6
<1>8. f.wide \in BOOLEAN
  BY DEF NanSent
<1>9. Bytes(h, 6 + (IF f.wide THEN 1 ELSE 0)) /\ Sits(h, 0, b, 6)
  BY <1>2, <1>7, <1>8, OptionConcat
<1> HIDE DEF h
<1>10. Sits(h, 0 + 0, a, 5)
  BY <1>6, <1>9, SitsDeeper
<1>11. Sits(h, 0 + 2, NanOui, 3)
  <2>1. Sits(h, 0, a, 5)
    BY <1>10
  <2> QED
    BY <1>4, <2>1, SitsDeeper
<1>12. h[0 + 1] = a[1] /\ a[0 + 1] = p[1] /\ h[0 + 6] = b[6] /\ b[5 + 1] = last[1]
  <2>1. h[0 + 1] = a[1]
    BY <1>10 DEF Sits
  <2>2. a[0 + 1] = p[1]
    BY <1>4 DEF Sits
  <2>3. h[0 + 6] = b[6]
    BY <1>9 DEF Sits
  <2>4. b[5 + 1] = last[1]
    BY <1>6 DEF Sits
  <2> QED
    BY <2>1, <2>2, <2>3, <2>4
<1>13. h[1] = 4 /\ h[6] = 19
  BY <1>2, <1>12
<1> QED
  BY <1>1, <1>3, <1>9, <1>11, <1>13 DEF NanLead

\* The attribute before the descriptor carries no ODID service.
LEMMA BeforeIs ==
  ASSUME NEW kind \in {"master", "service"}
  PROVE  LET v == BeforeValue(kind) IN
         /\ NanBefore(kind) = Attribute(BeforeId(kind), v) /\ BeforeId(kind) \in Octets
         /\ v \in Seq(Octets) /\ 2 <= Len(v) /\ Len(v) <= 36 /\ v[1] # 0
         /\ BeforeId(kind) # 3 \/ ~CarriesOdid(v)
<1>1. CASE kind = "master"
  <2> DEFINE v == <<1, 2>>
  <2>1. BeforeValue(kind) = v /\ BeforeId(kind) = 0 /\ NanBefore(kind) = Attribute(0, v)
    BY <1>1 DEF BeforeValue, BeforeId, NanBefore
  <2>2. v \in Seq(Octets) /\ Len(v) = 2 /\ v[1] = 1
    BY DEF Octets
  <2>3. 0 \in Octets
    BY DEF Octets
  <2> HIDE DEF v
  <2> QED
    BY <2>1, <2>2, <2>3
<1>2. CASE kind = "service"
  <2> DEFINE S == {4}
             v == Descriptor(S, OtherService)
  <2>1. BeforeValue(kind) = v /\ BeforeId(kind) = 3 /\ NanBefore(kind) = Attribute(3, v)
    BY <1>2 DEF BeforeValue, BeforeId, NanBefore
  <2>2. S \in SUBSET (0..6) /\ 4 \in S /\ 2 \notin S /\ 3 \notin S /\ 6 \notin S
    OBVIOUS
  <2> HIDE DEF S
  <2>3. InfoEnd(S) = 36
    BY <2>2 DEF InfoEnd, BindingEnd, FilterEnd, BitmapEnd
  <2>4. Bytes(v, 36) /\ Sits(v, 0, OtherService, 6)
    BY <2>2, <2>3, ServicesDiffer, DescriptorShape
  <2>5. ~CarriesOdid(v)
    BY <2>2, DescriptorRead
  <2> HIDE DEF v
  <2>6. v \in Seq(Octets) /\ Len(v) = 36
    BY <2>4 DEF Bytes
  <2>7. v[0 + 1] = OtherService[1]
    BY <2>4 DEF Sits
  <2>8. v[1] = 1
    BY <2>7 DEF OtherService
  <2>9. 3 \in Octets
    BY DEF Octets
  <2> QED
    BY <2>1, <2>5, <2>6, <2>8, <2>9
<1> QED
  BY <1>1, <1>2

BeforeLen(f) == IF f.before = "none" THEN 0 ELSE 3 + Len(BeforeValue(f.before))
MainLen(f) == 3 + InfoEnd(f.bits)

LEMMA NanLengths ==
  ASSUME NEW f, NanSent(f)
  PROVE  /\ NanLead(f) \in {6, 7} /\ NanLead(f) \in Nat
         /\ BeforeLen(f) \in 0..39 /\ BeforeLen(f) \in Nat /\ Bytes(NanBefore(f.before), BeforeLen(f))
         /\ MainLen(f) \in 0..46 /\ MainLen(f) \in Nat /\ 9 <= MainLen(f)
         /\ Bytes(Odid(f), InfoEnd(f.bits)) /\ InfoEnd(f.bits) \in 9..43
         /\ Bytes(Attribute(3, Odid(f)), MainLen(f)) /\ Attribute(3, Odid(f))[1] = 3
         /\ Sits(Attribute(3, Odid(f)), 3, Odid(f), InfoEnd(f.bits))
         /\ Attribute(3, Odid(f)) = Cat(Cat(<<3>>, Uint16Bytes(Len(Odid(f)))), Odid(f))
<1> DEFINE bits == f.bits
           d == Odid(f)
           before == f.before
<1>1. bits \in SUBSET (0..6) /\ before \in {"none", "master", "service"}
  BY DEF NanSent
<1>2. NanLead(f) \in {6, 7} /\ NanLead(f) \in Nat
  BY DEF NanLead
<1>3. InfoEnd(bits) \in Nat /\ 9 <= InfoEnd(bits) /\ InfoEnd(bits) <= 43
  <2>1. BitmapEnd(bits) \in {9, 11}
    BY FieldEnds
  <2> QED
    BY <2>1, FieldEnds
<1>4. Bytes(d, InfoEnd(bits))
  BY <1>1, ServicesDiffer, DescriptorShape DEF Odid
<1>5. MainLen(f) = 3 + InfoEnd(bits)
  BY DEF MainLen
<1>6. BeforeLen(f) = IF before = "none" THEN 0 ELSE 3 + Len(BeforeValue(before))
  BY DEF BeforeLen
<1> HIDE DEF bits, d, before
<1>7. 3 \in Octets
  BY DEF Octets
<1>8. /\ Attribute(3, d) = Cat(Cat(<<3>>, Uint16Bytes(Len(d))), d)
      /\ Attribute(3, d)[1] = 3 /\ Bytes(Attribute(3, d), 3 + InfoEnd(bits))
      /\ Sits(Attribute(3, d), 3, d, InfoEnd(bits))
  <2>1. InfoEnd(bits) <= 255
    BY <1>3
  <2> QED
    BY <1>3, <1>4, <1>7, <2>1, AttributeIs
<1>9. BeforeLen(f) \in 0..39 /\ Bytes(NanBefore(before), BeforeLen(f))
  <2>1. CASE before = "none"
    <3>1. NanBefore(before) = <<>>
      BY <2>1 DEF NanBefore
    <3>2. Bytes(<<>>, 0)
      BY DEF Bytes
    <3>3. BeforeLen(f) = 0
      BY <1>6, <2>1
    <3> QED
      BY <3>1, <3>2, <3>3
  <2>2. CASE before # "none"
    <3> DEFINE v == BeforeValue(before)
               id == BeforeId(before)
               m == Len(v)
    <3>1. /\ NanBefore(before) = Attribute(id, v) /\ id \in Octets
          /\ v \in Seq(Octets) /\ 2 <= m /\ m <= 36
      BY <1>1, <2>2, BeforeIs
    <3>2. Bytes(v, m) /\ m \in Nat
      BY <3>1 DEF Bytes
    <3>3. BeforeLen(f) = 3 + m
      BY <1>6, <2>2
    <3> HIDE DEF v, id, m
    <3>4. m <= 255
      BY <3>1, <3>2
    <3>5. Bytes(Attribute(id, v), 3 + m)
      BY <3>1, <3>2, <3>4, AttributeIs
    <3> QED
      BY <3>1, <3>2, <3>3, <3>5
  <2> QED
    BY <2>1, <2>2
<1>10. InfoEnd(bits) \in 9..43 /\ MainLen(f) \in 0..46 /\ MainLen(f) \in Nat /\ 9 <= MainLen(f)
  BY <1>3, <1>5
<1>11. BeforeLen(f) \in Nat
  BY <1>9
<1>12. Bytes(Attribute(3, d), MainLen(f))
  BY <1>5, <1>8
<1> QED
  BY <1>2, <1>4, <1>8, <1>9, <1>10, <1>11, <1>12, Zenon DEF bits, d, before

\* A frame, cut, shows its head, the attribute before the descriptor and the descriptor.
LEMMA NanShows ==
  ASSUME NEW f, NanSent(f), NEW n \in 0..(Len(NanBody(f)) + 1)
  PROVE  LET b == Cut(NanBody(f) \o <<0>>, n)
             at == NanLead(f) + BeforeLen(f)
         IN /\ Len(NanBody(f)) = at + MainLen(f) /\ n \in Nat /\ Bytes(b, n)
            /\ Shows(b, n, 0, NanHead(f.wide)) /\ Shows(b, n, NanLead(f), NanBefore(f.before))
            /\ Shows(b, n, at, Attribute(3, Odid(f))) /\ Shows(b, n, at + MainLen(f), Trail)
<1> DEFINE head == NanHead(f.wide)
           before == NanBefore(f.before)
           main == Attribute(3, Odid(f))
           lead == NanLead(f)
           p == BeforeLen(f)
           q == MainLen(f)
           x == Cat(head, before)
           y == Cat(x, main)
           w == Cat(y, <<0>>)
<1>1. y = NanBody(f) /\ w = NanBody(f) \o <<0>>
  BY DEF NanBody, Cat, Odid
<1>2. /\ Bytes(head, lead) /\ Bytes(before, p) /\ Bytes(main, q)
      /\ lead \in Nat /\ p \in Nat /\ q \in Nat
  BY NanHeadIs, NanLengths
<1>3. Bytes(<<0>>, 1) /\ Trail[1] = 0 /\ Bytes(Trail, 3)
  <2>1. Bytes(<<0>>, 1)
    BY DEF Bytes, Octets
  <2> QED
    BY <2>1, TrailIs
<1> HIDE DEF head, before, main, lead, p, q
<1>4. Bytes(x, lead + p) /\ Sits(x, 0, head, lead) /\ Sits(x, lead, before, p)
  BY <1>2, Concat
<1> HIDE DEF x
<1> DEFINE at == lead + p
<1>5. at \in Nat /\ Bytes(x, at)
  BY <1>2, <1>4
<1>6. 0 + 0 = 0 /\ 0 + lead = lead /\ lead + p <= at /\ 0 + lead <= at /\ at + q \in Nat /\ 0 + at = at
  BY <1>2
<1> HIDE DEF at
<1>7. Bytes(y, at + q) /\ Sits(y, 0, x, at) /\ Sits(y, at, main, q)
  BY <1>2, <1>5, Concat
<1> HIDE DEF y
<1> DEFINE l == at + q
<1>8. Len(y) = l /\ l \in Nat /\ Bytes(y, l) /\ at + q <= l
  BY <1>6, <1>7 DEF Bytes
<1>9. Bytes(w, l + 1) /\ Sits(w, 0, y, l) /\ Sits(w, l, <<0>>, 1)
  BY <1>3, <1>8, Concat
<1> HIDE DEF w
<1>10. Sits(w, 0, x, at)
  <2>1. 0 + at <= l
    BY <1>2, <1>5
  <2>2. Sits(w, 0 + 0, x, at)
    BY <1>5, <1>7, <1>8, <1>9, <2>1, SitsDeeper
  <2> QED
    BY <2>2
<1>11. Sits(w, at, main, q)
  <2>1. Sits(w, 0 + at, main, q)
    BY <1>2, <1>5, <1>7, <1>8, <1>9, SitsDeeper
  <2> QED
    BY <1>6, <2>1
<1>12. Sits(w, 0, head, lead) /\ Sits(w, lead, before, p)
  <2>1. Sits(w, 0 + 0, head, lead)
    BY <1>2, <1>4, <1>5, <1>6, <1>10, SitsDeeper
  <2>2. Sits(w, 0 + lead, before, p)
    BY <1>2, <1>4, <1>5, <1>6, <1>10, SitsDeeper
  <2> QED
    BY <1>6, <2>1, <2>2
<1> DEFINE b == Cut(w, n)
<1>13. n \in 0..(l + 1) /\ l + 1 \in Nat /\ n \in Nat
  BY <1>1, <1>8
<1> HIDE DEF l
<1>14. Bytes(b, n)
  BY <1>9, <1>13, CutBytes
<1>15. /\ Shows(b, n, 0, head) /\ Shows(b, n, lead, before) /\ Shows(b, n, at, main)
       /\ Shows(b, n, l, <<0>>)
  BY <1>2, <1>3, <1>5, <1>8, <1>9, <1>11, <1>12, <1>13, CutShows
<1>16. Shows(b, n, l, Trail)
  <2>1. Len(Trail) = 3 /\ Len(<<0>>) = 1
    BY <1>3 DEF Bytes
  <2>2. \A j \in 1..3 : l + j <= n => j = 1
    BY <1>8, <1>13
  <2>3. l + 1 <= n => b[l + 1] = <<0>>[1]
    BY <1>15, <2>1 DEF Shows
  <2> QED
    BY <1>3, <2>1, <2>2, <2>3 DEF Shows
<1> QED
  BY <1>1, <1>8, <1>13, <1>14, <1>15, <1>16 DEF b, l, at, lead, p, q, head, before, main

LEMMA NanLaid ==
  ASSUME NEW f, NanSent(f), NEW n \in 0..(Len(NanBody(f)) + 1)
  PROVE  LET b == Cut(NanBody(f) \o <<0>>, n)
             s == NanParts(f)
             k == NanCount(f)
         IN /\ k \in Nat /\ 2 <= k /\ Strings(s, k) /\ InRow(b, n, NanLead(f), s, k)
            /\ At(s, k - 1) = BeforeLen(f) + MainLen(f)
            /\ At(s, k) = BeforeLen(f) + MainLen(f) + 3
<1> DEFINE b == Cut(NanBody(f) \o <<0>>, n)
           before == NanBefore(f.before)
           main == Attribute(3, Odid(f))
           lead == NanLead(f)
           p == BeforeLen(f)
           q == MainLen(f)
<1>1. /\ Bytes(before, p) /\ Bytes(main, q)
      /\ lead \in Nat /\ p \in Nat /\ q \in Nat
  BY NanLengths
<1>2. /\ Len(NanBody(f)) = lead + p + q /\ n \in Nat /\ Bytes(b, n)
      /\ Shows(b, n, lead, before) /\ Shows(b, n, lead + p, main) /\ Shows(b, n, lead + p + q, Trail)
  BY NanShows
<1>3. Bytes(Trail, 3)
  BY TrailIs
<1>4. f.before = "none" => p = 0
  BY DEF BeforeLen
<1> HIDE DEF b, before, main, lead, p, q
<1>5. n <= lead + p + q + 3
  BY <1>1, <1>2
<1>6. CASE f.before = "none"
  <2> DEFINE s == <<main, Trail>>
  <2>1. NanParts(f) = s /\ NanCount(f) = 2
    BY <1>6 DEF NanParts, NanCount, main
  <2>2. p = 0 /\ lead + p = lead /\ lead + p + q = lead + q
    BY <1>1, <1>4, <1>6
  <2>3. /\ Strings(s, 2) /\ At(s, 1) = q /\ At(s, 2) = q + 3 /\ InRow(b, n, lead, s, 2)
    <3>1. Shows(b, n, lead, main) /\ Shows(b, n, lead + q, Trail) /\ n <= lead + q + 3
      BY <1>2, <1>5, <2>2
    <3> HIDE DEF s
    <3> QED
      BY <1>1, <1>2, <1>3, <3>1, TwoInRow DEF s
  <2> HIDE DEF s
  <2>4. 2 \in Nat /\ 2 <= 2 /\ 2 - 1 = 1 /\ q = p + q /\ q + 3 = p + q + 3
    BY <1>1, <2>2
  <2> QED
    BY <2>1, <2>3, <2>4 DEF b, lead, p, q
<1>7. CASE f.before # "none"
  <2> DEFINE s == <<before, main, Trail>>
  <2>1. NanParts(f) = s /\ NanCount(f) = 3
    BY <1>7 DEF NanParts, NanCount, main, before
  <2>2. /\ Strings(s, 3) /\ At(s, 2) = p + q /\ At(s, 3) = p + q + 3 /\ InRow(b, n, lead, s, 3)
    BY <1>1, <1>2, <1>3, <1>5, ThreeInRow
  <2> HIDE DEF s
  <2>3. 3 \in Nat /\ 2 <= 3 /\ 3 - 1 = 2
    OBVIOUS
  <2> QED
    BY <2>1, <2>2, <2>3 DEF b, lead, p, q
<1> QED
  BY <1>6, <1>7

\* The parts are attributes; the first has two bytes at least, and none before the descriptor
\* carries the ODID service.
LEMMA NanAttributal ==
  ASSUME NEW f, NanSent(f), Strings(NanParts(f), NanCount(f))
  PROVE  LET s == NanParts(f)
             value == NanValues(f)
             k == NanCount(f)
         IN /\ Attributal(s, value, k)
            /\ s[k - 1][1] = 3 /\ value[k - 1] = Odid(f)
            /\ \A i \in 1..(k - 2) : s[i][1] # 3 \/ ~CarriesOdid(value[i])
            /\ 2 <= Len(value[1]) /\ Len(value[1]) <= 255 /\ value[1][1] # 0
<1> DEFINE d == Odid(f)
           main == Attribute(3, d)
           m == InfoEnd(f.bits)
           Fits(t, v) == /\ v \in Seq(Octets) /\ IsUint16(Len(v)) /\ t[1] \in Octets
                         /\ t = Cat(Cat(<<t[1]>>, Uint16Bytes(Len(v))), v)
<1>1. m \in 9..43 /\ Bytes(d, m)
  BY NanLengths
<1>2. d[1] = 136
  <2>1. Sits(d, 0, OdidService, 6)
    BY ServicesDiffer, DescriptorShape DEF Odid, NanSent
  <2>2. d[0 + 1] = OdidService[1]
    BY <2>1 DEF Sits
  <2> QED
    BY <2>2 DEF OdidService
<1> HIDE DEF d, m
<1>3. 3 \in Octets /\ 0 \in Octets
  BY DEF Octets
<1>4. \A id \in Octets : \A v : (v \in Seq(Octets) /\ Len(v) <= 255)
         => Fits(Attribute(id, v), v) /\ Attribute(id, v)[1] = id
  <2> SUFFICES ASSUME NEW id \in Octets, NEW v, v \in Seq(Octets), Len(v) <= 255
               PROVE  Fits(Attribute(id, v), v) /\ Attribute(id, v)[1] = id
    OBVIOUS
  <2>1. Len(v) \in Nat /\ Bytes(v, Len(v))
    BY DEF Bytes
  <2>2. /\ Attribute(id, v) = Cat(Cat(<<id>>, Uint16Bytes(Len(v))), v)
        /\ Attribute(id, v)[1] = id /\ IsUint16(Len(v))
    BY <2>1, AttributeIs
  <2> QED
    BY <2>2
<1>5. d \in Seq(Octets) /\ Len(d) = m /\ 2 <= Len(d) /\ Len(d) <= 255
  BY <1>1 DEF Bytes
<1>6. Fits(main, d) /\ main[1] = 3
  BY <1>3, <1>4, <1>5
<1>7. Fits(Trail, <<>>)
  <2>1. <<>> \in Seq(Octets) /\ Len(<<>>) <= 255
    OBVIOUS
  <2> QED
    BY <1>3, <1>4, <2>1 DEF Trail
<1> HIDE DEF Fits, main
<1>8. CASE f.before = "none"
  <2>1. NanParts(f) = <<main, Trail>> /\ NanCount(f) = 2 /\ NanValues(f) = <<d, <<>>>>
    BY <1>8 DEF NanParts, NanCount, NanValues, main, d
  <2>2. /\ NanParts(f)[1] = main /\ NanParts(f)[2] = Trail
        /\ NanValues(f)[1] = d /\ NanValues(f)[2] = <<>>
    BY <2>1
  <2>3. \A i \in 1..2 : Fits(NanParts(f)[i], NanValues(f)[i])
    <3>1. \A i \in 1..2 : i = 1 \/ i = 2
      OBVIOUS
    <3> QED
      BY <1>6, <1>7, <2>2, <3>1
  <2>4. Attributal(NanParts(f), NanValues(f), 2)
    BY <2>1, <2>3 DEF Attributal, Fits
  <2>5. 2 - 1 = 1 /\ \A i \in 1..(2 - 2) : FALSE
    OBVIOUS
  <2>6. d[1] # 0
    BY <1>2
  <2> QED
    BY <1>5, <1>6, <2>1, <2>2, <2>4, <2>5, <2>6 DEF d
<1>9. CASE f.before # "none"
  <2> DEFINE before == NanBefore(f.before)
             v == BeforeValue(f.before)
             id == BeforeId(f.before)
  <2>0. f.before \in {"master", "service"}
    BY <1>9 DEF NanSent
  <2>1. /\ before = Attribute(id, v) /\ id \in Octets
        /\ v \in Seq(Octets) /\ 2 <= Len(v) /\ Len(v) <= 36 /\ v[1] # 0
        /\ id # 3 \/ ~CarriesOdid(v)
    BY <2>0, BeforeIs
  <2>2. NanParts(f) = <<before, main, Trail>> /\ NanCount(f) = 3 /\ NanValues(f) = <<v, d, <<>>>>
    BY <1>9 DEF NanParts, NanCount, NanValues, main, d
  <2> HIDE DEF before, v, id
  <2>3. /\ NanParts(f)[1] = before /\ NanParts(f)[2] = main /\ NanParts(f)[3] = Trail
        /\ NanValues(f)[1] = v /\ NanValues(f)[2] = d /\ NanValues(f)[3] = <<>>
    BY <2>2
  <2>4. Len(v) <= 255
    BY <2>1
  <2>5. Fits(before, v) /\ before[1] = id
    BY <1>4, <2>1, <2>4
  <2>6. \A i \in 1..3 : Fits(NanParts(f)[i], NanValues(f)[i])
    <3>1. \A i \in 1..3 : i = 1 \/ i = 2 \/ i = 3
      OBVIOUS
    <3> QED
      BY <1>6, <1>7, <2>3, <2>5, <3>1
  <2>7. Attributal(NanParts(f), NanValues(f), 3)
    BY <2>2, <2>6 DEF Attributal, Fits
  <2>8. 3 - 1 = 2 /\ \A i \in 1..(3 - 2) : i = 1
    OBVIOUS
  <2>9. \A i \in 1..(3 - 2) : NanParts(f)[i][1] # 3 \/ ~CarriesOdid(NanValues(f)[i])
    BY <2>1, <2>3, <2>5, <2>8
  <2> QED
    BY <1>6, <2>1, <2>2, <2>3, <2>4, <2>7, <2>8, <2>9 DEF d
<1> QED
  BY <1>8, <1>9

\* The last whole attribute is an ODID descriptor with the fields S, none before it is one.
OdidLast(s, value, k, S) ==
    /\ S \in SUBSET (0..6) /\ s[k - 1][1] = 3 /\ value[k - 1] = Descriptor(S, OdidService)
    /\ \A i \in 1..(k - 2) : s[i][1] # 3 \/ ~CarriesOdid(value[i])

OdidShown(b, lead, S, end, n) ==
    LET those == OdidDescriptors(b, lead) IN
    IF 4 \in S /\ end <= n
    THEN those # {} /\ ServiceInfo(AttributeValue(b, Min(those))) = BasicId
    ELSE those = {}

LEMMA OdidLastShown ==
  ASSUME NEW lead \in Nat, NEW k \in Nat, NEW n \in Nat, NEW s, NEW value, NEW b, NEW S,
         Attributal(s, value, k), InRow(b, n, lead, s, k), 2 <= k, n < lead + At(s, k),
         OdidLast(s, value, k, S)
  PROVE  OdidShown(b, lead, S, lead + At(s, k - 1), n)
<1>1. /\ S \in SUBSET (0..6) /\ s[k - 1][1] = 3 /\ value[k - 1] = Descriptor(S, OdidService)
      /\ \A i \in 1..(k - 2) : s[i][1] # 3 \/ ~CarriesOdid(value[i])
  BY DEF OdidLast
<1> QED
  BY <1>1, OdidFound DEF OdidShown

\* Wherever a frame was cut, the walk finds what it carries, in either layout.
LEMMA NanWalked ==
  ASSUME NEW f, NanSent(f), NEW n \in 0..(Len(NanBody(f)) + 1)
  PROVE  LET b == Cut(NanBody(f) \o <<0>>, n) IN
         ExtractNanOdid(b) = IF 4 \in f.bits /\ n >= Len(NanBody(f)) THEN BasicId ELSE None
<1> DEFINE b == Cut(NanBody(f) \o <<0>>, n)
           s == NanParts(f)
           value == NanValues(f)
           k == NanCount(f)
           lead == NanLead(f)
           bits == f.bits
           len == Len(NanBody(f))
           those == OdidDescriptors(b, lead)
           p == BeforeLen(f)
           q == MainLen(f)
<1>1. /\ lead \in {6, 7} /\ lead \in Nat
      /\ p \in 0..39 /\ q \in 0..46
      /\ len = lead + p + q /\ n \in Nat
  BY NanLengths, NanShows
<1>2. /\ k \in Nat /\ 2 <= k /\ Strings(s, k) /\ InRow(b, n, lead, s, k)
      /\ At(s, k - 1) = p + q
      /\ At(s, k) = p + q + 3
  BY NanLaid
<1>3. /\ Attributal(s, value, k)
      /\ s[k - 1][1] = 3 /\ value[k - 1] = Descriptor(bits, OdidService)
      /\ \A i \in 1..(k - 2) : s[i][1] # 3 \/ ~CarriesOdid(value[i])
      /\ 2 <= Len(value[1]) /\ Len(value[1]) <= 255 /\ value[1][1] # 0
  BY <1>2, NanAttributal DEF Odid
<1>4. bits \in SUBSET (0..6)
  BY DEF NanSent
<1>5. n <= len + 1
  BY <1>1
<1> HIDE DEF b, s, value, k, lead, bits, len, p, q
<1>6. /\ lead + At(s, k - 1) = len /\ n < lead + At(s, k) /\ n \in 0..250 /\ lead # 0
  <2>1. lead <= 7 /\ lead # 0 /\ p \in Nat /\ p <= 39 /\ q \in Nat /\ q <= 46
    BY <1>1
  <2>2. lead + (p + q) = len /\ n < lead + (p + q + 3)
    BY <1>1, <1>5, <2>1
  <2>3. n <= 250
    BY <1>1, <1>5, <2>1
  <2> QED
    BY <1>1, <1>2, <2>1, <2>2, <2>3
<1>7. IF 4 \in bits /\ len <= n
      THEN those # {} /\ ServiceInfo(AttributeValue(b, Min(those))) = BasicId
      ELSE those = {}
  <2>1. n < lead + At(s, k) /\ n \in Nat
    BY <1>1, <1>6
  <2>2. IF 4 \in bits /\ lead + At(s, k - 1) <= n
        THEN those # {} /\ ServiceInfo(AttributeValue(b, Min(those))) = BasicId
        ELSE those = {}
    <3>1. OdidLast(s, value, k, bits)
      BY <1>3, <1>4 DEF OdidLast
    <3>2. OdidShown(b, lead, bits, lead + At(s, k - 1), n)
      BY <1>1, <1>2, <1>3, <2>1, <3>1, OdidLastShown
    <3> QED
      BY <3>2 DEF OdidShown
  <2> QED
    BY <1>6, <2>2
<1>8. OdidDescriptors(b, lead + 1) = {} /\ OdidDescriptors(b, lead - 1) = {}
  BY <1>1, <1>2, <1>3, <1>6, NothingAmiss
<1>9. (IF OdidDescriptors(b, 6) # {} THEN OdidDescriptors(b, 6) ELSE OdidDescriptors(b, 7)) = those
  <2>1. CASE lead = 6
    <3>1. lead + 1 = 7
      BY <2>1
    <3>2. OdidDescriptors(b, 7) = {}
      BY <1>8, <3>1
    <3>3. those = OdidDescriptors(b, 6)
      BY <2>1
    <3> HIDE DEF those
    <3> QED
      BY <3>2, <3>3
  <2>2. CASE lead = 7
    <3>1. lead - 1 = 6
      BY <2>2
    <3>2. OdidDescriptors(b, 6) = {}
      BY <1>8, <3>1
    <3>3. those = OdidDescriptors(b, 7)
      BY <2>2
    <3> HIDE DEF those
    <3> QED
      BY <3>2, <3>3
  <2> QED
    BY <1>1, <2>1, <2>2
<1> HIDE DEF those
<1>10. ExtractNanOdid(b) = IF those = {} THEN None ELSE ServiceInfo(AttributeValue(b, Min(those)))
  BY <1>9 DEF ExtractNanOdid
<1>11. len <= n <=> n >= len
  OBVIOUS
<1> QED
  BY <1>7, <1>10, <1>11 DEF b, bits, len

\* A whole frame with a service info is recognized for what it is.
LEMMA NanRecognized ==
  ASSUME NEW f, NanSent(f), NEW n \in 0..(Len(NanBody(f)) + 1), n >= Len(NanBody(f))
  PROVE  IsNanAction(Cut(NanBody(f) \o <<0>>, n))
<1> DEFINE b == Cut(NanBody(f) \o <<0>>, n)
           head == NanHead(f.wide)
           main == Attribute(3, Odid(f))
           lead == NanLead(f)
           d == Odid(f)
           m == InfoEnd(f.bits)
           len == Len(NanBody(f))
           at == lead + BeforeLen(f)
<1>1. /\ lead \in {6, 7} /\ BeforeLen(f) \in 0..39 /\ m \in 9..43
      /\ Bytes(d, m) /\ Bytes(main, 3 + m) /\ Sits(main, 3, d, m)
  BY NanLengths DEF MainLen
<1>2. len = at + MainLen(f) /\ Bytes(b, n) /\ n \in Nat /\ Shows(b, n, 0, head) /\ Shows(b, n, at, main)
  BY NanShows
<1>3. MainLen(f) = 3 + m
  BY DEF MainLen
<1>4. Bytes(head, lead) /\ head[1] = 4 /\ head[6] = 19 /\ Sits(head, 2, NanOui, 3) /\ Bytes(NanOui, 3)
  BY NanHeadIs
<1>5. Sits(d, 0, OdidService, 6)
  BY ServicesDiffer, DescriptorShape DEF Odid, NanSent
<1>6. n >= len
  OBVIOUS
<1>7. at \in 0..46
  <2> DEFINE p == BeforeLen(f)
  <2>1. p \in 0..39 /\ lead \in {6, 7}
    BY <1>1
  <2>2. at = lead + p
    OBVIOUS
  <2> HIDE DEF p, lead, at
  <2> QED
    BY <2>1, <2>2
<1> HIDE DEF b, head, main, lead, d, m, len, at
<1>8. at + 3 + m <= n /\ 9 <= m /\ m \in Nat /\ at \in Nat /\ at <= 46
  BY <1>1, <1>2, <1>3, <1>6, <1>7
<1>9. Len(b) = n /\ Len(head) = lead /\ Len(main) = 3 + m /\ 6 <= n
  BY <1>1, <1>2, <1>4, <1>8 DEF Bytes
<1>10. Byte(b, 0) = 4 /\ Byte(b, 5) = 19
  <2>1. 1 \in 1..lead /\ 6 \in 1..lead
    BY <1>1
  <2>2. b[0 + 1] = head[1] /\ b[0 + 6] = head[6]
    BY <1>2, <1>9, <2>1 DEF Shows
  <2> QED
    BY <1>4, <2>2 DEF Byte
<1>11. Slice(b, 2, 5) = NanOui
  <2>1. ASSUME NEW i \in 1..3
        PROVE  b[2 + i] = NanOui[i]
    <3>1. 2 + i \in 1..lead /\ 0 + (2 + i) = 2 + i /\ 2 + i <= n
      BY <1>1, <1>9
    <3>2. b[0 + (2 + i)] = head[2 + i]
      BY <1>2, <1>9, <3>1 DEF Shows
    <3>3. head[2 + i] = NanOui[i]
      BY <1>4 DEF Sits
    <3> QED
      BY <3>1, <3>2, <3>3
  <2>2. Sits(b, 2, NanOui, 3)
    BY <2>1 DEF Sits
  <2>3. 2 + 3 <= n /\ 2 + 3 = 5
    BY <1>9
  <2>4. Slice(b, 2, 2 + 3) = NanOui
    BY <1>2, <1>4, <2>2, <2>3, PartIs
  <2> QED
    BY <2>3, <2>4
<1>12. Slice(b, at + 3, at + 3 + 6) = OdidService
  <2>1. ASSUME NEW i \in 1..6
        PROVE  b[at + 3 + i] = OdidService[i]
    <3>1. i \in 1..m /\ 3 + i \in 1..(3 + m) /\ at + (3 + i) = at + 3 + i /\ at + (3 + i) <= n
      BY <1>2, <1>8
    <3>2. b[at + (3 + i)] = main[3 + i]
      BY <1>2, <1>9, <3>1 DEF Shows
    <3>3. main[3 + i] = d[i]
      BY <1>1, <3>1 DEF Sits
    <3>4. d[0 + i] = OdidService[i]
      BY <1>5 DEF Sits
    <3> QED
      BY <3>1, <3>2, <3>3, <3>4
  <2>2. Sits(b, at + 3, OdidService, 6)
    BY <2>1 DEF Sits
  <2>3. at + 3 \in Nat /\ at + 3 + 6 <= n
    BY <1>2, <1>8
  <2> QED
    BY <1>2, <2>2, <2>3, ServicesDiffer, PartIs
<1>13. \E i \in 0..58 : Slice(b, i, i + 6) = OdidService
  <2>1. at + 3 \in 0..58
    BY <1>7
  <2> QED
    BY <1>12, <2>1
<1> QED
  BY <1>9, <1>10, <1>11, <1>13 DEF IsNanAction, b

\* In either layout, behind any of the attributes of NanBefore, whichever fields it has and
\* wherever the frame was cut, the descriptor's service info is found when there is one
\* (wifi_feeder.py:543-643).
THEOREM NanIsFound == Spec => []NanFound
<1>1. Init => NanFound
  BY DEF Init, NanFound
<1>2. ASSUME NanFound, [Next]_rx
      PROVE  NanFound'
  <2>1. CASE ReceiveNan
    <3> DEFINE frames == [wide : BOOLEAN, before : {"none", "master", "service"}, bits : SUBSET {2, 3, 4, 6}]
               outcome(b) == IF IsNanAction(b) THEN ExtractNanOdid(b) ELSE None
    <3>1. PICK f \in frames : \E n \in 0..(Len(NanBody(f)) + 1) :
              rx' = [path |-> "nan", input |-> [frame |-> f, n |-> n],
                     output |-> outcome(Cut(NanBody(f) \o <<0>>, n))]
      BY <2>1 DEF ReceiveNan, Expect
    <3>2. PICK n \in 0..(Len(NanBody(f)) + 1) :
              rx' = [path |-> "nan", input |-> [frame |-> f, n |-> n],
                     output |-> outcome(Cut(NanBody(f) \o <<0>>, n))]
      BY <3>1
    <3>3. NanSent(f)
      <4>1. f.wide \in BOOLEAN /\ f.before \in {"none", "master", "service"} /\ f.bits \in SUBSET {2, 3, 4, 6}
        BY <3>1
      <4>2. f.bits \in SUBSET (0..6)
        BY <4>1
      <4> QED
        BY <4>1, <4>2 DEF NanSent
    <3> DEFINE b == Cut(NanBody(f) \o <<0>>, n)
               there == 4 \in f.bits /\ n >= Len(NanBody(f))
    <3>4. ExtractNanOdid(b) = IF there THEN BasicId ELSE None
      BY <3>2, <3>3, NanWalked
    <3>5. there => IsNanAction(b)
      BY <3>2, <3>3, NanRecognized
    <3>6. outcome(b) = IF there THEN BasicId ELSE None
      <4> HIDE DEF b, there
      <4> QED
        BY <3>4, <3>5
    <3>7. rx'.input.frame = f /\ rx'.input.n = n /\ rx'.output = outcome(b)
      BY <3>2
    <3> HIDE DEF outcome, b
    <3> QED
      BY <3>6, <3>7 DEF NanFound
  <2>2. CASE ReceiveBeacon \/ ReceiveFrench \/ ReceivePack \/ ReceiveLocation \/ ReceiveTap \/ ReceiveSent
    BY <2>2, Paths DEF NanFound
  <2>3. CASE UNCHANGED rx
    BY <1>2, <2>3 DEF NanFound
  <2> QED
    BY <1>2, <2>1, <2>2, <2>3 DEF Next
<1> QED
  BY <1>1, <1>2, PTL DEF Spec
-----------------------------------------------------------------------------
(* One payload over every transport.                                        *)

LEMMA BytesAreInts ==
  ASSUME NEW s \in Seq(Octets)
  PROVE  s \in Seq(Int)
<1>1. \A i \in 1..Len(s) : s[i] \in Int
  <2>1. ASSUME NEW i \in 1..Len(s) PROVE s[i] \in Octets
    BY ElementOfSeq
  <2>2. \A x \in Octets : x \in Int
    BY DEF Octets
  <2> QED
    BY <2>1, <2>2
<1>2. s = [i \in 1..Len(s) |-> s[i]] /\ Len(s) \in Nat
  OBVIOUS
<1> QED
  BY <1>1, <1>2, IsASeq

LEMMA TrimmedBytes ==
  ASSUME NEW n \in Nat, NEW s, Bytes(s, n)
  PROVE  Trimmed(s) \in Seq(Int)
<1> DEFINE ends == {i \in DOMAIN s : s[i] # 0}
           m == IF ends = {} THEN 0 ELSE Max(ends)
<1>1. DOMAIN s = 1..n
  BY DEF Bytes
<1>2. ends \in SUBSET (0..n)
  BY <1>1
<1>3. m \in 0..n
  <2> HIDE DEF ends
  <2>1. ends # {} => Max(ends) \in ends
    BY <1>2, MaxOf
  <2>2. ends # {} => Max(ends) \in 0..n
    BY <1>2, <2>1
  <2>3. 0 \in 0..n
    OBVIOUS
  <2> QED
    BY <2>2, <2>3
<1>4. Trimmed(s) = Cut(s, m)
  BY DEF Trimmed, Cut
<1> HIDE DEF m
<1>5. Bytes(Cut(s, m), m)
  BY <1>3, CutBytes
<1> QED
  BY <1>4, <1>5, BytesAreInts DEF Bytes

LEMMA BytesRead ==
  ASSUME NEW n \in Nat, NEW b, Bytes(b, n)
  PROVE  /\ \A i \in Nat : i < n => Byte(b, i) \in Octets /\ Byte(b, i) \in Int
         /\ \A i \in Nat : i + 2 <= n => Uint16(b, i) \in Int /\ Altitude(b, i) \in Int \cup {None}
         /\ \A i \in Nat : i + 4 <= n => Int32(b, i) \in Int
<1>1. ASSUME NEW i \in Nat, i < n
      PROVE  Byte(b, i) \in Octets /\ Byte(b, i) \in Int
  <2>1. i + 1 \in 1..Len(b) /\ b \in Seq(Octets)
    BY <1>1 DEF Bytes
  <2>2. b[i + 1] \in Octets
    BY <2>1, ElementOfSeq
  <2> QED
    BY <2>2, OctetsAreNat DEF Byte
<1>2. ASSUME NEW i \in Nat, i + 2 <= n
      PROVE  Uint16(b, i) \in Int /\ Altitude(b, i) \in Int \cup {None}
  <2>1. i + 1 \in Nat /\ i < n /\ i + 1 < n
    BY <1>2
  <2>2. Byte(b, i) \in Int /\ Byte(b, i + 1) \in Int
    BY <1>1, <2>1
  <2>3. Uint16(b, i) \in Int
    BY <2>2 DEF Uint16
  <2> QED
    BY <2>3 DEF Altitude
<1>3. ASSUME NEW i \in Nat, i + 4 <= n
      PROVE  Int32(b, i) \in Int
  <2>1. i + 1 \in Nat /\ i + 2 \in Nat /\ i + 3 \in Nat /\ i < n /\ i + 1 < n /\ i + 2 < n /\ i + 3 < n
    BY <1>3
  <2>2. Byte(b, i) \in Int /\ Byte(b, i + 1) \in Int /\ Byte(b, i + 2) \in Int /\ Byte(b, i + 3) \in Int
    BY <1>1, <2>1
  <2>3. Signed(Byte(b, i + 3)) \in Int
    BY <2>2 DEF Signed
  <2> QED
    BY <2>2, <2>3 DEF Int32
<1> QED
  BY <1>1, <1>2, <1>3

LEMMA TextRead ==
  ASSUME NEW n \in Nat, NEW b, Bytes(b, n), NEW k \in Nat, 2 + k <= n
  PROVE  Trimmed(Slice(b, 2, 2 + k)) \in Seq(Int)
<1>1. Bytes(Slice(b, 2, 2 + k), k)
  BY SliceBytes
<1> QED
  BY <1>1, TrimmedBytes

LEMMA IdentityRead ==
  ASSUME NEW n \in Nat, NEW b, Bytes(b, n)
  PROVE  ParseBasicId(b) \in Identity \cup {None}
<1>1. Len(b) = n
  BY DEF Bytes
<1>2. CASE n < 25
  BY <1>1, <1>2 DEF ParseBasicId
<1>3. CASE ~(n < 25)
  <2>1. Byte(b, 1) \in Int
    BY <1>3, BytesRead
  <2>2. Trimmed(Slice(b, 2, 22)) \in Seq(Int)
    <3>1. 2 + 20 <= n /\ 2 + 20 = 22
      BY <1>3
    <3>2. Trimmed(Slice(b, 2, 2 + 20)) \in Seq(Int)
      BY <3>1, TextRead
    <3> QED
      BY <3>1, <3>2
  <2>3. Byte(b, 1) \div 16 \in Int /\ Byte(b, 1) % 16 \in Int
    BY <2>1
  <2>4. ParseBasicId(b) = [idType |-> Byte(b, 1) \div 16, uaType |-> Byte(b, 1) % 16,
                           id |-> Trimmed(Slice(b, 2, 22))]
    BY <1>1, <1>3 DEF ParseBasicId
  <2> QED
    BY <2>2, <2>3, <2>4 DEF Identity
<1> QED
  BY <1>2, <1>3

LEMMA LocationRead ==
  ASSUME NEW n \in Nat, NEW b, Bytes(b, n)
  PROVE  ParseLocation(b) \in Location \cup {None}
<1>1. Len(b) = n
  BY DEF Bytes
<1>2. CASE ParseLocation(b) = None
  BY <1>2
<1>3. CASE ParseLocation(b) # None
  <2>1. ~(n < 25)
    BY <1>1, <1>3 DEF ParseLocation
  <2>2. /\ ParseLocation(b).lat = Int32(b, 5)
        /\ ParseLocation(b) =
             [lat |-> Int32(b, 5), lon |-> Int32(b, 9), speed |-> Speed(b),
              heading |-> Byte(b, 2) + (IF Bit(Byte(b, 1), 2) THEN 180 ELSE 0),
              climb |-> Signed(Byte(b, 4)), alt |-> Altitude(b, 15), height |-> Altitude(b, 17)]
    BY <1>3 DEF ParseLocation
  <2>3. 5 + 4 <= n /\ 9 + 4 <= n /\ 15 + 2 <= n /\ 17 + 2 <= n /\ 2 < n /\ 3 < n /\ 4 < n
    BY <2>1
  <2>4. Int32(b, 5) \in Int /\ Int32(b, 9) \in Int
    BY <2>3, BytesRead
  <2>5. Altitude(b, 15) \in Int \cup {None} /\ Altitude(b, 17) \in Int \cup {None}
    BY <2>3, BytesRead
  <2>6. Byte(b, 2) \in Int /\ Byte(b, 3) \in Int /\ Byte(b, 4) \in Int
    BY <2>3, BytesRead
  <2>7. Speed(b) \in Int /\ Signed(Byte(b, 4)) \in Int
    BY <2>6 DEF Speed, Signed
  <2>8. Byte(b, 2) + (IF Bit(Byte(b, 1), 2) THEN 180 ELSE 0) \in Int
    BY <2>6
  <2> QED
    BY <2>2, <2>4, <2>5, <2>7, <2>8 DEF Location
<1> QED
  BY <1>2, <1>3

LEMMA SystemRead ==
  ASSUME NEW n \in Nat, NEW b, Bytes(b, n)
  PROVE  ParseSystem(b) \in System \cup {None}
<1>1. Len(b) = n
  BY DEF Bytes
<1>2. CASE n < 20
  BY <1>1, <1>2 DEF ParseSystem
<1>3. CASE ~(n < 20)
  <2>1. 2 + 4 <= n /\ 6 + 4 <= n /\ 18 + 2 <= n /\ 1 < n
    BY <1>3
  <2>2. Int32(b, 2) \in Int /\ Int32(b, 6) \in Int /\ Byte(b, 1) \in Int
    BY <2>1, BytesRead
  <2>3. Altitude(b, 18) \in Int \cup {None}
    BY <2>1, BytesRead
  <2> DEFINE op == IF Within(Int32(b, 2), 900000000) /\ Within(Int32(b, 6), 1800000000)
                   THEN [lat |-> Int32(b, 2), lon |-> Int32(b, 6), type |-> Byte(b, 1) % 4]
                   ELSE None
  <2>4. Byte(b, 1) % 4 \in Int
    BY <2>2
  <2>5. op \in [lat : Int, lon : Int, type : Int] \cup {None}
    BY <2>2, <2>4
  <2>6. ParseSystem(b) = [op |-> op, alt |-> Altitude(b, 18)]
    BY <1>1, <1>3 DEF ParseSystem
  <2> HIDE DEF op
  <2> QED
    BY <2>3, <2>5, <2>6 DEF System
<1> QED
  BY <1>2, <1>3

LEMMA NotesRead ==
  ASSUME NEW n \in Nat, NEW b, Bytes(b, n)
  PROVE  ParseOperatorId(b) \in Note \cup {None} /\ ParseSelfId(b) \in Note \cup {None}
<1>1. Len(b) = n
  BY DEF Bytes
<1>2. ParseOperatorId(b) \in Note \cup {None}
  <2>1. CASE n < 22
    BY <1>1, <2>1 DEF ParseOperatorId
  <2>2. CASE ~(n < 22)
    <3>1. 2 + 20 <= n /\ 2 + 20 = 22
      BY <2>2
    <3>2. Trimmed(Slice(b, 2, 2 + 20)) \in Seq(Int)
      BY <3>1, TextRead
    <3>3. ParseOperatorId(b) = [text |-> Trimmed(Slice(b, 2, 22))]
      BY <1>1, <2>2 DEF ParseOperatorId
    <3> QED
      BY <3>1, <3>2, <3>3 DEF Note
  <2> QED
    BY <2>1, <2>2
<1>3. ParseSelfId(b) \in Note \cup {None}
  <2>1. CASE n < 25
    BY <1>1, <2>1 DEF ParseSelfId
  <2>2. CASE ~(n < 25)
    <3>1. 2 + 23 <= n /\ 2 + 23 = 25
      BY <2>2
    <3>2. Trimmed(Slice(b, 2, 2 + 23)) \in Seq(Int)
      BY <3>1, TextRead
    <3>3. ParseSelfId(b) = [text |-> Trimmed(Slice(b, 2, 25))]
      BY <1>1, <2>2 DEF ParseSelfId
    <3> QED
      BY <3>1, <3>2, <3>3 DEF Note
  <2> QED
    BY <2>1, <2>2
<1> QED
  BY <1>2, <1>3

\* A message is decoded to its type and to what its type says, or to nothing.
LEMMA MessageRead ==
  ASSUME NEW n \in Nat, NEW b, Bytes(b, n)
  PROVE  /\ DecodeMessage(b) \in Message \cup {None}
         /\ 2 <= n => DecodeMessage(b) \in Message /\ DecodeMessage(b).type = Byte(b, 0) \div 16
<1>1. Len(b) = n
  BY DEF Bytes
<1>2. CASE n < 2
  BY <1>1, <1>2 DEF DecodeMessage
<1>3. CASE ~(n < 2)
  <2> DEFINE type == Byte(b, 0) \div 16
             fields == CASE type = 0 -> ParseBasicId(b)
                         [] type = 1 -> ParseLocation(b)
                         [] type = 3 -> ParseSelfId(b)
                         [] type = 4 -> ParseSystem(b)
                         [] type = 5 -> ParseOperatorId(b)
                         [] OTHER -> None
             any == Identity \cup Location \cup System \cup Note \cup {None}
  <2>1. DecodeMessage(b) = [type |-> type, fields |-> fields]
    BY <1>1, <1>3 DEF DecodeMessage
  <2>2. Byte(b, 0) \in Int
    BY <1>3, BytesRead
  <2>3. type \in Int
    BY <2>2
  <2>4. /\ ParseBasicId(b) \in any /\ ParseLocation(b) \in any /\ ParseSelfId(b) \in any
        /\ ParseSystem(b) \in any /\ ParseOperatorId(b) \in any /\ None \in any
    BY IdentityRead, LocationRead, SystemRead, NotesRead, Zenon
  <2> HIDE DEF any, type
  <2>5. fields \in any
    BY <2>4
  <2> HIDE DEF fields
  <2>6. DecodeMessage(b) \in Message
    BY <2>1, <2>3, <2>5 DEF Message, any
  <2>7. DecodeMessage(b).type = type
    BY <2>1
  <2> QED
    BY <2>6, <2>7 DEF type
<1> QED
  BY <1>2, <1>3

Payload(p) == p \in Seq(Octets) /\ (IsSingle(p) \/ IsPack(p))

LEMMA PackRead ==
  ASSUME NEW p, Payload(p), IsPack(p)
  PROVE  \E fields : /\ fields \in Seq(Message \cup {None}) /\ fields # <<>>
                     /\ DecodeRid(p) = [type |-> 15, fields |-> fields]
<1> DEFINE n == Len(p)
           c == p[3]
           sub == ParseMessagePack(p)
           fields == [i \in 1..c |-> DecodeMessage(sub[i])]
<1>1. p \in Seq(Octets) /\ n \in Nat /\ Bytes(p, n) /\ 28 <= n /\ p[1] \div 16 = 15 /\ p[2] = 25
  BY DEF Payload, IsPack, Bytes
<1>2. c \in 1..9 /\ n = 3 + 25 * c
  BY DEF IsPack
<1>3. Byte(p, 0) = p[1] /\ Byte(p, 1) = 25 /\ Byte(p, 2) = c
  BY <1>1 DEF Byte
<1> HIDE DEF c
<1>4. {i \in 1..c : 3 + i * 25 <= n} = 1..c
  BY <1>2
<1>5. sub = [i \in 1..c |-> Slice(p, 3 + (i - 1) * 25, 3 + i * 25)]
  <2>1. ~(Len(p) < 3)
    BY <1>1
  <2>2. sub = [i \in {i \in 1..c : 3 + i * 25 <= Len(p)} |-> Slice(p, 3 + (i - 1) * 25, 3 + i * 25)]
    BY <1>3, <2>1 DEF ParseMessagePack
  <2> HIDE DEF sub
  <2> QED
    BY <1>4, <2>2
<1> HIDE DEF sub, n
<1>6. ASSUME NEW i \in 1..c
      PROVE  DecodeMessage(sub[i]) \in Message \cup {None}
  <2> DEFINE o == 3 + (i - 1) * 25
  <2>1. o \in Nat /\ o + 25 <= n /\ o + 25 = 3 + i * 25
    BY <1>2
  <2> HIDE DEF o
  <2>2. Bytes(Slice(p, o, o + 25), 25)
    BY <1>1, <2>1, SliceBytes
  <2>3. sub[i] = Slice(p, o, o + 25)
    BY <1>5, <2>1 DEF o
  <2> QED
    BY <2>2, <2>3, MessageRead
<1>7. DOMAIN sub = 1..c
  BY <1>5
<1>8. DecodeRid(p) = [type |-> 15, fields |-> fields]
  <2>1. ~(Len(p) < 2) /\ Byte(p, 0) \div 16 = 15 /\ ~(Byte(p, 1) < 2)
    BY <1>1, <1>3 DEF n
  <2>2. DecodeRid(p) = [type |-> 15, fields |-> [i \in DOMAIN sub |-> DecodeMessage(sub[i])]]
    BY <2>1 DEF DecodeRid, sub
  <2> QED
    BY <1>7, <2>2
<1>9. fields \in Seq(Message \cup {None}) /\ fields # <<>>
  <2> DEFINE M == Message \cup {None}
  <2>1. \A i \in 1..c : DecodeMessage(sub[i]) \in M
    BY <1>6
  <2> HIDE DEF M
  <2>2. c \in Nat /\ c # 0
    BY <1>2
  <2>3. fields \in Seq(M) /\ Len(fields) = c
    BY <2>1, <2>2
  <2> HIDE DEF fields
  <2>4. fields # <<>>
    BY <2>2, <2>3
  <2> QED
    BY <2>3, <2>4 DEF M
<1> QED
  BY <1>8, <1>9

\* A payload is decoded, and something is dispatched for it.
LEMMA PayloadRead ==
  ASSUME NEW p, Payload(p)
  PROVE  /\ DecodeRid(p) # None /\ Messages(p) # <<>>
         /\ DecodeRid(p).type = 15 <=> IsPack(p)
<1>1. Decoded = Message \cup [type : Int, fields : Seq(Message \cup {None})] /\ None \notin Decoded
  BY NoneIsNoData DEF Decoded
<1>2. CASE IsPack(p)
  <2>1. PICK fields : /\ fields \in Seq(Message \cup {None}) /\ fields # <<>>
                      /\ DecodeRid(p) = [type |-> 15, fields |-> fields]
    BY <1>2, PackRead
  <2> DEFINE M == Message \cup {None}
  <2>2. fields \in Seq(M)
    BY <2>1
  <2> HIDE DEF M
  <2>3. DecodeRid(p) \in [type : Int, fields : Seq(M)]
    BY <2>1, <2>2
  <2>4. DecodeRid(p) \in Decoded
    BY <1>1, <2>3 DEF M
  <2>5. DecodeRid(p).type = 15 /\ DecodeRid(p).fields = fields
    BY <2>1
  <2> QED
    BY <1>1, <1>2, <2>1, <2>4, <2>5 DEF Messages
<1>3. CASE ~IsPack(p)
  <2>1. p \in Seq(Octets) /\ Len(p) = 25 /\ p[1] \div 16 # 15
    BY <1>3 DEF Payload, IsSingle
  <2>2. Byte(p, 0) = p[1] /\ Bytes(p, 25)
    BY <2>1 DEF Byte, Bytes
  <2>3. DecodeMessage(p) \in Message /\ DecodeMessage(p).type # 15
    BY <2>1, <2>2, MessageRead
  <2>4. DecodeRid(p) = DecodeMessage(p)
    BY <2>1, <2>2 DEF DecodeRid
  <2>5. DecodeRid(p) # None
    BY <1>1, <2>3, <2>4
  <2>6. Messages(p) = <<DecodeRid(p)>>
    BY <2>3, <2>4, <2>5 DEF Messages
  <2>7. <<DecodeRid(p)>> # <<>>
    OBVIOUS
  <2> QED
    BY <1>3, <2>3, <2>4, <2>5, <2>6, <2>7
<1> QED
  BY <1>2, <1>3

LEMMA SitsWithin ==
  ASSUME NEW k \in Nat, NEW n \in Nat, NEW j \in Nat, NEW m \in Nat, NEW b, NEW s, NEW t,
         Sits(b, k, s, n), Sits(b, k + j, t, m), j + m <= n
  PROVE  Sits(s, j, t, m)
<1>1. ASSUME NEW i \in 1..m
      PROVE  s[j + i] = t[i]
  <2>1. j + i \in 1..n /\ k + (j + i) = k + j + i
    OBVIOUS
  <2>2. b[k + (j + i)] = s[j + i]
    BY <2>1 DEF Sits
  <2>3. b[k + j + i] = t[i]
    BY DEF Sits
  <2> QED
    BY <2>1, <2>2, <2>3
<1> QED
  BY <1>1 DEF Sits

\* The parts of a frame.
LEMMA FrameLaidOut ==
  ASSUME NEW control \in Octets, NEW m \in Nat, NEW body, Bytes(body, m)
  PROVE  LET data == Frame(control, body) IN
         /\ Bytes(data, 33 + m) /\ Sits(data, 0, Tap, 9) /\ Sits(data, 9, <<control>>, 1)
         /\ Sits(data, 19, Address, 6) /\ Sits(data, 33, body, m) /\ Bytes(Address, 6)
<1> DEFINE f1 == Cat(Tap, <<control>>)
           f2 == Cat(f1, Zeros(9))
           f3 == Cat(f2, Address)
           f4 == Cat(f3, Zeros(8))
           f5 == Cat(f4, body)
<1>1. f5 = Frame(control, body)
  BY DEF Frame, Cat
<1>2. Bytes(Tap, 9) /\ Bytes(Address, 6) /\ Bytes(<<control>>, 1)
  BY DEF Tap, Address, Level, Bytes, Octets
<1>3. Bytes(Zeros(9), 9) /\ Bytes(Zeros(8), 8)
  BY ZerosAreBytes
<1>4. Bytes(f1, 10) /\ Sits(f1, 0, Tap, 9) /\ Sits(f1, 9, <<control>>, 1)
  BY <1>2, Concat
<1> HIDE DEF f1
<1>5. Bytes(f2, 19) /\ Sits(f2, 0, f1, 10)
  BY <1>3, <1>4, Concat
<1> HIDE DEF f2
<1>6. Bytes(f3, 25) /\ Sits(f3, 0, f2, 19) /\ Sits(f3, 19, Address, 6)
  BY <1>2, <1>5, Concat
<1> HIDE DEF f3
<1>7. Bytes(f4, 33) /\ Sits(f4, 0, f3, 25)
  BY <1>3, <1>6, Concat
<1> HIDE DEF f4
<1>8. Bytes(f5, 33 + m) /\ Sits(f5, 0, f4, 33) /\ Sits(f5, 33, body, m)
  BY <1>7, Concat
<1> HIDE DEF f5
<1>9. Sits(f5, 0 + 0, f3, 25)
  BY <1>7, <1>8, SitsDeeper
<1>10. Sits(f5, 0 + 19, Address, 6) /\ Sits(f5, 0 + 0, f2, 19)
  BY <1>6, <1>9, SitsDeeper
<1>11. Sits(f5, 0 + 0, f1, 10)
  BY <1>5, <1>10, SitsDeeper
<1>12. Sits(f5, 0 + 0, Tap, 9) /\ Sits(f5, 0 + 9, <<control>>, 1)
  BY <1>4, <1>11, SitsDeeper
<1> QED
  BY <1>1, <1>2, <1>8, <1>10, <1>12

\* Its level, and where the frame begins.
LEMMA TapRead ==
  ASSUME NEW n \in Nat, NEW b, Bytes(b, n), 9 <= n, Sits(b, 0, Tap, 9)
  PROVE  ParseRadiotap(b).len = 9 /\ ParseRadiotap(b).rssi = Level - 256
<1>1. Len(b) = n
  BY DEF Bytes
<1>2. \A i \in 1..9 : b[0 + i] = Tap[i]
  BY DEF Sits
<1>3. /\ b[0 + 3] = 9 /\ b[0 + 4] = 0 /\ b[0 + 5] = 32 /\ b[0 + 8] = 0 /\ b[0 + 9] = 200
  BY <1>2 DEF Tap, Level
<1>4. /\ Byte(b, 2) = 9 /\ Byte(b, 3) = 0 /\ Byte(b, 4) = 32 /\ b[8] = 0 /\ Byte(b, 8) = 200
  BY <1>3 DEF Byte
<1>5. AfterPresent(b) = 8
  <2>1. \A i \in 0..0 : 8 + 4 * i <= n => b[8 + 4 * i] = IF i = 0 THEN 0 ELSE 128
    BY <1>4
  <2>2. Chained(b, n, 0)
    BY <2>1 DEF Chained
  <2>3. AfterPresent(b) = IF 8 + 4 * 0 <= n THEN 8 + 4 * 0 ELSE None
    BY <2>2, ChainEnd
  <2> QED
    BY <2>3
<1>6. ~Bit(32, 1) /\ ~Bit(32, 2) /\ ~Bit(32, 4) /\ ~Bit(32, 8) /\ ~Bit(32, 16) /\ Bit(32, 32)
  BY DEF Bit
<1>7. SignalAt(b, 8) = 8
  BY <1>4, <1>6 DEF SignalAt, Behind
<1>8. Signed(200) = Level - 256
  BY DEF Signed, Level
<1>9. 8 # None
  BY NoneIsNoData
<1>10. Uint16(b, 2) = 9
  BY <1>4 DEF Uint16
<1>11. ParseRadiotap(b) =
         [len |-> Uint16(b, 2),
          rssi |-> IF AfterPresent(b) = None THEN None
                   ELSE IF Bit(Byte(b, 4), 32) /\ SignalAt(b, AfterPresent(b)) < Len(b)
                   THEN Signed(Byte(b, SignalAt(b, AfterPresent(b)))) ELSE None]
  BY <1>1 DEF ParseRadiotap
<1> QED
  BY <1>1, <1>4, <1>5, <1>6, <1>7, <1>8, <1>9, <1>10, <1>11

\* A frame is credited to its transmitter, and its body walked for what its subtype says.
LEMMA FrameRead ==
  ASSUME NEW control \in Octets, NEW m \in Nat, NEW body, Bytes(body, m)
  PROVE  OnPacket(Frame(control, body)) =
           IF (control \div 4) % 4 # 0 THEN None
           ELSE [mac |-> Address, rssi |-> Level - 256,
                 heard |-> CASE control \div 16 = 8  -> OnBeacon(body)
                             [] control \div 16 = 13 -> OnAction(body)
                             [] OTHER                -> None]
<1> DEFINE data == Frame(control, body)
           frame == Rest(data, 9)
<1>1. /\ Bytes(data, 33 + m) /\ Sits(data, 0, Tap, 9) /\ Sits(data, 9, <<control>>, 1)
      /\ Sits(data, 19, Address, 6) /\ Sits(data, 33, body, m) /\ Bytes(Address, 6)
  BY FrameLaidOut
<1> HIDE DEF data
<1>2. 33 + m = 9 + (24 + m) /\ 24 + m \in Nat /\ 33 + m \in Nat /\ 9 <= 33 + m
  OBVIOUS
<1>3. Bytes(frame, 24 + m) /\ Sits(data, 9, frame, 24 + m)
  <2>1. Bytes(data, 9 + (24 + m)) /\ 9 + (24 + m) <= 33 + m
    BY <1>1, <1>2
  <2>2. frame = Slice(data, 9, 9 + (24 + m))
    BY <1>2, <2>1, RestBytes
  <2> HIDE DEF frame
  <2> QED
    BY <1>1, <1>2, <2>1, <2>2, SliceBytes
<1>4. ParseRadiotap(data).len = 9 /\ ParseRadiotap(data).rssi = Level - 256
  BY <1>1, <1>2, TapRead
<1>5. Len(data) = 33 + m
  BY <1>1 DEF Bytes
<1> HIDE DEF frame
<1>6. Len(frame) = 24 + m
  BY <1>3 DEF Bytes
<1>7. Byte(frame, 0) = control
  <2>1. 0 + 1 <= 24 + m
    OBVIOUS
  <2>2. Sits(data, 9 + 0, <<control>>, 1)
    BY <1>1
  <2>3. Sits(frame, 0, <<control>>, 1)
    BY <1>2, <1>3, <2>1, <2>2, SitsWithin
  <2>4. frame[0 + 1] = <<control>>[1]
    BY <2>3 DEF Sits
  <2> QED
    BY <2>4 DEF Byte
<1>8. Slice(frame, 10, 16) = Address
  <2>1. 10 + 6 <= 24 + m /\ 10 + 6 = 16 /\ 9 + 10 = 19
    OBVIOUS
  <2>2. Sits(data, 9 + 10, Address, 6)
    BY <1>1
  <2>3. Sits(frame, 10, Address, 6)
    BY <1>2, <1>3, <2>1, <2>2, SitsWithin
  <2>4. Slice(frame, 10, 10 + 6) = Address
    BY <1>1, <1>2, <1>3, <2>1, <2>3, PartIs
  <2> QED
    BY <2>1, <2>4
<1>9. Rest(frame, 24) = body
  <2>1. 24 + m <= 24 + m /\ 9 + 24 = 33
    OBVIOUS
  <2>2. Sits(data, 9 + 24, body, m)
    BY <1>1
  <2>3. Sits(frame, 24, body, m)
    BY <1>2, <1>3, <2>1, <2>2, SitsWithin
  <2> QED
    BY <1>2, <1>3, <2>1, <2>3, PartIs
<1>10. ~(9 >= Len(data))
  BY <1>5
<1>11. IsManagement(frame) <=> (control \div 4) % 4 = 0
  BY <1>6, <1>7 DEF IsManagement
<1> QED
  BY <1>4, <1>7, <1>8, <1>9, <1>10, <1>11 DEF OnPacket, frame, data

LEMMA SitsShows ==
  ASSUME NEW b, NEW n \in Nat, NEW o \in Nat, NEW z \in Nat, NEW t, Bytes(t, z), Sits(b, o, t, z)
  PROVE  Shows(b, n, o, t)
BY DEF Bytes, Sits, Shows

LEMMA PayloadSize ==
  ASSUME NEW p, Payload(p)
  PROVE  Len(p) \in 25..228 /\ Bytes(p, Len(p)) /\ p # None
<1>1. p \in Seq(Octets)
  BY DEF Payload
<1>2. p # None
  BY <1>1, BytesAreInts, NoneIsNoData
<1>3. Len(p) \in 25..228
  <2>1. CASE IsSingle(p)
    BY <2>1 DEF IsSingle
  <2>2. CASE IsPack(p)
    <3> DEFINE c == p[3]
    <3>1. c \in 1..9 /\ Len(p) = 3 + 25 * c
      BY <2>2 DEF IsPack
    <3> HIDE DEF c
    <3> QED
      BY <3>1
  <2> QED
    BY <2>1, <2>2 DEF Payload
<1> QED
  BY <1>1, <1>2, <1>3 DEF Bytes

\* A beacon as a row of elements: a name, and the payload behind its vendor header.
BeaconVendor(p) == Vendor(AstmOui, 13, p)
BeaconTwo(p) == Cat(<<221, 5 + Len(p)>>, BeaconVendor(p))
BeaconRow(p) == <<<<0, 1, 65>>, BeaconTwo(p)>>
BeaconValues(p) == <<<<65>>, BeaconVendor(p)>>

LEMMA BeaconLaidOut ==
  ASSUME NEW p, NEW m \in 25..228, Bytes(p, m)
  PROVE  LET b == BeaconBody(p)
             n == 22 + m
         IN /\ Bytes(b, n) /\ Byte(b, 0) = 0 /\ InRow(b, n, 12, BeaconRow(p), 2)
            /\ Elemental(BeaconRow(p), BeaconValues(p), 2)
            /\ At(BeaconRow(p), 0) = 0 /\ At(BeaconRow(p), 1) = 3 /\ At(BeaconRow(p), 2) = 10 + m
            /\ BeaconRow(p)[1][1] = 0 /\ BeaconRow(p)[2][1] = 221 /\ BeaconValues(p)[2] = BeaconVendor(p)
<1> DEFINE name == <<0, 1, 65>>
           header == <<221, 5 + m>>
           h == <<0, 1, 65, 221, 5 + m>>
           v == BeaconVendor(p)
           vendor == Cat(header, v)
           c1 == Cat(Zeros(12), h)
           c2 == Cat(c1, AstmOui)
           c3 == Cat(c2, <<13, 7>>)
           b == Cat(c3, p)
           n == 22 + m
           r == <<name, vendor>>
<1>1. Len(p) = m /\ m \in Nat /\ n \in Nat /\ 5 + m \in Octets
  BY DEF Bytes, Octets
<1>2. b = BeaconBody(p)
  BY <1>1 DEF BeaconBody, Cat
<1>3. vendor = BeaconTwo(p) /\ r = BeaconRow(p)
  BY <1>1 DEF BeaconTwo, BeaconRow
<1>4. /\ Bytes(h, 5) /\ Bytes(AstmOui, 3) /\ Bytes(<<13, 7>>, 2) /\ Bytes(name, 3) /\ Bytes(header, 2)
      /\ Bytes(<<65>>, 1) /\ 13 \in Octets
  BY <1>1 DEF Bytes, AstmOui, Octets
<1>5. Bytes(Zeros(12), 12) /\ \A i \in 1..12 : Zeros(12)[i] = 0
  BY ZerosAreBytes
<1>6. Bytes(v, 5 + m)
  BY <1>1, <1>4, VendorShape DEF BeaconVendor
<1>7. Bytes(vendor, 7 + m) /\ Sits(vendor, 0, header, 2)
  <2>1. Bytes(vendor, 2 + (5 + m)) /\ Sits(vendor, 0, header, 2)
    BY <1>1, <1>4, <1>6, Concat
  <2>2. 2 + (5 + m) = 7 + m
    BY <1>1
  <2> QED
    BY <2>1, <2>2
<1>8. Bytes(c1, 17) /\ Sits(c1, 0, Zeros(12), 12) /\ Sits(c1, 12, h, 5)
  BY <1>4, <1>5, Concat
<1> HIDE DEF c1
<1>9. Bytes(c2, 20) /\ Sits(c2, 0, c1, 17) /\ Sits(c2, 17, AstmOui, 3)
  BY <1>4, <1>8, Concat
<1> HIDE DEF c2
<1>10. Bytes(c3, 22) /\ Sits(c3, 0, c2, 20) /\ Sits(c3, 20, <<13, 7>>, 2)
  BY <1>4, <1>9, Concat
<1> HIDE DEF c3
<1>11. Bytes(b, n) /\ Sits(b, 0, c3, 22) /\ Sits(b, 22, p, m)
  BY <1>1, <1>10, Concat
<1> HIDE DEF b
<1>12. Sits(b, 0 + 20, <<13, 7>>, 2) /\ Sits(b, 0 + 0, c2, 20)
  BY <1>10, <1>11, SitsDeeper
<1>13. Sits(b, 0 + 17, AstmOui, 3) /\ Sits(b, 0 + 0, c1, 17)
  BY <1>9, <1>12, SitsDeeper
<1>14. Sits(b, 0 + 12, h, 5) /\ Sits(b, 0 + 0, Zeros(12), 12)
  BY <1>8, <1>13, SitsDeeper
<1>15. Sits(b, 12, name, 3) /\ Sits(b, 15, header, 2)
  <2>1. \A i \in 1..5 : b[12 + i] = h[i]
    BY <1>14 DEF Sits
  <2>2. b[13] = 0 /\ b[14] = 1 /\ b[15] = 65 /\ b[16] = 221 /\ b[17] = 5 + m
    BY <2>1
  <2>3. ASSUME NEW i \in 1..3 PROVE b[12 + i] = name[i]
    <3>1. i = 1 \/ i = 2 \/ i = 3
      OBVIOUS
    <3> QED
      BY <2>2, <3>1
  <2>4. ASSUME NEW i \in 1..2 PROVE b[15 + i] = header[i]
    <3>1. i = 1 \/ i = 2
      OBVIOUS
    <3> QED
      BY <2>2, <3>1
  <2> QED
    BY <2>3, <2>4 DEF Sits
<1>16. Sits(b, 15, vendor, 7 + m)
  <2> DEFINE a == Cat(AstmOui, <<13, 7>>)
  <2>1. Sits(b, 17, a, 5)
    <3>1. Sits(b, 17, AstmOui, 3) /\ Sits(b, 17 + 3, <<13, 7>>, 2)
      BY <1>12, <1>13
    <3> QED
      BY <1>4, <3>1, SitsCat
  <2>2. Bytes(a, 5)
    BY <1>4, Concat
  <2>3. v = Cat(a, p)
    BY DEF BeaconVendor, Vendor
  <2> HIDE DEF a, v
  <2>4. Sits(b, 17, v, 5 + m)
    <3>1. Sits(b, 17 + 5, p, m)
      BY <1>11
    <3> QED
      BY <1>1, <2>1, <2>2, <2>3, <3>1, SitsCat
  <2>5. Sits(b, 15 + 2, v, 5 + m) /\ 5 + m \in Nat
    BY <1>1, <2>4
  <2>6. Sits(b, 15, vendor, 2 + (5 + m))
    BY <1>4, <1>6, <1>15, <2>5, SitsCat
  <2>7. 2 + (5 + m) = 7 + m
    BY <1>1
  <2> QED
    BY <2>6, <2>7
<1> HIDE DEF v, vendor, header, name, h
<1>17. Shows(b, n, 12, name) /\ Shows(b, n, 12 + 3, vendor)
  <2>1. 7 + m \in Nat
    BY <1>1
  <2> QED
    BY <1>1, <1>4, <1>7, <1>15, <1>16, <2>1, SitsShows
<1>18. /\ Strings(r, 2) /\ At(r, 1) = 3 /\ At(r, 2) = 10 + m /\ InRow(b, n, 12, r, 2)
  <2>1. n <= 12 + 3 + (7 + m) /\ 7 + m \in Nat /\ 3 + (7 + m) = 10 + m
    BY <1>1
  <2>2. /\ Strings(r, 2) /\ At(r, 1) = 3 /\ At(r, 2) = 3 + (7 + m) /\ InRow(b, n, 12, r, 2)
    BY <1>1, <1>4, <1>7, <1>11, <1>17, <2>1, TwoInRow
  <2> QED
    BY <2>1, <2>2
<1>19. At(r, 0) = 0
  BY <1>18, FlatBytes
<1>20. /\ name[1] = 0 /\ name = Cat(<<0, 1>>, <<65>>)
  BY DEF name, Cat
<1>21. vendor[1] = 221
  <2>1. vendor[0 + 1] = header[1]
    BY <1>7 DEF Sits
  <2> QED
    BY <2>1 DEF header
<1>22. Byte(b, 0) = 0
  <2>1. b[0 + 1] = Zeros(12)[1]
    BY <1>14 DEF Sits
  <2> QED
    BY <1>5, <2>1 DEF Byte
<1>23. Elemental(BeaconRow(p), BeaconValues(p), 2)
  <2> DEFINE w == BeaconValues(p)
  <2>1. w[1] = <<65>> /\ w[2] = v /\ r[1] = name /\ r[2] = vendor
    BY DEF BeaconValues, v
  <2> HIDE DEF w, r
  <2>2. /\ w[1] \in Seq(Octets) /\ Len(w[1]) = 1 /\ w[2] \in Seq(Octets) /\ Len(w[2]) = 5 + m
    BY <1>4, <1>6, <2>1 DEF Bytes
  <2>3. 0 \in Octets /\ 1 \in Octets /\ 221 \in Octets
    BY DEF Octets
  <2>4. r[1] = Cat(<<r[1][1], Len(w[1])>>, w[1]) /\ r[1][1] \in Octets /\ Len(w[1]) \in Octets
    BY <1>20, <2>1, <2>2, <2>3
  <2>5. r[2] = Cat(<<r[2][1], Len(w[2])>>, w[2]) /\ r[2][1] \in Octets /\ Len(w[2]) \in Octets
    <3>1. r[2] = Cat(<<221, 5 + m>>, v)
      BY <2>1 DEF vendor, header
    <3>2. r[2][1] = 221 /\ w[2] = v /\ Len(w[2]) = 5 + m
      BY <1>21, <2>1, <2>2
    <3> QED
      BY <1>1, <2>3, <3>1, <3>2
  <2>6. ASSUME NEW i \in 1..2
        PROVE  /\ w[i] \in Seq(Octets) /\ Len(w[i]) \in Octets
               /\ r[i] = Cat(<<r[i][1], Len(w[i])>>, w[i]) /\ r[i][1] \in Octets
    <3>1. i = 1 \/ i = 2
      OBVIOUS
    <3> QED
      BY <2>2, <2>4, <2>5, <3>1
  <2>7. Elemental(r, w, 2)
    BY <1>18, <2>6 DEF Elemental
  <2> QED
    BY <1>3, <2>7 DEF w
<1>24. r[1][1] = 0 /\ r[2][1] = 221
  BY <1>20, <1>21
<1>25. BeaconValues(p)[2] = BeaconVendor(p)
  BY DEF BeaconValues
<1> HIDE DEF r
<1> QED
  BY <1>2, <1>3, <1>11, <1>18, <1>19, <1>22, <1>23, <1>24, <1>25 DEF n

\* The payload of a beacon is found, and nothing in it when it comes as an action frame.
LEMMA BeaconRead ==
  ASSUME NEW p, Payload(p)
  PROVE  /\ OnBeacon(BeaconBody(p)) = [src |-> "wifi_beacon", what |-> Messages(p)]
         /\ OnAction(BeaconBody(p)) = None /\ Bytes(BeaconBody(p), 22 + Len(p))
<1> DEFINE m == Len(p)
           n == 22 + m
           b == BeaconBody(p)
           s == BeaconRow(p)
           value == BeaconValues(p)
           v == BeaconVendor(p)
<1>1. m \in 25..228 /\ Bytes(p, m) /\ p # None
  BY PayloadSize
<1> HIDE DEF m
<1>2. /\ Bytes(b, n) /\ Byte(b, 0) = 0 /\ InRow(b, n, 12, s, 2) /\ Elemental(s, value, 2)
      /\ At(s, 0) = 0 /\ At(s, 1) = 3 /\ At(s, 2) = 10 + m
      /\ s[1][1] = 0 /\ s[2][1] = 221 /\ value[2] = v
  BY <1>1, BeaconLaidOut
<1>3. /\ Bytes(v, 5 + m) /\ Slice(v, 0, 3) = AstmOui /\ Byte(v, 3) = 13 /\ Rest(v, 5) = p
  <2>1. m \in Nat /\ 13 \in Octets
    BY <1>1 DEF Octets
  <2> QED
    BY <1>1, <2>1, MakersDiffer, VendorShape DEF BeaconVendor
<1> HIDE DEF b, s, value, v
<1>4. CarriesRid(v)
  <2>1. Len(v) = 5 + m
    BY <1>3 DEF Bytes
  <2> QED
    BY <1>1, <1>3, <2>1 DEF CarriesRid
<1>5. n \in Nat /\ 12 + At(s, 1) = 15 /\ 12 + At(s, 2) = n /\ 15 <= n
  BY <1>1, <1>2
<1> HIDE DEF n
<1>6. {i \in 1..2 : 12 + At(s, i) <= n} = {1, 2}
  <2>1. \A i \in 1..2 : i = 1 \/ i = 2
    OBVIOUS
  <2> QED
    BY <1>5, <2>1
<1>7. Items(ElementEnds(b), 12) = {12, 15}
  <2> DEFINE W == {i \in 1..2 : 12 + At(s, i) <= n}
  <2>1. Items(ElementEnds(b), 12) = {12 + At(s, i - 1) : i \in W}
    BY <1>2, <1>5, ElementsKept
  <2> HIDE DEF W
  <2>2. W = {1, 2}
    BY <1>6 DEF W
  <2>3. 12 + At(s, 1 - 1) = 12 /\ 12 + At(s, 2 - 1) = 15
    BY <1>2
  <2> QED
    BY <2>1, <2>2, <2>3
<1>8. Byte(b, 12) = 0 /\ Byte(b, 15) = 221 /\ Value(b, 15) = v
  <2>1. 1 \in 1..2 /\ 2 \in 1..2 /\ 12 + At(s, 1) <= n /\ 12 + At(s, 2) <= n
    BY <1>5
  <2>2. /\ Byte(b, 12 + At(s, 1 - 1)) = s[1][1]
        /\ Byte(b, 12 + At(s, 2 - 1)) = s[2][1] /\ Value(b, 12 + At(s, 2 - 1)) = value[2]
    BY <1>2, <1>5, <2>1, ElementRead
  <2>3. 12 + At(s, 1 - 1) = 12 /\ 12 + At(s, 2 - 1) = 15
    BY <1>2
  <2> QED
    BY <1>2, <2>2, <2>3
<1>9. ExtractBeaconRid(b) = p
  <2> DEFINE those == {o \in VendorElements(b) : CarriesRid(Value(b, o))}
  <2>1. VendorElements(b) = {15}
    BY <1>7, <1>8 DEF VendorElements
  <2>2. those = {15}
    BY <1>4, <1>8, <2>1
  <2> HIDE DEF those
  <2>3. Min(those) = 15 /\ those # {}
    BY <2>2, MinIs
  <2> QED
    BY <1>3, <1>8, <2>3 DEF ExtractBeaconRid, those
<1>10. OnAction(b) = None
  <2>1. ~IsNanAction(b)
    BY <1>2 DEF IsNanAction
  <2> QED
    BY <2>1 DEF OnAction
<1>11. OnBeacon(b) = [src |-> "wifi_beacon", what |-> Messages(p)]
  BY <1>1, <1>9 DEF OnBeacon
<1> QED
  BY <1>2, <1>10, <1>11 DEF b, n, m

\* One string in a row.
LEMMA OneInRow ==
  ASSUME NEW lead \in Nat, NEW q \in Nat, NEW s, Bytes(s, q),
         NEW b, Bytes(b, lead + q), Sits(b, lead, s, q)
  PROVE  /\ Strings(<<s>>, 1) /\ At(<<s>>, 0) = 0 /\ At(<<s>>, 1) = q
         /\ InRow(b, lead + q, lead, <<s>>, 1)
<1> DEFINE r == <<s>>
<1>1. s \in Seq(Octets) /\ Len(s) = q
  BY DEF Bytes
<1>2. r \in Seq(Seq(Octets)) /\ Len(r) = 1 /\ r[1] = s
  BY <1>1
<1> HIDE DEF r
<1>3. Strings(r, 1)
  BY <1>2 DEF Strings
<1>4. Flat(r, 1) = s
  BY <1>2, <1>3, FlatSteps
<1>5. At(r, 1) = q /\ At(r, 0) = 0
  BY <1>1, <1>3, <1>4, FlatBytes DEF At
<1>6. InRow(b, lead + q, lead, r, 1)
  <2>1. lead + q <= lead + At(r, 1)
    BY <1>5
  <2>2. \A i \in 1..At(r, 1) : lead + i <= lead + q => b[lead + i] = Flat(r, 1)[i]
    BY <1>4, <1>5 DEF Sits
  <2> QED
    BY <2>1, <2>2 DEF InRow
<1> QED
  BY <1>3, <1>5, <1>6 DEF r

\* The descriptor of a NAN frame, with a service info and no other optional field.
SentService(p) == Cat(Cat(OdidService, <<1, 0, 16, 1 + Len(p), 7>>), p)

LEMMA ServiceRead ==
  ASSUME NEW p, NEW m \in 25..228, Bytes(p, m)
  PROVE  LET d == SentService(p) IN
         /\ Bytes(d, 11 + m) /\ Sits(d, 0, OdidService, 6)
         /\ CarriesOdid(d) /\ ServiceInfo(d) = p
<1> DEFINE ctl == <<1, 0, 16, 1 + m, 7>>
           a == Cat(OdidService, ctl)
           d == Cat(a, p)
<1>1. Len(p) = m /\ m \in Nat
  BY DEF Bytes
<1>2. d = SentService(p)
  BY <1>1 DEF SentService
<1>3. Bytes(ctl, 5) /\ ctl[3] = 16 /\ ctl[4] = 1 + m
  <2>1. 1 + m \in Octets /\ 1 \in Octets /\ 0 \in Octets /\ 16 \in Octets /\ 7 \in Octets
    BY <1>1 DEF Octets
  <2> QED
    BY <2>1 DEF Bytes
<1>4. Bytes(OdidService, 6)
  BY ServicesDiffer
<1> HIDE DEF ctl
<1>5. Bytes(a, 11) /\ Sits(a, 0, OdidService, 6) /\ Sits(a, 6, ctl, 5)
  BY <1>3, <1>4, Concat
<1> HIDE DEF a
<1>6. Bytes(d, 11 + m) /\ Sits(d, 0, a, 11) /\ Sits(d, 11, p, m)
  BY <1>1, <1>5, Concat
<1> HIDE DEF d
<1>7. Sits(d, 0 + 0, OdidService, 6) /\ Sits(d, 0 + 6, ctl, 5)
  BY <1>5, <1>6, SitsDeeper
<1>8. Byte(d, 8) = 16 /\ Byte(d, 9) = 1 + m
  <2>1. d[0 + 6 + 3] = ctl[3] /\ d[0 + 6 + 4] = ctl[4]
    BY <1>7 DEF Sits
  <2> QED
    BY <1>3, <2>1 DEF Byte
<1>9. Slice(d, 0, 6) = OdidService
  <2>1. 11 + m \in Nat /\ 0 + 6 <= 11 + m
    BY <1>1
  <2>2. Slice(d, 0, 0 + 6) = OdidService
    BY <1>4, <1>6, <1>7, <2>1, PartIs
  <2> QED
    BY <2>2
<1>10. ~Bit(16, 64) /\ ~Bit(16, 4) /\ ~Bit(16, 8) /\ Bit(16, 16)
  BY DEF Bit
<1>11. ServiceInfoAt(d) = 9
  BY <1>8, <1>10 DEF ServiceInfoAt, Past
<1>12. Len(d) = 11 + m
  BY <1>6 DEF Bytes
<1>13. CarriesOdid(d)
  <2>1. 11 + m >= 9 /\ 9 < 11 + m /\ 1 + m >= 2 /\ 9 + 1 + (1 + m) <= 11 + m
    BY <1>1
  <2> QED
    BY <1>8, <1>9, <1>10, <1>11, <1>12, <2>1 DEF CarriesOdid
<1>14. ServiceInfo(d) = p
  <2>1. 9 + 1 + (1 + m) = 11 + m /\ 11 + m \in Nat /\ 9 + 2 = 11 /\ 11 + m <= 11 + m
    BY <1>1
  <2>2. Slice(d, 11, 11 + m) = p
    BY <1>1, <1>6, <2>1, PartIs
  <2> QED
    BY <1>8, <1>11, <2>1, <2>2 DEF ServiceInfo
<1> QED
  BY <1>2, <1>6, <1>7, <1>13, <1>14

LEMMA ActionLaidOut ==
  ASSUME NEW p, NEW m \in 25..228, Bytes(p, m)
  PROVE  LET b == ActionBody(p)
             t == Attribute(3, SentService(p))
         IN /\ Bytes(b, 20 + m) /\ Byte(b, 0) = 4 /\ Byte(b, 5) = 19 /\ Sits(b, 2, NanOui, 3)
            /\ Sits(b, 6, t, 14 + m) /\ Bytes(t, 14 + m) /\ Attributal(<<t>>, <<SentService(p)>>, 1)
            /\ t[1] = 3 /\ Sits(b, 9, SentService(p), 11 + m)
<1> DEFINE head == NanHead(FALSE)
           d == SentService(p)
           t == Attribute(3, d)
           b == Cat(head, t)
           f == [wide |-> FALSE, before |-> "none", bits |-> {}]
<1>1. Len(p) = m /\ m \in Nat
  BY DEF Bytes
<1>2. b = ActionBody(p)
  BY <1>1 DEF ActionBody, SentService, Cat
<1>3. Bytes(head, 6) /\ head[1] = 4 /\ head[6] = 19 /\ Sits(head, 2, NanOui, 3)
  <2>1. NanSent(f) /\ NanLead(f) = 6 /\ f.wide = FALSE
    BY DEF NanSent, NanLead
  <2> HIDE DEF f
  <2> QED
    BY <2>1, NanHeadIs
<1>4. Bytes(d, 11 + m)
  BY ServiceRead
<1>5. /\ t = Cat(Cat(<<3>>, Uint16Bytes(Len(d))), d) /\ t[1] = 3 /\ Bytes(t, 3 + (11 + m))
      /\ d \in Seq(Octets) /\ IsUint16(Len(d)) /\ Sits(t, 3, d, 11 + m)
  <2>1. 3 \in Octets /\ 11 + m \in Nat /\ 11 + m <= 255
    BY DEF Octets
  <2> HIDE DEF d
  <2> QED
    BY <1>4, <2>1, AttributeIs
<1> HIDE DEF d, t, head
<1>6. 3 + (11 + m) = 14 + m /\ 6 + (14 + m) = 20 + m /\ 14 + m \in Nat /\ 3 + (11 + m) <= 14 + m
      /\ 11 + m \in Nat /\ 20 + m \in Nat
  BY <1>1
<1>7. Bytes(t, 14 + m)
  BY <1>5, <1>6
<1>8. Bytes(b, 20 + m) /\ Sits(b, 0, head, 6) /\ Sits(b, 6, t, 14 + m)
  <2>1. Bytes(b, 6 + (14 + m)) /\ Sits(b, 0, head, 6) /\ Sits(b, 6, t, 14 + m)
    BY <1>3, <1>6, <1>7, Concat
  <2> QED
    BY <1>6, <2>1
<1> HIDE DEF b
<1>9. Byte(b, 0) = 4 /\ Byte(b, 5) = 19
  <2>1. b[0 + 1] = head[1] /\ b[0 + 6] = head[6]
    BY <1>8 DEF Sits
  <2> QED
    BY <1>3, <2>1 DEF Byte
<1>10. Sits(b, 0 + 2, NanOui, 3)
  BY <1>3, <1>8, SitsDeeper
<1>11. Sits(b, 6 + 3, d, 11 + m)
  BY <1>5, <1>6, <1>8, SitsDeeper
<1>12. Attributal(<<t>>, <<d>>, 1)
  <2> DEFINE s == <<t>>
             w == <<d>>
  <2>1. s[1] = t /\ w[1] = d /\ Len(s) = 1 /\ t \in Seq(Octets)
    BY <1>7 DEF Bytes
  <2>2. s \in Seq(Seq(Octets))
    BY <2>1
  <2> HIDE DEF s, w
  <2>3. Strings(s, 1)
    BY <2>1, <2>2 DEF Strings
  <2>4. 3 \in Octets
    BY DEF Octets
  <2>5. s[1] = Cat(Cat(<<s[1][1]>>, Uint16Bytes(Len(w[1]))), w[1]) /\ s[1][1] \in Octets
    BY <1>5, <2>1, <2>4
  <2>6. \A i \in 1..1 : i = 1
    OBVIOUS
  <2>7. Attributal(s, w, 1)
    BY <1>5, <2>1, <2>3, <2>5, <2>6 DEF Attributal
  <2> QED
    BY <2>7 DEF s, w
<1> QED
  BY <1>2, <1>5, <1>7, <1>8, <1>9, <1>10, <1>11, <1>12 DEF t, d

\* The payload of a NAN action frame is found.
LEMMA ActionRead ==
  ASSUME NEW p, Payload(p)
  PROVE  OnAction(ActionBody(p)) = [src |-> "wifi_nan", what |-> Messages(p)]
<1> DEFINE m == Len(p)
           n == 20 + m
           b == ActionBody(p)
           d == SentService(p)
           t == Attribute(3, d)
           s == <<t>>
           value == <<d>>
<1>1. m \in 25..228 /\ Bytes(p, m) /\ p # None
  BY PayloadSize
<1> HIDE DEF m
<1>2. /\ Bytes(b, n) /\ Byte(b, 0) = 4 /\ Byte(b, 5) = 19 /\ Sits(b, 2, NanOui, 3)
      /\ Sits(b, 6, t, 14 + m) /\ Bytes(t, 14 + m) /\ Attributal(s, value, 1)
      /\ t[1] = 3 /\ Sits(b, 9, d, 11 + m)
  BY <1>1, ActionLaidOut
<1>3. Bytes(d, 11 + m) /\ Sits(d, 0, OdidService, 6) /\ CarriesOdid(d) /\ ServiceInfo(d) = p
  BY <1>1, ServiceRead
<1> HIDE DEF b, d, t
<1>4. n \in Nat /\ 6 + (14 + m) = n /\ 14 + m \in Nat /\ 11 + m \in Nat /\ m \in Nat /\ 15 <= n
  BY <1>1
<1> HIDE DEF n
<1>5. IsNanAction(b)
  <2>1. Sits(b, 9 + 0, OdidService, 6)
    <3>1. 0 + 6 <= 11 + m
      BY <1>4
    <3> QED
      BY <1>2, <1>3, <1>4, <3>1, SitsDeeper
  <2>2. Slice(b, 9, 9 + 6) = OdidService /\ Slice(b, 2, 2 + 3) = NanOui
    <3>1. Bytes(NanOui, 3) /\ Bytes(OdidService, 6)
      BY ServicesDiffer DEF Bytes, NanOui, Octets
    <3>2. Sits(b, 9, OdidService, 6) /\ 9 + 6 <= n /\ 2 + 3 <= n
      BY <1>4, <2>1
    <3> QED
      BY <1>2, <1>4, <3>1, <3>2, PartIs
  <2>3. Len(b) = n
    BY <1>2 DEF Bytes
  <2>4. 9 \in 0..58 /\ Len(b) >= 6
    BY <1>4, <2>3
  <2>5. \E i \in 0..58 : Slice(b, i, i + 6) = OdidService
    BY <2>2, <2>4
  <2>6. Slice(b, 2, 5) = NanOui
    BY <2>2
  <2> QED
    BY <1>2, <2>4, <2>5, <2>6 DEF IsNanAction
<1>6. s[1] = t /\ value[1] = d
  OBVIOUS
<1>7. At(s, 0) = 0 /\ At(s, 1) = 14 + m /\ InRow(b, n, 6, s, 1)
  <2>1. Bytes(b, 6 + (14 + m))
    BY <1>2, <1>4
  <2>2. At(s, 0) = 0 /\ At(s, 1) = 14 + m /\ InRow(b, 6 + (14 + m), 6, s, 1)
    BY <1>2, <1>4, <2>1, OneInRow
  <2> QED
    BY <1>4, <2>2
<1> HIDE DEF s, value
<1>8. 6 + At(s, 1) = n /\ 6 + At(s, 0) = 6
  BY <1>4, <1>7
<1>9. Items(AttributeEnds(b), 6) = {6}
  <2> DEFINE W == {i \in 1..1 : 6 + At(s, i) <= n}
  <2>1. Items(AttributeEnds(b), 6) = Starts(6, s, W)
    BY <1>2, <1>4, <1>7, AttributesKept
  <2>2. W = {1}
    <3>1. 6 + At(s, 1) <= n
      BY <1>4, <1>8
    <3> QED
      BY <3>1
  <2> HIDE DEF W
  <2>3. 6 + At(s, 1 - 1) = 6
    BY <1>8
  <2> QED
    BY <2>1, <2>2, <2>3 DEF Starts
<1>10. Byte(b, 6) = 3 /\ AttributeValue(b, 6) = d
  <2>1. 1 \in 1..1 /\ 6 + At(s, 1) <= n
    BY <1>4, <1>8
  <2>2. Byte(b, 6 + At(s, 1 - 1)) = s[1][1] /\ AttributeValue(b, 6 + At(s, 1 - 1)) = value[1]
    BY <1>2, <1>4, <1>7, <2>1, AttributeRead
  <2>3. 6 + At(s, 1 - 1) = 6
    BY <1>8
  <2> QED
    BY <1>2, <1>6, <2>2, <2>3
<1>11. ExtractNanOdid(b) = p
  <2>1. OdidDescriptors(b, 6) = {6}
    BY <1>3, <1>9, <1>10 DEF OdidDescriptors
  <2>2. {6} # {} /\ Min({6}) = 6
    BY MinIs
  <2>3. (IF OdidDescriptors(b, 6) # {} THEN OdidDescriptors(b, 6)
                                       ELSE OdidDescriptors(b, 7)) = {6}
    BY <2>1, <2>2
  <2> QED
    BY <1>3, <1>10, <2>2, <2>3 DEF ExtractNanOdid
<1> QED
  BY <1>1, <1>5, <1>11 DEF OnAction, b

\* Under a beacon's header it is walked for elements: the first is as long as the fifth byte
\* of the service id says, and reaches past the end of a short one.
LEMMA ActionMisread ==
  ASSUME NEW p, Payload(p), Len(p) < 140
  PROVE  OnBeacon(ActionBody(p)) = None
<1> DEFINE m == Len(p)
           n == 20 + m
           b == ActionBody(p)
           d == SentService(p)
           end == ElementEnds(b)
<1>1. m \in 25..228 /\ Bytes(p, m) /\ m < 140
  BY PayloadSize
<1> HIDE DEF m
<1>2. Bytes(b, n) /\ Sits(b, 9, d, 11 + m)
  BY <1>1, ActionLaidOut
<1>3. Sits(d, 0, OdidService, 6)
  BY <1>1, ServiceRead
<1> HIDE DEF b, d
<1>4. n \in Nat /\ 11 + m \in Nat /\ 0 + 6 <= 11 + m /\ 14 <= n /\ n < 160
  BY <1>1
<1> HIDE DEF n
<1>5. Byte(b, 13) = 146
  <2>1. Sits(b, 9 + 0, OdidService, 6)
    BY <1>2, <1>3, <1>4, SitsDeeper
  <2>2. b[9 + 0 + 5] = OdidService[5]
    BY <2>1 DEF Sits
  <2> QED
    BY <2>2 DEF Byte, OdidService
<1>6. Len(b) = n
  BY <1>2 DEF Bytes
<1>7. DOMAIN end = 0..n /\ 12 \in 0..n /\ end[12] = 160
  <2>1. DOMAIN end = 0..n /\ \A o \in 0..n : end[o] = IF o + 2 > n THEN n + 1 ELSE o + 2 + Byte(b, o + 1)
    BY <1>6 DEF ElementEnds
  <2> HIDE DEF end
  <2> QED
    BY <1>4, <1>5, <2>1
<1> HIDE DEF end
<1>8. 160 \notin 0..n
  BY <1>4
<1>9. Items(end, 12) = {}
  <2>1. PICK f : WalkOn(f, end) /\ Offsets(end, 12) = f[12]
    <3>1. 12 \in DOMAIN end
      BY <1>7
    <3> QED
      BY <3>1, OffsetsAre
  <2>2. f[12] = {12}
    BY <1>7, <1>8, <2>1 DEF WalkOn
  <2> QED
    BY <1>7, <1>8, <2>1, <2>2 DEF Items
<1>10. VendorElements(b) = {}
  BY <1>9 DEF VendorElements, end
<1>11. ExtractBeaconRid(b) = None /\ ExtractBeaconFrdid(b) = None
  BY <1>10 DEF ExtractBeaconRid, ExtractBeaconFrdid
<1> QED
  BY <1>11 DEF OnBeacon, b

\* What is before the payload of an advertisement: the application code and a counter.
Legacies == {<<>>, <<13>>, <<13, 7>>}

\* The payload of an advertisement is found.
LEMMA AdvertisementRead ==
  ASSUME NEW p, Payload(p), NEW legacy \in Legacies,
         Len(legacy) = 2 \/ ~IsPack(p)
  PROVE  OnAdvertisement(legacy \o p) =
           [src |-> IF IsPack(p) THEN "ble5" ELSE "ble", what |-> Messages(p)]
<1> DEFINE m == Len(p)
           k == Len(legacy)
           data == Cat(legacy, p)
<1>1. m \in 25..228 /\ Bytes(p, m) /\ p # None
  BY PayloadSize
<1>2. m = 25 \/ (k = 2 /\ 28 <= m)
  <2>1. IsSingle(p) => m = 25
    BY DEF IsSingle
  <2>2. IsPack(p) => 28 <= m
    BY DEF IsPack
  <2>3. IsSingle(p) \/ IsPack(p)
    BY DEF Payload
  <2> QED
    BY <2>1, <2>2, <2>3
<1>3. k \in 0..2 /\ Bytes(legacy, k) /\ (k # 0 => legacy[1] = 13)
  <2>1. 13 \in Octets /\ 7 \in Octets
    BY DEF Octets
  <2>2. CASE legacy = <<>>
    BY <2>2 DEF Bytes
  <2>3. CASE legacy = <<13>>
    BY <2>1, <2>3 DEF Bytes
  <2>4. CASE legacy = <<13, 7>>
    BY <2>1, <2>4 DEF Bytes
  <2> QED
    BY <2>2, <2>3, <2>4 DEF Legacies
<1> HIDE DEF m, k
<1>4. Bytes(data, k + m) /\ Sits(data, 0, legacy, k) /\ Sits(data, k, p, m)
  BY <1>1, <1>3, Concat
<1>5. data = legacy \o p
  BY DEF Cat
<1> HIDE DEF data
<1>6. Len(data) = k + m
  BY <1>4 DEF Bytes
<1>7. k # 0 => Byte(data, 0) = 13
  <2>1. ASSUME k # 0 PROVE data[0 + 1] = 13
    <3>1. 1 \in 1..k
      BY <1>3, <2>1
    <3> QED
      BY <1>3, <1>4, <2>1, <3>1 DEF Sits
  <2> QED
    BY <2>1 DEF Byte
<1>8. Rest(data, k) = p
  <2>1. k \in Nat /\ m \in Nat /\ k + m \in Nat /\ k + m <= k + m
    BY <1>1, <1>3
  <2> QED
    BY <1>1, <1>4, <2>1, PartIs
<1>9. k = 0 => data = p
  <2>1. ASSUME k = 0 PROVE data = p
    <3>1. Bytes(data, m) /\ Sits(data, 0, p, m)
      BY <1>1, <1>4, <2>1
    <3>2. Sits(data, 0, data, m)
      BY DEF Sits
    <3>3. m \in Nat /\ 0 \in Nat
      BY <1>1
    <3> QED
      BY <1>1, <3>1, <3>2, <3>3, SameBytes
  <2> QED
    BY <2>1
<1>10. ExtractRidPayload(data) = p
  <2>1. CASE m = 25 /\ k = 0
    <3>1. Len(data) = 25
      BY <1>6, <2>1
    <3> QED
      BY <1>9, <2>1, <3>1 DEF ExtractRidPayload
  <2>2. CASE m = 25 /\ k # 0
    <3>1. Len(data) \in {26, 27} /\ Len(data) - 25 = k /\ Len(data) # 25 /\ ~(Len(data) > 27)
      BY <1>3, <1>6, <2>2
    <3>2. Byte(data, 0) = 13
      BY <1>7, <2>2
    <3>3. ExtractRidPayload(data) = Rest(data, Len(data) - 25)
      BY <3>1, <3>2 DEF ExtractRidPayload
    <3> QED
      BY <1>8, <3>1, <3>3
  <2>3. CASE k = 2 /\ 28 <= m
    <3>1. Len(data) > 27 /\ ~(Len(data) \in {26, 27}) /\ Len(data) # 25
      BY <1>1, <1>6, <2>3
    <3> QED
      BY <1>7, <1>8, <2>3, <3>1 DEF ExtractRidPayload
  <2> QED
    BY <1>2, <2>1, <2>2, <2>3
<1>11. DecodeRid(p) # None /\ (DecodeRid(p).type = 15 <=> IsPack(p))
  BY PayloadRead
<1> QED
  BY <1>1, <1>5, <1>10, <1>11 DEF OnAdvertisement

\* Whatever payload is sent, and however it comes (wifi_feeder.py:812-941,
\* ble_feeder.py:278-320).
THEOREM TransportsAlwaysAgree == Spec => []TransportsAgree
<1>1. Init => TransportsAgree
  BY DEF Init, TransportsAgree
<1>2. ASSUME TransportsAgree, [Next]_rx
      PROVE  TransportsAgree'
  <2>1. CASE ReceiveSent
    <3>1. PICK p \in Sent : \E control \in Controls : \E legacy \in {<<>>, <<13>>, <<13, 7>>} :
              rx' = [path |-> "sent", input |-> [payload |-> p, control |-> control, legacy |-> legacy],
                     output |-> [beacon |-> OnPacket(Frame(control, BeaconBody(p))),
                                 action |-> OnPacket(Frame(control, ActionBody(p))),
                                 ble |-> OnAdvertisement(legacy \o p)]]
      BY <2>1 DEF ReceiveSent, Expect
    <3>2. PICK control \in Controls : \E legacy \in {<<>>, <<13>>, <<13, 7>>} :
              rx' = [path |-> "sent", input |-> [payload |-> p, control |-> control, legacy |-> legacy],
                     output |-> [beacon |-> OnPacket(Frame(control, BeaconBody(p))),
                                 action |-> OnPacket(Frame(control, ActionBody(p))),
                                 ble |-> OnAdvertisement(legacy \o p)]]
      BY <3>1
    <3>3. PICK legacy \in {<<>>, <<13>>, <<13, 7>>} :
              rx' = [path |-> "sent", input |-> [payload |-> p, control |-> control, legacy |-> legacy],
                     output |-> [beacon |-> OnPacket(Frame(control, BeaconBody(p))),
                                 action |-> OnPacket(Frame(control, ActionBody(p))),
                                 ble |-> OnAdvertisement(legacy \o p)]]
      BY <3>2
    <3> DEFINE m == Len(p)
               beacon == OnPacket(Frame(control, BeaconBody(p)))
               action == OnPacket(Frame(control, ActionBody(p)))
               ble == OnAdvertisement(legacy \o p)
               sent == Messages(p)
               Due(out, subtype, src) ==
                   IF control \in {8, 132} THEN out = None
                   ELSE /\ out.mac = Address /\ out.rssi = Level - 256
                        /\ out.heard = IF control = subtype
                                       THEN [src |-> src, what |-> sent] ELSE None
    <3>4. Payload(p)
      BY <3>1, SentOK DEF Payload, Octets
    <3>5. m \in 25..228 /\ Bytes(p, m)
      BY <3>4, PayloadSize
    <3>6. sent # <<>>
      BY <3>4, PayloadRead
    <3>7. /\ OnBeacon(BeaconBody(p)) = [src |-> "wifi_beacon", what |-> sent]
          /\ OnAction(BeaconBody(p)) = None /\ Bytes(BeaconBody(p), 22 + m)
      BY <3>4, BeaconRead
    <3>8. /\ OnAction(ActionBody(p)) = [src |-> "wifi_nan", what |-> sent]
          /\ m < 140 => OnBeacon(ActionBody(p)) = None
          /\ Bytes(ActionBody(p), 20 + m)
      <4>1. OnAction(ActionBody(p)) = [src |-> "wifi_nan", what |-> sent]
        BY <3>4, ActionRead
      <4>2. m < 140 => OnBeacon(ActionBody(p)) = None
        BY <3>4, ActionMisread
      <4>3. Bytes(ActionBody(p), 20 + m)
        BY <3>5, ActionLaidOut
      <4> QED
        BY <4>1, <4>2, <4>3
    <3> HIDE DEF m, sent
    <3>9. control \in Octets /\ 22 + m \in Nat /\ 20 + m \in Nat
      BY <3>2, <3>5 DEF Controls, Octets
    <3>10. control \in {128, 208, 64, 8, 132}
      BY <3>2 DEF Controls
    <3>11. /\ (control \div 4) % 4 # 0 <=> control \in {8, 132}
           /\ control \div 16 = 8 /\ control \notin {8, 132} <=> control = 128
           /\ control \div 16 = 13 <=> control = 208
      BY <3>10
    <3>12. Due(beacon, 128, "wifi_beacon")
      <4>1. beacon = IF (control \div 4) % 4 # 0 THEN None
                     ELSE [mac |-> Address, rssi |-> Level - 256,
                           heard |-> CASE control \div 16 = 8  -> OnBeacon(BeaconBody(p))
                                       [] control \div 16 = 13 -> OnAction(BeaconBody(p))
                                       [] OTHER                -> None]
        BY <3>7, <3>9, FrameRead
      <4> HIDE DEF beacon
      <4> QED
        BY <3>7, <3>10, <3>11, <4>1
    <3>13. control # 128 \/ m < 140 => Due(action, 208, "wifi_nan")
      <4>1. action = IF (control \div 4) % 4 # 0 THEN None
                     ELSE [mac |-> Address, rssi |-> Level - 256,
                           heard |-> CASE control \div 16 = 8  -> OnBeacon(ActionBody(p))
                                       [] control \div 16 = 13 -> OnAction(ActionBody(p))
                                       [] OTHER                -> None]
        BY <3>8, <3>9, FrameRead
      <4> HIDE DEF action
      <4> QED
        BY <3>8, <3>10, <3>11, <4>1
    <3>14. Len(legacy) = 2 \/ ~IsPack(p) =>
             ble = [src |-> IF IsPack(p) THEN "ble5" ELSE "ble", what |-> sent]
      BY <3>3, <3>4, AdvertisementRead DEF sent, Legacies
    <3>15. /\ rx'.input.payload = p /\ rx'.input.control = control /\ rx'.input.legacy = legacy
           /\ rx'.output.beacon = beacon /\ rx'.output.action = action /\ rx'.output.ble = ble
      BY <3>3
    <3> HIDE DEF beacon, action, ble
    <3> QED
      BY <3>6, <3>12, <3>13, <3>14, <3>15 DEF TransportsAgree, m, sent
  <2>2. CASE ReceiveBeacon \/ ReceiveFrench \/ ReceiveNan \/ ReceivePack \/ ReceiveLocation \/ ReceiveTap
    BY <2>2, Paths DEF TransportsAgree
  <2>3. CASE UNCHANGED rx
    BY <1>2, <2>3 DEF TransportsAgree
  <2> QED
    BY <1>2, <2>1, <2>2, <2>3 DEF Next
<1> QED
  BY <1>1, <1>2, PTL DEF Spec

=============================================================================
