-------------------------- MODULE AccountingProofs --------------------------
(***************************************************************************)
(* The totals of the cache and of its documents add up, for every value of  *)
(* the constants: Accounting and DocsConsistent of Tracker.                 *)
(*                                                                         *)
(* A total is a SumFunction of the community modules: a recursive function  *)
(* over the subsets of a finite domain that takes out one chosen element at *)
(* a time.  The first part proves what such a sum does when a point is set  *)
(* (SumOneSet) or points are left out (SumOfPart).  The provers cannot      *)
(* instantiate an induction principle, so every induction is a least        *)
(* counterexample: a set of naturals that is not empty has a least element. *)
(* The second part needs, besides IInv, that the cache and the counters     *)
(* are finite and that no drone is cached without a message counted.        *)
(***************************************************************************)
EXTENDS TrackerProofs

\* A set of naturals that holds its every number whose predecessors it holds is Nat.
LEMMA LeastCounterexample ==
  ASSUME NEW G \in SUBSET Nat,
         \A n \in Nat : (\A m \in Nat : m < n => m \in G) => n \in G
  PROVE  G = Nat
<1> DEFINE R == OpToRel(<, Nat)
           B == Nat \ G
<1>1. IsWellFoundedOn(R, Nat)
  BY NatLessThanWellFounded
<1>2. \A y, x \in Nat : <<y, x>> \in R <=> y < x
  BY DEF OpToRel
<1> HIDE DEF R
<1>3. ASSUME B # {} PROVE FALSE
  <2>1. PICK x \in B : \A y \in B : ~(<<y, x>> \in R)
    BY <1>1, <1>3, WFMin
  <2>2. \A m \in Nat : m < x => m \in G
    BY <2>1, <1>2
  <2>3. QED BY <2>1, <2>2
<1>4. QED BY <1>3

\* The element taken out of a set.
Picked(s) == CHOOSE x \in s : TRUE

\* The subsets of S with at most n elements.
Small(S, n) == {s \in SUBSET S : Cardinality(s) <= n}

\* g sums f over the sets in D, one element after the other.
SumsOn(g, f, D) ==
    g = [s \in D |-> IF s = {} THEN 0 ELSE f[Picked(s)] + g[s \ {Picked(s)}]]

Sums(g, f, S) == SumsOn(g, f, SUBSET S)

\* Taking an element out of a finite set.
LEMMA OneLess ==
  ASSUME NEW S, IsFiniteSet(S), NEW s \in SUBSET S, NEW x \in s
  PROVE  /\ IsFiniteSet(s) /\ Cardinality(s) \in Nat \ {0}
         /\ s \ {x} \in SUBSET S
         /\ Cardinality(s \ {x}) = Cardinality(s) - 1
<1>1. IsFiniteSet(s)
  BY FS_Subset
<1>2. Cardinality(s) \in Nat
  BY <1>1, FS_CardinalityType
<1>3. Cardinality(s) # 0
  BY <1>1, FS_EmptySet
<1>4. Cardinality(s \ {x}) = Cardinality(s) - 1
  BY <1>1, FS_RemoveElement
<1>5. QED BY <1>1, <1>2, <1>3, <1>4

\* The recursion has a solution.
LEMMA SumsExist ==
  ASSUME NEW S, IsFiniteSet(S), NEW f
  PROVE  \E g : Sums(g, f, S)
<1> DEFINE G == {n \in Nat : \E g : SumsOn(g, f, Small(S, n))}
<1>1. ASSUME NEW n \in Nat, \A m \in Nat : m < n => m \in G
      PROVE  n \in G
  <2>1. CASE n = 0
    <3> DEFINE g == [s \in Small(S, n) |-> 0]
    <3>1. ASSUME NEW s \in Small(S, n) PROVE s = {}
      <4>1. s \in SUBSET S /\ IsFiniteSet(s) /\ Cardinality(s) <= 0
        BY <2>1, FS_Subset DEF Small
      <4>2. Cardinality(s) \in Nat
        BY <4>1, FS_CardinalityType
      <4>3. QED BY <4>1, <4>2, FS_EmptySet
    <3>2. SumsOn(g, f, Small(S, n))
      BY <3>1 DEF SumsOn
    <3>3. QED BY <3>2
  <2>2. CASE n # 0
    <3>1. n - 1 \in G
      BY <1>1, <2>2
    <3>2. PICK h : SumsOn(h, f, Small(S, n - 1))
      BY <3>1
    <3> DEFINE g == [s \in Small(S, n) |->
                       IF s = {} THEN 0 ELSE f[Picked(s)] + h[s \ {Picked(s)}]]
    <3>3. ASSUME NEW s \in Small(S, n), s # {}
          PROVE  h[s \ {Picked(s)}] = g[s \ {Picked(s)}]
      <4> DEFINE r == s \ {Picked(s)}
      <4>1. Picked(s) \in s
        BY <3>3 DEF Picked
      <4>2. s \in SUBSET S /\ Cardinality(s) <= n
        BY DEF Small
      <4>3. r \in SUBSET S /\ Cardinality(s) \in Nat /\ Cardinality(r) = Cardinality(s) - 1
        BY <4>1, <4>2, OneLess
      <4> HIDE DEF r
      <4>4. r \in Small(S, n - 1) /\ r \in Small(S, n)
        BY <4>2, <4>3 DEF Small
      <4>5. h[r] = IF r = {} THEN 0 ELSE f[Picked(r)] + h[r \ {Picked(r)}]
        BY <3>2, <4>4 DEF SumsOn
      <4>6. QED BY <4>4, <4>5 DEF r
    <3>4. SumsOn(g, f, Small(S, n))
      <4>1. ASSUME NEW s \in Small(S, n)
            PROVE  (IF s = {} THEN 0 ELSE f[Picked(s)] + h[s \ {Picked(s)}])
                     = (IF s = {} THEN 0 ELSE f[Picked(s)] + g[s \ {Picked(s)}])
        <5>1. CASE s = {}
          BY <5>1
        <5>2. CASE s # {}
          <6>1. h[s \ {Picked(s)}] = g[s \ {Picked(s)}]
            BY <5>2, <3>3
          <6> HIDE DEF g
          <6>2. QED BY <6>1
        <5>3. QED BY <5>1, <5>2
      <4>2. g = [s \in Small(S, n) |->
                   IF s = {} THEN 0 ELSE f[Picked(s)] + g[s \ {Picked(s)}]]
        BY <4>1, Zenon
      <4>3. QED BY <4>2 DEF SumsOn
    <3>5. QED BY <3>4
  <2>3. QED BY <2>1, <2>2
<1>2. G = Nat
  <2>1. G \in SUBSET Nat
    OBVIOUS
  <2> HIDE DEF G
  <2>2. QED BY <2>1, <1>1, LeastCounterexample
<1>3. Cardinality(S) \in Nat
  BY FS_CardinalityType
<1>4. Small(S, Cardinality(S)) = SUBSET S
  BY FS_Subset DEF Small
<1>5. \E g : SumsOn(g, f, Small(S, Cardinality(S)))
  BY <1>2, <1>3
<1>6. QED BY <1>4, <1>5 DEF Sums

\* The sums are natural numbers.
LEMMA SumsAreNaturals ==
  ASSUME NEW S, IsFiniteSet(S), NEW f \in [S -> Nat], NEW g, Sums(g, f, S)
  PROVE  \A s \in SUBSET S : g[s] \in Nat
<1> DEFINE G == {n \in Nat : \A s \in SUBSET S : Cardinality(s) = n => g[s] \in Nat}
<1>1. ASSUME NEW n \in Nat, \A m \in Nat : m < n => m \in G,
             NEW s \in SUBSET S, Cardinality(s) = n
      PROVE  g[s] \in Nat
  <2>1. CASE s = {}
    BY <2>1 DEF Sums, SumsOn
  <2>2. CASE s # {}
    <3> DEFINE x == Picked(s)
    <3>1. x \in s
      BY <2>2 DEF Picked
    <3>2. s \ {x} \in SUBSET S /\ n - 1 \in Nat /\ Cardinality(s \ {x}) = n - 1
      BY <1>1, <3>1, OneLess
    <3>3. g[s \ {x}] \in Nat
      BY <1>1, <3>2
    <3>4. g[s] = f[x] + g[s \ {x}]
      BY <2>2 DEF Sums, SumsOn
    <3>5. QED BY <3>1, <3>3, <3>4
  <2>3. QED BY <2>1, <2>2
<1>2. G = Nat
  <2>1. \A n \in Nat : (\A m \in Nat : m < n => m \in G) => n \in G
    BY <1>1
  <2>2. G \in SUBSET Nat
    OBVIOUS
  <2> HIDE DEF G
  <2>3. QED BY <2>1, <2>2, LeastCounterexample
<1>3. ASSUME NEW s \in SUBSET S PROVE Cardinality(s) \in Nat
  BY FS_Subset, FS_CardinalityType
<1>4. QED BY <1>2, <1>3

\* Any element may be taken out first.
LEMMA SumsInAnyOrder ==
  ASSUME NEW S, IsFiniteSet(S), NEW f \in [S -> Nat], NEW g, Sums(g, f, S)
  PROVE  \A s \in SUBSET S : \A x \in s : g[s] = f[x] + g[s \ {x}]
<1> DEFINE G == {n \in Nat : \A s \in SUBSET S :
                    Cardinality(s) = n => \A x \in s : g[s] = f[x] + g[s \ {x}]}
<1>1. ASSUME NEW n \in Nat, \A m \in Nat : m < n => m \in G,
             NEW s \in SUBSET S, Cardinality(s) = n, NEW x \in s
      PROVE  g[s] = f[x] + g[s \ {x}]
  <2> DEFINE p == Picked(s)
  <2>1. p \in s
    BY DEF Picked
  <2>2. g[s] = f[p] + g[s \ {p}]
    BY DEF Sums, SumsOn
  <2>3. CASE x = p
    BY <2>2, <2>3
  <2>4. CASE x # p
    <3>1. /\ s \ {p} \in SUBSET S /\ Cardinality(s \ {p}) = n - 1 /\ n - 1 \in Nat
          /\ s \ {x} \in SUBSET S /\ Cardinality(s \ {x}) = n - 1
      BY <1>1, <2>1, OneLess
    <3>2. x \in s \ {p} /\ p \in s \ {x}
      BY <2>1, <2>4
    <3>3. n - 1 \in G
      BY <1>1, <3>1
    <3> HIDE DEF p
    <3>4. /\ g[s \ {p}] = f[x] + g[(s \ {p}) \ {x}]
          /\ g[s \ {x}] = f[p] + g[(s \ {x}) \ {p}]
      BY <3>1, <3>2, <3>3
    <3>5. (s \ {p}) \ {x} = (s \ {x}) \ {p} /\ (s \ {p}) \ {x} \in SUBSET S
      BY <3>1
    <3>6. g[(s \ {p}) \ {x}] \in Nat
      BY <3>5, SumsAreNaturals
    <3>7. f[x] \in Nat /\ f[p] \in Nat
      BY <2>1
    <3>8. g[(s \ {p}) \ {x}] = g[(s \ {x}) \ {p}]
      BY <3>5
    <3>9. g[s \ {p}] = f[x] + g[(s \ {p}) \ {x}] /\ g[s \ {x}] = f[p] + g[(s \ {p}) \ {x}]
      BY <3>4, <3>8
    <3> DEFINE rest == g[(s \ {p}) \ {x}]
               a == g[s \ {p}]
               b == g[s \ {x}]
    <3>10. rest \in Nat /\ a = f[x] + rest /\ b = f[p] + rest /\ g[s] = f[p] + a
      BY <2>2, <3>6, <3>9 DEF p
    <3> HIDE DEF rest, a, b
    <3>11. g[s] = f[x] + b
      BY <3>7, <3>10
    <3>12. QED BY <3>11 DEF b
  <2>5. QED BY <2>3, <2>4
<1>2. G = Nat
  <2>1. \A n \in Nat : (\A m \in Nat : m < n => m \in G) => n \in G
    BY <1>1
  <2>2. G \in SUBSET Nat
    OBVIOUS
  <2> HIDE DEF G
  <2>3. QED BY <2>1, <2>2, LeastCounterexample
<1>3. ASSUME NEW s \in SUBSET S PROVE Cardinality(s) \in Nat
  BY FS_Subset, FS_CardinalityType
<1>4. QED BY <1>2, <1>3

\* h on T is a part of f on S.
PartOf(h, T, f, S) == T \subseteq S /\ \A x \in T : f[x] = h[x]

\* A part of a function has the sum the function has over it.
LEMMA SumsAgree ==
  ASSUME NEW S, IsFiniteSet(S), NEW f, NEW g, Sums(g, f, S),
         NEW T, NEW h, NEW k, Sums(k, h, T),
         PartOf(h, T, f, S)
  PROVE  g[T] = k[T]
<1> DEFINE G == {n \in Nat : \A s \in SUBSET T : Cardinality(s) = n => g[s] = k[s]}
<1>0. IsFiniteSet(T) /\ T \in SUBSET S
  BY FS_Subset DEF PartOf
<1>1. ASSUME NEW n \in Nat, \A m \in Nat : m < n => m \in G,
             NEW s \in SUBSET T, Cardinality(s) = n
      PROVE  g[s] = k[s]
  <2>1. CASE s = {}
    BY <2>1 DEF Sums, SumsOn
  <2>2. CASE s # {}
    <3> DEFINE x == Picked(s)
    <3>1. x \in s
      BY <2>2 DEF Picked
    <3>2. s \ {x} \in SUBSET T /\ n - 1 \in Nat /\ Cardinality(s \ {x}) = n - 1
      BY <1>1, <1>0, <3>1, OneLess
    <3>3. g[s \ {x}] = k[s \ {x}]
      BY <1>1, <3>2
    <3>4. g[s] = f[x] + g[s \ {x}] /\ k[s] = h[x] + k[s \ {x}]
      BY <1>0, <2>2 DEF Sums, SumsOn
    <3>5. f[x] = h[x]
      BY <3>1 DEF PartOf
    <3>6. QED BY <3>3, <3>4, <3>5
  <2>3. QED BY <2>1, <2>2
<1>2. G = Nat
  <2>1. \A n \in Nat : (\A m \in Nat : m < n => m \in G) => n \in G
    BY <1>1
  <2>2. G \in SUBSET Nat
    OBVIOUS
  <2> HIDE DEF G
  <2>3. QED BY <2>1, <2>2, LeastCounterexample
<1>3. Cardinality(T) \in Nat
  BY FS_Subset, FS_CardinalityType DEF PartOf
<1>4. QED BY <1>2, <1>3

-----------------------------------------------------------------------------
(* SumFunction.                                                             *)

\* SumFunction is a solution of the recursion.
LEMMA SumFunctionSums ==
  ASSUME NEW S, IsFiniteSet(S), NEW f \in [S -> Nat]
  PROVE  \E g : Sums(g, f, S) /\ SumFunction(f) = g[S]
<1> DEFINE g == CHOOSE it : it = [s \in SUBSET S |->
                  IF s = {} THEN 0 ELSE f[CHOOSE x \in s : TRUE] + it[s \ {CHOOSE x \in s : TRUE}]]
<1>1. SumFunction(f) = g[S]
  BY DEF SumFunction, SumFunctionOnSet, FoldFunctionOnSet, MapThenFoldSet
<1>2. \E it : it = [s \in SUBSET S |->
                  IF s = {} THEN 0 ELSE f[CHOOSE x \in s : TRUE] + it[s \ {CHOOSE x \in s : TRUE}]]
  <2>1. PICK it : Sums(it, f, S)
    BY SumsExist
  <2>2. QED BY <2>1 DEF Sums, SumsOn, Picked
<1>3. Sums(g, f, S)
  BY <1>2 DEF Sums, SumsOn, Picked
<1>4. QED BY <1>1, <1>3

\* The function without one point.
Without(f, x) == [y \in DOMAIN f \ {x} |-> f[y]]

\* A sum is a natural number, zero when there is nothing to sum, and otherwise what
\* any one point adds to the sum of the others.
LEMMA SumOneOut ==
  ASSUME NEW S, IsFiniteSet(S), NEW f \in [S -> Nat]
  PROVE  /\ SumFunction(f) \in Nat
         /\ S = {} => SumFunction(f) = 0
         /\ \A x \in S : SumFunction(f) = f[x] + SumFunction(Without(f, x))
<1>1. PICK g : Sums(g, f, S) /\ SumFunction(f) = g[S]
  BY SumFunctionSums
<1>2. SumFunction(f) \in Nat
  BY <1>1, SumsAreNaturals
<1>3. S = {} => SumFunction(f) = 0
  BY <1>1 DEF Sums, SumsOn
<1>4. ASSUME NEW x \in S PROVE SumFunction(f) = f[x] + SumFunction(Without(f, x))
  <2> DEFINE others == S \ {x}
             rest == Without(f, x)
  <2>1. IsFiniteSet(others)
    BY FS_Subset
  <2>2. rest \in [others -> Nat] /\ PartOf(rest, others, f, S)
    BY DEF Without, PartOf
  <2> HIDE DEF rest, others
  <2>3. PICK k : Sums(k, rest, others) /\ SumFunction(rest) = k[others]
    BY <2>1, <2>2, SumFunctionSums
  <2>4. g[others] = k[others]
    <3>1. Sums(g, f, S) /\ Sums(k, rest, others) /\ PartOf(rest, others, f, S)
      BY <1>1, <2>2, <2>3
    <3>2. QED BY <3>1, SumsAgree
  <2>5. ASSUME NEW s \in SUBSET S, NEW y \in s PROVE g[s] = f[y] + g[s \ {y}]
    BY <1>1, SumsInAnyOrder
  <2>6. QED BY <1>1, <2>3, <2>4, <2>5 DEF rest, others
<1>5. QED BY <1>2, <1>3, <1>4

\* Setting one point moves the sum by what the point moves.
LEMMA SumOneSet ==
  ASSUME NEW S, IsFiniteSet(S), NEW f \in [S -> Nat], NEW x,
         NEW h \in [S \cup {x} -> Nat], \A y \in S : y # x => h[y] = f[y]
  PROVE  SumFunction(h) = SumFunction(f) + h[x] - (IF x \in S THEN f[x] ELSE 0)
<1> DEFINE w == Without(h, x)
<1>1. IsFiniteSet(S \cup {x}) /\ IsFiniteSet(S \ {x})
  BY FS_AddElement, FS_RemoveElement
<1>2. SumFunction(h) = h[x] + SumFunction(w) /\ h[x] \in Nat
  BY <1>1, SumOneOut
<1>3. w = [y \in S \ {x} |-> f[y]] /\ w \in [S \ {x} -> Nat]
  BY DEF Without
<1> HIDE DEF w
<1>4. SumFunction(w) \in Nat
  BY <1>1, <1>3, SumOneOut
<1>5. CASE x \in S
  <2>1. w = Without(f, x)
    BY <1>3 DEF Without
  <2>2. SumFunction(f) = f[x] + SumFunction(w) /\ f[x] \in Nat
    BY <1>5, <2>1, SumOneOut
  <2>3. QED BY <1>2, <1>4, <1>5, <2>2
<1>6. CASE x \notin S
  <2>1. w = f
    BY <1>3, <1>6
  <2>2. QED BY <1>2, <1>4, <1>6, <2>1
<1>7. QED BY <1>5, <1>6

\* A part of a function sums to no more than the whole.
LEMMA SumOfPart ==
  ASSUME NEW S, IsFiniteSet(S), NEW f \in [S -> Nat], NEW T \in SUBSET S
  PROVE  SumFunction([y \in T |-> f[y]]) <= SumFunction(f)
<1> DEFINE part(U) == [y \in U |-> f[y]]
           G == {n \in Nat : \A U \in SUBSET S :
                    Cardinality(U) = n => SumFunction(part(U \cap T)) <= SumFunction(part(U))}
<1>1. ASSUME NEW n \in Nat, \A m \in Nat : m < n => m \in G,
             NEW U \in SUBSET S, Cardinality(U) = n
      PROVE  SumFunction(part(U \cap T)) <= SumFunction(part(U))
  <2>1. IsFiniteSet(U) /\ IsFiniteSet(U \cap T)
    BY FS_Subset
  <2>2. part(U) \in [U -> Nat] /\ part(U \cap T) \in [U \cap T -> Nat]
    OBVIOUS
  <2>3. SumFunction(part(U)) \in Nat /\ SumFunction(part(U \cap T)) \in Nat
    BY <2>1, <2>2, SumOneOut
  <2>4. CASE U \ T = {}
    <3>1. U \cap T = U
      BY <2>4
    <3>2. part(U \cap T) = part(U)
      BY <3>1
    <3> HIDE DEF part
    <3>3. QED BY <2>3, <3>2
  <2>5. CASE U \ T # {}
    <3>1. PICK x \in U \ T : TRUE
      BY <2>5
    <3> DEFINE V == U \ {x}
    <3>2. V \in SUBSET S /\ Cardinality(V) = n - 1 /\ n - 1 \in Nat
      BY <1>1, OneLess
    <3>3. part(V \cap T) = part(U \cap T)
      BY <3>1
    <3>4. part(V) = Without(part(U), x) /\ part(U)[x] = f[x] /\ f[x] \in Nat
      BY <3>1 DEF Without
    <3>5. SumFunction(part(V \cap T)) <= SumFunction(part(V))
      <4>1. n - 1 \in G
        BY <1>1, <3>2
      <4> HIDE DEF V, part
      <4>2. QED BY <3>2, <4>1
    <3>6. IsFiniteSet(V) /\ part(V) \in [V -> Nat]
      BY <3>2, FS_Subset
    <3> HIDE DEF part, V
    <3>7. SumFunction(part(U)) = part(U)[x] + SumFunction(part(V))
      BY <2>1, <2>2, <3>1, <3>4, SumOneOut
    <3>8. SumFunction(part(V)) \in Nat
      BY <3>6, SumOneOut
    <3>9. QED BY <2>3, <3>3, <3>4, <3>5, <3>7, <3>8
  <2>6. QED BY <2>4, <2>5
<1>2. G = Nat
  <2>1. \A n \in Nat : (\A m \in Nat : m < n => m \in G) => n \in G
    BY <1>1
  <2>2. G \in SUBSET Nat
    OBVIOUS
  <2> HIDE DEF G
  <2>3. QED BY <2>1, <2>2, LeastCounterexample
<1>3. Cardinality(S) \in Nat
  BY FS_CardinalityType
<1>4. SumFunction(part(S \cap T)) <= SumFunction(part(S))
  BY <1>2, <1>3
<1>5. part(S \cap T) = [y \in T |-> f[y]] /\ part(S) = f
  OBVIOUS
<1>6. QED BY <1>4, <1>5

-----------------------------------------------------------------------------
(* The cache adds up.                                                       *)

CountsOf(entries) == [u \in DOMAIN entries |-> entries[u].count]
MessagesOf(stats) == [src \in DOMAIN stats |-> stats[src].messages]

\* The totals, the finiteness they rest on and one message for every cached drone.
AddsUp ==
    /\ IsFiniteSet(DOMAIN drones) /\ IsFiniteSet(DOMAIN bySource)
    /\ Accounting
    /\ Cardinality(DOMAIN drones) <= messagesTotal

\* Counts are numbers.
LEMMA CountTypes ==
  ASSUME TypeOK
  PROVE  /\ CountsOf(drones) \in [DOMAIN drones -> Nat]
         /\ MessagesOf(bySource) \in [DOMAIN bySource -> Nat]
         /\ messagesTotal \in Nat
BY DEF TypeOK, CountsOf, MessagesOf, DroneState

\* Nothing is cached and nothing counted in the beginning.
LEMMA InitAddsUp == Init => AddsUp
<1> SUFFICES ASSUME Init PROVE AddsUp
  OBVIOUS
<1>1. DOMAIN drones = {} /\ DOMAIN bySource = {} /\ messagesTotal = 0
  BY DEF Init, EmptyMap
<1>2. CountsOf(drones) \in [{} -> Nat] /\ MessagesOf(bySource) \in [{} -> Nat]
  BY <1>1 DEF CountsOf, MessagesOf
<1>3. SumCounts(drones) = 0 /\ SumMessages(bySource) = 0
  <2>1. IsFiniteSet({})
    BY FS_EmptySet
  <2>2. SumFunction(CountsOf(drones)) = 0 /\ SumFunction(MessagesOf(bySource)) = 0
    BY <1>2, <2>1, SumOneOut
  <2>3. QED BY <2>2 DEF SumCounts, SumMessages, CountsOf, MessagesOf
<1>4. QED BY <1>1, <1>3, FS_EmptySet DEF AddsUp, Accounting

\* A commit adds one to the count of one drone, to one transport and to the total.
LEMMA CommitAddsUp ==
  ASSUME IInv, AddsUp, NEW t \in Threads, NEW id, NEW s, Commits(t, id, s), TypeOK'
  PROVE  AddsUp'
<1> DEFINE src == call[t].msg.src
<1>1. /\ DOMAIN drones' = DOMAIN drones \cup {id}
      /\ \A u \in DOMAIN drones : u # id => drones'[u] = drones[u]
      /\ drones'[id].count = s.count + 1 /\ s.count \in Nat
  BY CommitEffect, Zenon
<1>2. s.count = IF id \in DOMAIN drones THEN CountsOf(drones)[id] ELSE 0
  BY DEF Commits, Learnt, CountsOf
<1>3. /\ DOMAIN bySource' = DOMAIN bySource \cup {src}
      /\ bySource' = BumpSource(bySource, src, call[t].now)
      /\ messagesTotal' = messagesTotal + 1
  BY DEF Commits, Commit, BumpSource, Put
<1>4. /\ CountsOf(drones) \in [DOMAIN drones -> Nat]
      /\ MessagesOf(bySource) \in [DOMAIN bySource -> Nat]
      /\ messagesTotal \in Nat
  BY CountTypes DEF IInv
<1>5. /\ CountsOf(drones)' \in [DOMAIN drones \cup {id} -> Nat]
      /\ MessagesOf(bySource)' \in [DOMAIN bySource \cup {src} -> Nat]
  BY <1>1, <1>3 DEF TypeOK, CountsOf, MessagesOf, DroneState
<1>6. /\ IsFiniteSet(DOMAIN drones) /\ IsFiniteSet(DOMAIN bySource)
      /\ IsFiniteSet(DOMAIN drones') /\ IsFiniteSet(DOMAIN bySource')
  BY <1>1, <1>3, FS_AddElement DEF AddsUp
<1> HIDE DEF src
<1>7. SumCounts(drones)' = SumCounts(drones) + 1
  <2>1. ASSUME NEW u \in DOMAIN drones, u # id
        PROVE  CountsOf(drones)'[u] = CountsOf(drones)[u]
    BY <1>1, <2>1 DEF CountsOf
  <2>2. CountsOf(drones)'[id] = s.count + 1
    BY <1>1 DEF CountsOf
  <2>3. SumFunction(CountsOf(drones)') =
          SumFunction(CountsOf(drones)) + (s.count + 1)
             - (IF id \in DOMAIN drones THEN CountsOf(drones)[id] ELSE 0)
    BY <1>4, <1>5, <1>6, <2>1, <2>2, SumOneSet
  <2>4. SumFunction(CountsOf(drones)) \in Nat
    BY <1>4, <1>6, SumOneOut
  <2>5. SumFunction(CountsOf(drones)') = SumFunction(CountsOf(drones)) + 1
    BY <1>1, <1>2, <2>3, <2>4
  <2>6. QED BY <2>5 DEF SumCounts, CountsOf
<1>8. SumMessages(bySource)' = SumMessages(bySource) + 1
  <2> DEFINE old == IF src \in DOMAIN bySource THEN MessagesOf(bySource)[src] ELSE 0
  <2>1. ASSUME NEW q \in DOMAIN bySource, q # src
        PROVE  MessagesOf(bySource)'[q] = MessagesOf(bySource)[q]
    BY <1>3, <2>1 DEF BumpSource, Put, MessagesOf
  <2>2. MessagesOf(bySource)'[src] = old + 1 /\ old \in Nat
    <3>1. bySource'[src].messages
            = (IF src \in DOMAIN bySource THEN bySource[src].messages ELSE 0) + 1
      BY <1>3 DEF BumpSource, Put
    <3>2. MessagesOf(bySource)'[src] = bySource'[src].messages
      BY <1>3 DEF MessagesOf
    <3>3. old = IF src \in DOMAIN bySource THEN bySource[src].messages ELSE 0
      BY DEF MessagesOf
    <3>4. old \in Nat
      BY <1>4
    <3> HIDE DEF old
    <3>5. QED BY <3>1, <3>2, <3>3, <3>4
  <2>3. SumFunction(MessagesOf(bySource)') =
          SumFunction(MessagesOf(bySource)) + MessagesOf(bySource)'[src]
             - (IF src \in DOMAIN bySource THEN MessagesOf(bySource)[src] ELSE 0)
    BY <1>4, <1>5, <1>6, <2>1, SumOneSet
  <2>4. SumFunction(MessagesOf(bySource)) \in Nat
    BY <1>4, <1>6, SumOneOut
  <2>5. SumFunction(MessagesOf(bySource)') = SumFunction(MessagesOf(bySource)) + 1
    BY <2>2, <2>3, <2>4
  <2>6. QED BY <2>5 DEF SumMessages, MessagesOf
<1>9. Cardinality(DOMAIN drones') <= messagesTotal'
  <2>1. Cardinality(DOMAIN drones') <= Cardinality(DOMAIN drones) + 1
        /\ Cardinality(DOMAIN drones) \in Nat
    BY <1>1, <1>6, FS_AddElement, FS_CardinalityType
  <2>2. Cardinality(DOMAIN drones') \in Nat
    BY <1>6, FS_CardinalityType
  <2>3. QED BY <1>3, <1>4, <2>1, <2>2 DEF AddsUp
<1>10. SumCounts(drones) \in Nat
  <2>1. SumFunction(CountsOf(drones)) \in Nat
    BY <1>4, <1>6, SumOneOut
  <2>2. QED BY <2>1 DEF SumCounts, CountsOf
<1>11. Accounting'
  BY <1>3, <1>4, <1>7, <1>8, <1>10 DEF AddsUp, Accounting
<1>12. QED BY <1>6, <1>9, <1>11 DEF AddsUp

\* An eviction takes the counts of the evicted drones and nothing from the totals.
LEMMA EvictAddsUp ==
  ASSUME IInv, AddsUp, SweepEvict
  PROVE  AddsUp'
<1>1. /\ DOMAIN drones' = DOMAIN drones \ Stale
      /\ \A u \in DOMAIN drones' : drones'[u] = drones[u]
      /\ UNCHANGED messagesTotal
  BY EvictEffect
<1>2. UNCHANGED bySource
  BY DEF SweepEvict
<1>3. /\ CountsOf(drones) \in [DOMAIN drones -> Nat] /\ messagesTotal \in Nat
      /\ IsFiniteSet(DOMAIN drones)
  BY CountTypes DEF IInv, AddsUp
<1>4. /\ IsFiniteSet(DOMAIN drones') /\ DOMAIN drones' \in SUBSET DOMAIN drones
      /\ Cardinality(DOMAIN drones') <= Cardinality(DOMAIN drones)
  BY <1>1, <1>3, FS_Subset
<1>5. Cardinality(DOMAIN drones') \in Nat /\ Cardinality(DOMAIN drones) \in Nat
  BY <1>3, <1>4, FS_CardinalityType
<1>6. SumCounts(drones)' <= SumCounts(drones)
  <2>1. CountsOf(drones)' = [u \in DOMAIN drones' |-> CountsOf(drones)[u]]
    BY <1>1, <1>4 DEF CountsOf
  <2>2. SumFunction([u \in DOMAIN drones' |-> CountsOf(drones)[u]])
          <= SumFunction(CountsOf(drones))
    BY <1>3, <1>4, SumOfPart
  <2>3. SumFunction(CountsOf(drones)') <= SumFunction(CountsOf(drones))
    BY <2>1, <2>2
  <2>4. QED BY <2>3 DEF SumCounts, CountsOf
<1>7. SumCounts(drones) \in Nat /\ SumCounts(drones)' \in Nat
  <2>1. CountsOf(drones)' \in [DOMAIN drones' -> Nat]
    BY <1>1, <1>3, <1>4 DEF CountsOf
  <2>2. SumFunction(CountsOf(drones)) \in Nat /\ SumFunction(CountsOf(drones)') \in Nat
    BY <1>3, <1>4, <2>1, SumOneOut
  <2>3. QED BY <2>2 DEF SumCounts, CountsOf
<1>8. SumMessages(bySource)' = SumMessages(bySource)
  BY <1>2
<1>9. Accounting'
  BY <1>1, <1>3, <1>6, <1>7, <1>8 DEF AddsUp, Accounting
<1>10. QED BY <1>1, <1>2, <1>3, <1>4, <1>5, <1>9 DEF AddsUp

\* Every step keeps the totals.
LEMMA StepAddsUp == IInv /\ IInv' /\ AddsUp /\ [Next]_vars => AddsUp'
<1> SUFFICES ASSUME IInv, IInv', AddsUp, [Next]_vars PROVE AddsUp'
  OBVIOUS
<1>1. CASE UNCHANGED <<drones, messagesTotal, bySource>>
  BY <1>1 DEF AddsUp, Accounting, SumCounts, SumMessages
<1>2. ASSUME NEW t \in Threads, NEW id, NEW s, Commits(t, id, s) PROVE AddsUp'
  BY <1>2, CommitAddsUp DEF IInv
<1>3. CASE SweepEvict
  BY <1>3, EvictAddsUp
<1>4. QED BY <1>1, <1>2, <1>3, StepEffect

LEMMA AlwaysAddsUp == Spec => []AddsUp
BY Invariant, InitAddsUp, StepAddsUp, PTL DEF Spec

\* A copy of a cache that adds up adds up.
LEMMA CopiesAddUp ==
  ASSUME IInv, AddsUp, NEW now
  PROVE  /\ Snapshot(now).op = "snapshot" /\ Health(now).op = "health"
         /\ SumCounts(Snapshot(now).rows) <= Snapshot(now).messages
         /\ SumMessages(Health(now).sources) = Health(now).messages
         /\ Health(now).active <= Health(now).messages
<1>1. SumCounts(Snapshot(now).rows) = SumCounts(drones)
  <2> DEFINE rows == [u \in DOMAIN drones |-> RowFor(drones[u], now)]
  <2>1. \A u \in DOMAIN drones : drones[u] \in DroneState
    BY DEF IInv, TypeOK
  <2>2. \A u \in DOMAIN drones : rows[u].count = drones[u].count
    BY <2>1 DEF RowFor, DroneState
  <2>3. [u \in DOMAIN rows |-> rows[u].count] = [u \in DOMAIN drones |-> drones[u].count]
    BY <2>2
  <2>4. Snapshot(now).rows = rows
    BY DEF Snapshot
  <2> HIDE DEF rows
  <2>5. QED BY <2>3, <2>4 DEF SumCounts
<1>2. SumMessages(Health(now).sources) = SumMessages(bySource)
  <2> DEFINE sources == [src \in DOMAIN bySource |->
                           [messages |-> bySource[src].messages,
                            lastSeen |-> now - bySource[src].lastSeen]]
  <2>1. [src \in DOMAIN sources |-> sources[src].messages]
          = [src \in DOMAIN bySource |-> bySource[src].messages]
    OBVIOUS
  <2>2. Health(now).sources = sources
    BY DEF Health
  <2> HIDE DEF sources
  <2>3. QED BY <2>1, <2>2 DEF SumMessages
<1>3. /\ Snapshot(now).op = "snapshot" /\ Snapshot(now).messages = messagesTotal
      /\ Health(now).op = "health" /\ Health(now).messages = messagesTotal
      /\ Health(now).active = Cardinality(DOMAIN drones)
  BY DEF Snapshot, Health
<1>4. QED BY <1>1, <1>2, <1>3 DEF AddsUp, Accounting

-----------------------------------------------------------------------------
(* The theorems.                                                            *)

\* The message total is always the sum of the per-transport totals, and the cached
\* drones account for no more of it, across evictions (tracker.py:256-266, 481-491).
THEOREM AlwaysAccounted == Spec => []Accounting
BY AlwaysAddsUp, PTL DEF AddsUp

\* Every document a client holds is one consistent cut: its parts add up to its total
\* (tracker.py:371-470).
THEOREM DocumentsAddUp == Spec => []DocsConsistent
<1>1. Init => DocsConsistent
  BY DEF Init, DocsConsistent
<1>2. IInv /\ AddsUp /\ DocsConsistent /\ [Next]_vars => DocsConsistent'
  <2> SUFFICES ASSUME IInv, AddsUp, DocsConsistent, [Next]_vars,
                      NEW r \in Readers, docs'[r] # None
               PROVE  IF docs'[r].op = "snapshot"
                      THEN SumCounts(docs'[r].rows) <= docs'[r].messages
                      ELSE /\ SumMessages(docs'[r].sources) = docs'[r].messages
                           /\ docs'[r].active <= docs'[r].messages
    BY DEF DocsConsistent
  <2>1. CASE docs'[r] = docs[r]
    BY <2>1 DEF DocsConsistent
  <2>2. ASSUME NEW now, docs'[r] = Snapshot(now) \/ docs'[r] = Health(now)
        PROVE  IF docs'[r].op = "snapshot"
               THEN SumCounts(docs'[r].rows) <= docs'[r].messages
               ELSE /\ SumMessages(docs'[r].sources) = docs'[r].messages
                    /\ docs'[r].active <= docs'[r].messages
    BY <2>2, CopiesAddUp
  <2>3. QED BY <2>1, <2>2, DocsCopied DEF IInv
<1>3. QED BY Invariant, AlwaysAddsUp, <1>1, <1>2, PTL DEF Spec

=============================================================================
