---------------------------- MODULE TrackerProofs ----------------------------
(***************************************************************************)
(* Proofs about the drone cache, for every value of the constants.         *)
(*                                                                         *)
(* IInv is the inductive invariant: the types, the soundness of the MAC    *)
(* map, what is said of one entry, and Timely, which ties the stamps, the  *)
(* pending calls and the sweeper's cutoff to the clock.  Most steps leave  *)
(* the cache alone (CacheUnchanged); the five updates share one critical   *)
(* section (CommitKeepsIInv) and differ in the entry they start it from,   *)
(* which is a new one (NewEntry) or an old one with something learnt       *)
(* (Learnt).  The action properties and the refinement then follow from    *)
(* what a step may do to the cached drones (StepEffect).                   *)
(***************************************************************************)
EXTENDS Tracker, TLAPS, WellFoundedInduction, SequenceTheorems, FiniteSetTheorems

\* A non-empty set of naturals has a least element: what Min, a CHOOSE, returns.
LEMMA LeastPosition ==
  ASSUME NEW I \in SUBSET Nat, I # {}
  PROVE  Min(I) \in I
<1> DEFINE R == OpToRel(<, Nat)
<1>a. IsWellFoundedOn(R, Nat)
  BY NatLessThanWellFounded
<1>b. \A y, x \in Nat : <<y, x>> \in R <=> y < x
  BY DEF OpToRel
<1>c. I \subseteq Nat /\ I # {}
  OBVIOUS
<1> HIDE DEF R
<1>d. \E x \in I : \A y \in I : ~(<<y, x>> \in R)
  BY <1>a, <1>c, WFMin
<1>1. PICK x \in I : \A y \in I : ~(<<y, x>> \in R)
  BY <1>d
<1>2. ASSUME NEW y \in I PROVE x =< y
  <2>1. y \in Nat /\ x \in Nat
    BY <1>c
  <2>2. ~(<<y, x>> \in R)
    BY <1>1
  <2>3. ~(y < x)
    BY <2>1, <2>2, <1>b, Zenon
  <2>4. QED BY <2>1, <2>3
<1>3. QED BY <1>2 DEF Min

\* RemoveFirst leaves a sequence without the element alone, else drops one place.
LEMMA RemoveFirstCases ==
  ASSUME NEW S, NEW s \in Seq(S), NEW e
  PROVE  \/ /\ \A i \in 1..Len(s) : s[i] # e
            /\ RemoveFirst(s, e) = s
         \/ \E k \in 1..Len(s) :
              /\ s[k] = e
              /\ RemoveFirst(s, e) = SubSeq(s, 1, k-1) \o SubSeq(s, k+1, Len(s))
<1> DEFINE I == {i \in 1..Len(s) : s[i] = e}
<1>1. CASE I = {}
  BY <1>1 DEF RemoveFirst
<1>2. CASE I # {}
  <2>1. I \in SUBSET Nat
    OBVIOUS
  <2>2. Min(I) \in I
    BY <2>1, <1>2, LeastPosition
  <2>3. SelectInSeq(s, LAMBDA v : v = e) = Min(I)
    BY <1>2 DEF SelectInSeq
  <2>4. RemoveFirst(s, e) = RemoveAt(s, SelectInSeq(s, LAMBDA v : v = e))
    BY <1>2 DEF RemoveFirst
  <2>5. QED BY <2>2, <2>3, <2>4 DEF RemoveAt
<1>3. QED BY <1>1, <1>2

\* Touching a transport puts it first and keeps the list free of duplicates
\* (tracker.py:91-101).
LEMMA TouchSourcesInOrder ==
  ASSUME NEW S, NEW s \in Seq(S), NEW e \in S
  PROVE  /\ TouchSources(s, e) \in Seq(S)
         /\ TouchSources(s, e) # <<>>
         /\ Head(TouchSources(s, e)) = e
         /\ Range(TouchSources(s, e)) = Range(s) \cup {e}
         /\ IsInjective(s) => IsInjective(TouchSources(s, e))
<1> DEFINE r == RemoveFirst(s, e)
<1>1. /\ r \in Seq(S)
      /\ Range(s) \subseteq Range(r) \cup {e}
      /\ Range(r) \subseteq Range(s)
      /\ IsInjective(s) => IsInjective(r) /\ e \notin Range(r)
  <2>1. CASE /\ \A i \in 1..Len(s) : s[i] # e
             /\ r = s
    BY <2>1 DEF Range
  <2>2. CASE \E k \in 1..Len(s) :
               /\ s[k] = e
               /\ r = SubSeq(s, 1, k-1) \o SubSeq(s, k+1, Len(s))
    <3>1. PICK k \in 1..Len(s) :
               /\ s[k] = e
               /\ r = SubSeq(s, 1, k-1) \o SubSeq(s, k+1, Len(s))
      BY <2>2
    <3> DEFINE front == SubSeq(s, 1, k-1)
               back  == SubSeq(s, k+1, Len(s))
    <3>2. /\ front \in Seq(S) /\ Len(front) = k - 1
          /\ \A i \in 1..(k-1) : front[i] = s[i]
      BY SubSeqProperties
    <3>3. /\ back \in Seq(S) /\ Len(back) = Len(s) - k
          /\ \A i \in 1..(Len(s) - k) : back[i] = s[k + i]
      BY SubSeqProperties
    <3> HIDE DEF front, back
    <3>4. /\ r \in Seq(S) /\ Len(r) = Len(s) - 1
          /\ \A i \in 1..(Len(s) - 1) : r[i] = IF i < k THEN s[i] ELSE s[i + 1]
      <4>1. r = front \o back
        BY <3>1 DEF front, back
      <4>2. /\ r \in Seq(S) /\ Len(r) = Len(front) + Len(back)
            /\ \A i \in 1..(Len(front) + Len(back)) :
                 r[i] = IF i <= Len(front) THEN front[i] ELSE back[i - Len(front)]
        BY <4>1, <3>2, <3>3, ConcatProperties
      <4>3. ASSUME NEW i \in 1..(Len(s) - 1)
            PROVE  r[i] = IF i < k THEN s[i] ELSE s[i + 1]
        <5> HIDE DEF r
        <5>1. i \in 1..(Len(front) + Len(back))
          BY <3>2, <3>3
        <5>2. r[i] = IF i <= Len(front) THEN front[i] ELSE back[i - Len(front)]
          BY <4>2, <5>1
        <5>3. CASE i < k
          BY <5>2, <5>3, <3>2
        <5>4. CASE ~(i < k)
          <6>1. i - (k - 1) \in 1..(Len(s) - k) /\ k + (i - (k - 1)) = i + 1
            BY <5>4
          <6>2. back[i - (k - 1)] = s[k + (i - (k - 1))]
            BY <6>1, <3>3
          <6>3. QED BY <5>2, <5>4, <6>1, <6>2, <3>2
        <5>5. QED BY <5>3, <5>4
      <4>4. QED BY <4>2, <4>3, <3>2, <3>3
    <3> HIDE DEF r
    <3>5. \A j \in 1..Len(s) : j # k => \E i \in 1..Len(r) : r[i] = s[j]
      <4> SUFFICES ASSUME NEW j \in 1..Len(s), j # k
                   PROVE  \E i \in 1..Len(r) : r[i] = s[j]
        OBVIOUS
      <4>1. CASE j < k
        BY <4>1, <3>4
      <4>2. CASE j > k
        <5>1. j - 1 \in 1..Len(r) /\ r[j - 1] = s[j]
          BY <4>2, <3>4
        <5>2. QED BY <5>1
      <4>3. QED BY <4>1, <4>2
    <3>6. Range(s) \subseteq Range(r) \cup {e}
      <4> SUFFICES ASSUME NEW j \in 1..Len(s) PROVE s[j] \in Range(r) \cup {e}
        BY DEF Range
      <4>1. CASE j = k
        BY <4>1, <3>1
      <4>2. CASE j # k
        BY <4>2, <3>4, <3>5 DEF Range
      <4>3. QED BY <4>1, <4>2
    <3>7. Range(r) \subseteq Range(s)
      BY <3>4 DEF Range
    <3>8. ASSUME IsInjective(s) PROVE IsInjective(r) /\ e \notin Range(r)
      <4>1. \A i, j \in 1..Len(s) : s[i] = s[j] => i = j
        BY <3>8 DEF IsInjective
      <4>2. \A i, j \in 1..Len(r) : r[i] = r[j] => i = j
        BY <4>1, <3>4
      <4>3. \A i \in 1..Len(r) : r[i] # e
        <5> SUFFICES ASSUME NEW i \in 1..Len(r) PROVE r[i] # e
          OBVIOUS
        <5>1. CASE i < k
          <6>1. r[i] = s[i] /\ i \in 1..Len(s) /\ i # k
            BY <5>1, <3>4
          <6>2. QED BY <6>1, <4>1, <3>1
        <5>2. CASE ~(i < k)
          <6>1. r[i] = s[i + 1] /\ i + 1 \in 1..Len(s) /\ i + 1 # k
            BY <5>2, <3>4
          <6>2. QED BY <6>1, <4>1, <3>1
        <5>3. QED BY <5>1, <5>2
      <4>4. QED BY <4>2, <4>3, <3>4 DEF IsInjective, Range
    <3>9. QED BY <3>4, <3>6, <3>7, <3>8
  <2>3. QED BY <2>1, <2>2, RemoveFirstCases
<1> HIDE DEF r
<1>2. /\ <<e>> \in Seq(S) /\ Len(<<e>>) = 1 /\ <<e>>[1] = e
  OBVIOUS
<1>3. TouchSources(s, e) = <<e>> \o r
  BY DEF TouchSources, Cons, r
<1> DEFINE q == <<e>> \o r
<1>4. /\ q \in Seq(S) /\ Len(q) = Len(r) + 1
      /\ q[1] = e /\ \A i \in 2..(Len(r) + 1) : q[i] = r[i - 1]
  BY <1>1, <1>2, ConcatProperties
<1> HIDE DEF q
<1>5. q # <<>> /\ Head(q) = e
  BY <1>4, <1>1
<1>6. \A i \in 1..Len(r) : i + 1 \in 1..Len(q) /\ q[i + 1] = r[i]
  BY <1>4, <1>1
<1>7. Range(q) = Range(r) \cup {e}
  <2>1. ASSUME NEW i \in 1..Len(q) PROVE q[i] \in Range(r) \cup {e}
    <3>1. CASE i = 1
      BY <3>1, <1>4
    <3>2. CASE i # 1
      <4>1. i - 1 \in 1..Len(r) /\ q[i] = r[i - 1]
        BY <3>2, <1>1, <1>4
      <4>2. QED BY <4>1, <1>1 DEF Range
    <3>3. QED BY <3>1, <3>2
  <2>2. e \in Range(q)
    BY <1>1, <1>4 DEF Range
  <2>3. ASSUME NEW i \in 1..Len(r) PROVE r[i] \in Range(q)
    BY <1>4, <1>6 DEF Range
  <2>4. Range(q) \subseteq Range(r) \cup {e}
    <3>1. ASSUME NEW x \in Range(q) PROVE \E i \in 1..Len(q) : x = q[i]
      BY <1>4 DEF Range
    <3>2. QED BY <3>1, <2>1
  <2>5. Range(r) \subseteq Range(q)
    <3>1. ASSUME NEW x \in Range(r) PROVE \E i \in 1..Len(r) : x = r[i]
      BY <1>1 DEF Range
    <3>2. QED BY <3>1, <2>3
  <2>6. QED BY <2>2, <2>4, <2>5
<1>8. ASSUME IsInjective(s) PROVE IsInjective(q)
  <2>1. \A i, j \in 1..Len(r) : r[i] = r[j] => i = j
    BY <1>1, <1>8 DEF IsInjective
  <2>2. \A i \in 1..Len(r) : r[i] # e
    BY <1>1, <1>8 DEF Range
  <2>3. \A i, j \in 1..Len(q) : q[i] = q[j] => i = j
    BY <2>1, <2>2, <1>1, <1>4
  <2>4. QED BY <2>3, <1>4 DEF IsInjective
<1>9. Range(q) = Range(s) \cup {e}
  BY <1>7, <1>1 DEF Range
<1>10. QED BY <1>3, <1>4, <1>5, <1>8, <1>9 DEF q

-----------------------------------------------------------------------------
(* Messages and entries.                                                    *)

\* The fields of a message of each kind.
LEMMA MessageFields ==
  ASSUME NEW m \in Message
  PROVE  /\ m.mac \in Macs /\ m.src \in Sources /\ m.rssi \in Rssis
         /\ m.kind = "basic_id" => /\ m.id \in UasIds /\ m.idType \in IdTypes
                                   /\ m.uaType \in OrNone(UaTypes)
         /\ m.kind = "location" => m.report \in Reports
         /\ m.kind = "system" => /\ m.op \in OpFixes \cup {NoOpFix}
                                 /\ m.opAlt \in OrNone(OpAlts)
         /\ m.kind = "self_id" => m.text \in OrNone(SelfIds)
         /\ m.kind = "operator_id" => m.text \in OrNone(OperatorIds)
BY DEF Message

\* What Heard does to an entry: the bookkeeping fields only.
LEMMA HeardEntry ==
  ASSUME NEW s \in DroneState, NEW m \in Message, NEW now \in Nat
  PROVE  LET h == Heard(s, m, now) IN
         /\ h \in DroneState
         /\ h.source = m.src /\ h.lastSeen = now /\ h.count = s.count + 1
         /\ h.sources = TouchSources(s.sources, m.src)
         /\ EntryDated(s) => EntryDated(h)
         /\ EntryLabelled(s) => EntryLabelled(h)
         /\ EntryOfOneReport(s) => EntryOfOneReport(h)
         /\ h.idType = s.idType
         /\ \A f \in KeptFields : h[f] = s[f]
<1>0. m.src \in Sources /\ m.rssi \in Rssis
  BY MessageFields
<1>1. TouchSources(s.sources, m.src) \in Seq(Sources)
  BY <1>0, TouchSourcesInOrder DEF DroneState
<1>2. Heard(s, m, now) =
        [s EXCEPT !.rssi = m.rssi, !.source = m.src,
                  !.sources = TouchSources(s.sources, m.src),
                  !.count = s.count + 1, !.lastSeen = now]
  BY DEF Heard
<1> DEFINE h == Heard(s, m, now)
<1>3. h \in DroneState
  <2>1. m.src \in OrNone(Sources) /\ m.rssi \in OrNone(Rssis) /\ s.count + 1 \in Nat
    BY <1>0 DEF OrNone, DroneState
  <2>2. QED BY <1>1, <1>2, <2>1 DEF DroneState
<1>4. /\ h.source = m.src /\ h.lastSeen = now /\ h.count = s.count + 1
      /\ h.sources = TouchSources(s.sources, m.src)
      /\ h.idType = s.idType /\ h.uaType = s.uaType /\ h.fix = s.fix
      /\ h.flight = s.flight
      /\ h.opPos = s.opPos /\ h.opType = s.opType /\ h.opAlt = s.opAlt
      /\ h.operatorId = s.operatorId /\ h.selfId = s.selfId
      /\ h.lastPos = s.lastPos /\ h.lastOp = s.lastOp /\ h.lastSelf = s.lastSelf
  BY <1>2 DEF DroneState
<1> HIDE DEF h
<1>5. /\ EntryDated(s) => EntryDated(h)
      /\ EntryLabelled(s) => EntryLabelled(h)
      /\ EntryOfOneReport(s) => EntryOfOneReport(h)
  BY <1>4 DEF EntryDated, EntryLabelled, EntryOfOneReport
<1>6. \A f \in KeptFields : h[f] = s[f]
  BY <1>4 DEF KeptFields
<1>7. QED BY <1>3, <1>4, <1>5, <1>6 DEF h

\* What a new entry is.
LEMMA NewEntry ==
  ASSUME NEW m \in Message, m.kind = "basic_id"
  PROVE  /\ NewDrone(m) \in DroneState
         /\ NewDrone(m).sources = <<>> /\ NewDrone(m).count = 0
         /\ EntryDated(NewDrone(m)) /\ EntryLabelled(NewDrone(m))
         /\ EntryOfOneReport(NewDrone(m))
BY MessageFields
   DEF NewDrone, FreshState, DroneState, OrNone, EntryDated, EntryLabelled, EntryOfOneReport,
       NoOpFix, NoReport

\* Entry n is entry s with something learnt: it is of the same drone and has
\* forgotten nothing.
Learnt(s, n) ==
    /\ n \in DroneState
    /\ n.sources = s.sources /\ n.count = s.count
    /\ EntryDated(s) => EntryDated(n)
    /\ EntryLabelled(s) => EntryLabelled(n)
    /\ EntryOfOneReport(s) => EntryOfOneReport(n)
    /\ n.idType = s.idType
    /\ s.uaType # None => n.uaType = s.uaType
    /\ \A f \in KeptFields : s[f] # None => n[f] # None

\* A Basic ID of a cached drone teaches at most its UA type.
LEMMA IdentifiedLearns ==
  ASSUME NEW s \in DroneState, NEW m \in Message, m.kind = "basic_id"
  PROVE  Learnt(s, Identified(s, m))
<1> DEFINE n == Identified(s, m)
<1>1. n = [s EXCEPT !.uaType = IF s.uaType = None THEN m.uaType ELSE s.uaType]
  BY DEF Identified
<1>2. m.uaType \in OrNone(UaTypes)
  BY MessageFields
<1>3. n \in DroneState
  BY <1>1, <1>2 DEF DroneState
<1>4. /\ n.sources = s.sources /\ n.count = s.count /\ n.idType = s.idType
      /\ s.uaType # None => n.uaType = s.uaType
      /\ n.fix = s.fix /\ n.flight = s.flight
      /\ n.opPos = s.opPos /\ n.opType = s.opType
      /\ n.opAlt = s.opAlt /\ n.operatorId = s.operatorId /\ n.selfId = s.selfId
      /\ n.lastPos = s.lastPos /\ n.lastOp = s.lastOp /\ n.lastSelf = s.lastSelf
  BY <1>1 DEF DroneState
<1> HIDE DEF n
<1>5. QED BY <1>3, <1>4 DEF Learnt, EntryDated, EntryLabelled, EntryOfOneReport, KeptFields, n

\* A Location teaches a position with its flight data, and its date.
LEMMA LocatedLearns ==
  ASSUME NEW s \in DroneState, NEW m \in Message, m.kind = "location", NEW now \in Nat
  PROVE  Learnt(s, Located(s, m, now))
<1> DEFINE n      == Located(s, m, now)
           pos    == m.report.pos
           flight == m.report.flight
<1>1. /\ m.report \in Reports /\ m.report = [pos |-> pos, flight |-> flight]
      /\ pos # None
  BY MessageFields, ReportsOK
<1>2. /\ pos \in OrNone({r.pos : r \in Reports})
      /\ flight \in {NoFlight} \cup {r.flight : r \in Reports}
      /\ now \in OrNone(Nat) /\ now # None
  BY <1>1, NoneIsNoValue DEF OrNone
<1>3. n = [s EXCEPT !.fix = pos, !.flight = flight, !.lastPos = now]
  BY DEF Located
<1> HIDE DEF pos, flight, n
<1>4. n \in DroneState
  BY <1>2, <1>3 DEF DroneState
<1>5. /\ n.sources = s.sources /\ n.count = s.count /\ n.idType = s.idType
      /\ n.uaType = s.uaType
      /\ n.fix = pos /\ n.flight = flight
      /\ n.opPos = s.opPos /\ n.opType = s.opType
      /\ n.opAlt = s.opAlt /\ n.operatorId = s.operatorId /\ n.selfId = s.selfId
      /\ n.lastPos = now /\ n.lastOp = s.lastOp /\ n.lastSelf = s.lastSelf
  BY <1>3 DEF DroneState
<1>6. EntryOfOneReport(n)
  BY <1>1, <1>5 DEF EntryOfOneReport
<1>7. QED BY <1>1, <1>2, <1>4, <1>5, <1>6 DEF Learnt, EntryDated, EntryLabelled, KeptFields, n

\* A System message keeps coordinate and type together, and dates the block.
LEMMA OperatorBlockLearns ==
  ASSUME NEW s \in DroneState, NEW m \in Message, m.kind = "system", NEW now \in Nat
  PROVE  Learnt(s, OperatorBlock(s, m, now))
<1> DEFINE n   == OperatorBlock(s, m, now)
           pos  == Keep(s.opPos, m.op.pos)
           type == Keep(s.opType, m.op.type)
           alt  == Keep(s.opAlt, m.opAlt)
<1>1. m.op \in OpFixes \cup {NoOpFix} /\ m.opAlt \in OrNone(OpAlts)
  BY MessageFields
<1>2. now \in OrNone(Nat) /\ now # None
  BY NoneIsNoValue DEF OrNone
<1>3. /\ pos \in OrNone({o.pos : o \in OpFixes})
      /\ type \in OrNone({o.type : o \in OpFixes})
      /\ alt \in OrNone(OpAlts)
  BY <1>1 DEF Keep, OrNone, DroneState, NoOpFix
<1>4. /\ s.opPos # None => pos # None
      /\ s.opType # None => type # None
      /\ s.opAlt # None => alt # None
  BY DEF Keep
<1>5. EntryLabelled(s) => [pos |-> pos, type |-> type] \in OpFixes \cup {NoOpFix}
  <2>1. CASE m.op = NoOpFix
    BY <2>1 DEF Keep, NoOpFix, EntryLabelled
  <2>2. CASE m.op \in OpFixes
    <3>1. m.op.pos # None /\ m.op.type # None /\ m.op = [pos |-> m.op.pos, type |-> m.op.type]
      BY <2>2, OpFixesOK
    <3>2. QED BY <2>2, <3>1 DEF Keep
  <2>3. QED BY <1>1, <2>1, <2>2
<1>6. n = [s EXCEPT !.opPos = pos, !.opType = type, !.opAlt = alt, !.lastOp = now]
  BY DEF OperatorBlock
<1> HIDE DEF pos, type, alt, n
<1>7. n \in DroneState
  BY <1>2, <1>3, <1>6 DEF DroneState
<1>8. /\ n.sources = s.sources /\ n.count = s.count /\ n.idType = s.idType
      /\ n.uaType = s.uaType
      /\ n.fix = s.fix /\ n.flight = s.flight
      /\ n.opPos = pos /\ n.opType = type
      /\ n.opAlt = alt /\ n.operatorId = s.operatorId /\ n.selfId = s.selfId
      /\ n.lastPos = s.lastPos /\ n.lastOp = now /\ n.lastSelf = s.lastSelf
  BY <1>6 DEF DroneState
<1>9. QED BY <1>2, <1>4, <1>5, <1>7, <1>8
          DEF Learnt, EntryDated, EntryLabelled, EntryOfOneReport, KeptFields, n

\* A Self-ID keeps an earlier text when it is blank.
LEMMA DescribedLearns ==
  ASSUME NEW s \in DroneState, NEW m \in Message, m.kind = "self_id", NEW now \in Nat
  PROVE  Learnt(s, Described(s, m, now))
<1> DEFINE n == Described(s, m, now)
           text == Keep(s.selfId, m.text)
<1>1. text \in OrNone(SelfIds) /\ (s.selfId # None => text # None)
  BY MessageFields DEF Keep, DroneState
<1>2. now \in OrNone(Nat) /\ now # None
  BY NoneIsNoValue DEF OrNone
<1>3. n = [s EXCEPT !.selfId = text, !.lastSelf = now]
  BY DEF Described
<1> HIDE DEF text, n
<1>4. n \in DroneState
  BY <1>1, <1>2, <1>3 DEF DroneState
<1>5. /\ n.sources = s.sources /\ n.count = s.count /\ n.idType = s.idType
      /\ n.uaType = s.uaType
      /\ n.fix = s.fix /\ n.flight = s.flight
      /\ n.opPos = s.opPos /\ n.opType = s.opType
      /\ n.opAlt = s.opAlt /\ n.operatorId = s.operatorId /\ n.selfId = text
      /\ n.lastPos = s.lastPos /\ n.lastOp = s.lastOp /\ n.lastSelf = now
  BY <1>3 DEF DroneState
<1>6. QED BY <1>1, <1>2, <1>4, <1>5
          DEF Learnt, EntryDated, EntryLabelled, EntryOfOneReport, KeptFields, n

\* An Operator ID keeps an earlier one when it is blank.
LEMMA RegisteredLearns ==
  ASSUME NEW s \in DroneState, NEW m \in Message, m.kind = "operator_id", NEW now \in Nat
  PROVE  Learnt(s, Registered(s, m, now))
<1> DEFINE n == Registered(s, m, now)
           text == Keep(s.operatorId, m.text)
<1>1. text \in OrNone(OperatorIds) /\ (s.operatorId # None => text # None)
  BY MessageFields DEF Keep, DroneState
<1>2. now \in OrNone(Nat) /\ now # None
  BY NoneIsNoValue DEF OrNone
<1>3. n = [s EXCEPT !.operatorId = text, !.lastOp = now]
  BY DEF Registered
<1> HIDE DEF text, n
<1>4. n \in DroneState
  BY <1>1, <1>2, <1>3 DEF DroneState
<1>5. /\ n.sources = s.sources /\ n.count = s.count /\ n.idType = s.idType
      /\ n.uaType = s.uaType
      /\ n.fix = s.fix /\ n.flight = s.flight
      /\ n.opPos = s.opPos /\ n.opType = s.opType
      /\ n.opAlt = s.opAlt /\ n.operatorId = text /\ n.selfId = s.selfId
      /\ n.lastPos = s.lastPos /\ n.lastOp = now /\ n.lastSelf = s.lastSelf
  BY <1>3 DEF DroneState
<1>6. QED BY <1>1, <1>2, <1>4, <1>5
          DEF Learnt, EntryDated, EntryLabelled, EntryOfOneReport, KeptFields, n

-----------------------------------------------------------------------------
(* The inductive invariant.                                                 *)

IInv ==
    /\ TypeOK
    /\ MacMapSound
    /\ SourcesInOrder
    /\ Dated
    /\ OperatorLabelled
    /\ FlightOfPosition
    /\ Timely

\* The empty cache satisfies the invariant.
LEMMA InitIInv == Init => IInv
<1> SUFFICES ASSUME Init PROVE IInv
  OBVIOUS
<1>1. DOMAIN drones = {} /\ DOMAIN macToUas = {} /\ DOMAIN bySource = {}
  BY DEF Init, EmptyMap
<1>2. TypeOK
  <2>1. /\ drones \in [DOMAIN drones -> DroneState]
        /\ macToUas \in [DOMAIN macToUas -> UasIds]
        /\ bySource \in [DOMAIN bySource -> [messages : Nat, lastSeen : Nat]]
    BY DEF Init, EmptyMap
  <2>2. /\ call \in [Threads -> OrNone([msg : Message, now : Nat])]
        /\ hook \in OrNone([thread : Threads, id : UasIds, now : Nat])
        /\ reading \in [Readers -> OrNone([op : {"snapshot", "health"}, now : Nat])]
        /\ DOMAIN docs = Readers
    BY DEF Init, OrNone
  <2>3. /\ clock \in Nat /\ messagesTotal \in Nat /\ cutoff \in Int /\ rxLeft \in Nat
        /\ expiring \subseteq UasIds
    BY ConstantsOK DEF Init
  <2>4. sweep \in {"waiting", "cutoff", "firing", "done"} /\ stopped \in BOOLEAN
    BY DEF Init
  <2>5. DOMAIN drones \subseteq UasIds /\ DOMAIN macToUas \subseteq Macs
        /\ DOMAIN bySource \subseteq Sources
    BY <1>1
  <2>6. QED BY <2>1, <2>2, <2>3, <2>4, <2>5 DEF TypeOK
<1>3. Timely
  BY <1>1 DEF Init, Timely
<1>4. QED BY <1>1, <1>2, <1>3
          DEF IInv, MacMapSound, SourcesInOrder, Dated, OperatorLabelled, FlightOfPosition

\* The parts of a pending call.
LEMMA CallFields ==
  ASSUME TypeOK, NEW t \in Threads, call[t] # None
  PROVE  call[t].msg \in Message /\ call[t].now \in Nat /\ call[t].msg.src \in Sources
<1>1. call[t] \in [msg : Message, now : Nat]
  BY DEF TypeOK, OrNone
<1>2. QED BY <1>1, MessageFields

\* The critical section shared by the five updates keeps the invariant whatever
\* the entry it starts from, provided that the MAC map it leaves is sound.
LEMMA CommitKeepsIInv ==
  ASSUME IInv, NEW t \in Threads, call[t] # None,
         NEW id \in UasIds, NEW s \in DroneState,
         EntryDated(s), EntryLabelled(s), EntryOfOneReport(s),
         s.sources = <<>> \/ EntryInOrder(s, DOMAIN bySource),
         Commit(t, id, s),
         DOMAIN macToUas' \subseteq Macs, macToUas' \in [DOMAIN macToUas' -> UasIds],
         \A m \in DOMAIN macToUas' : macToUas'[m] \in DOMAIN drones \cup {id}
  PROVE  IInv'
<1> DEFINE src == call[t].msg.src
           now == call[t].now
           h   == Heard(s, call[t].msg, now)
<1>1. call[t].msg \in Message /\ now \in Nat /\ src \in Sources /\ now <= clock
  BY CallFields DEF IInv, Timely
<1>2. /\ h \in DroneState /\ h.lastSeen = now
      /\ EntryDated(h) /\ EntryLabelled(h) /\ EntryOfOneReport(h)
      /\ h.source = src /\ h.sources = TouchSources(s.sources, src)
  BY <1>1, HeardEntry
<1>3. /\ DOMAIN drones' = DOMAIN drones \cup {id}
      /\ drones'[id] = h
      /\ \A u \in DOMAIN drones : u # id => drones'[u] = drones[u]
      /\ drones' = [u \in DOMAIN drones' |-> drones'[u]]
  BY DEF Commit, Put
<1>4. /\ DOMAIN bySource' = DOMAIN bySource \cup {src}
      /\ bySource' \in [DOMAIN bySource' -> [messages : Nat, lastSeen : Nat]]
  BY <1>1 DEF Commit, BumpSource, Put, IInv, TypeOK
<1>5. call' = [call EXCEPT ![t] = None] /\ hook' = [thread |-> t, id |-> id, now |-> now]
  BY DEF Commit
<1>6. UNCHANGED <<clock, sweep, cutoff, expiring, reading, docs, stopped, rxLeft>>
  BY DEF Commit, sweepVars, readVars
<1> HIDE DEF h, now, src
<1>7. TypeOK'
  <2>1. DOMAIN drones' \subseteq UasIds /\ drones' \in [DOMAIN drones' -> DroneState]
    BY <1>2, <1>3 DEF IInv, TypeOK
  <2>2. DOMAIN bySource' \subseteq Sources
    BY <1>1, <1>4 DEF IInv, TypeOK
  <2>3. messagesTotal' \in Nat
    BY DEF Commit, IInv, TypeOK
  <2>4. /\ call' \in [Threads -> OrNone([msg : Message, now : Nat])]
        /\ hook' \in OrNone([thread : Threads, id : UasIds, now : Nat])
    BY <1>1, <1>5 DEF IInv, TypeOK, OrNone
  <2>5. QED BY <2>1, <2>2, <2>3, <2>4, <1>4, <1>6 DEF IInv, TypeOK
<1>8. MacMapSound'
  BY <1>3 DEF MacMapSound
<1>9. SourcesInOrder'
  <2>1. /\ s.sources \in Seq(Sources) /\ IsInjective(s.sources)
        /\ Range(s.sources) \subseteq DOMAIN bySource
    <3>1. CASE s.sources = <<>>
      BY <3>1 DEF IsInjective, Range, DroneState
    <3>2. CASE EntryInOrder(s, DOMAIN bySource)
      BY <3>2 DEF EntryInOrder, DroneState
    <3>3. QED BY <3>1, <3>2
  <2>2. EntryInOrder(h, DOMAIN bySource')
    <3> DEFINE touched == TouchSources(s.sources, src)
    <3>1. /\ touched # <<>> /\ Head(touched) = src
          /\ Range(touched) = Range(s.sources) \cup {src}
          /\ IsInjective(s.sources) => IsInjective(touched)
      BY <1>1, <2>1, TouchSourcesInOrder
    <3> HIDE DEF touched
    <3>2. h.sources = touched /\ h.source = src
      BY <1>2 DEF touched
    <3>3. QED BY <3>1, <3>2, <2>1, <1>4 DEF EntryInOrder
  <2>3. ASSUME NEW u \in DOMAIN drones', u # id
        PROVE  EntryInOrder(drones'[u], DOMAIN bySource')
    BY <2>3, <1>3, <1>4 DEF IInv, SourcesInOrder, EntryInOrder
  <2>4. QED BY <2>2, <2>3, <1>3 DEF SourcesInOrder
<1>10. Dated' /\ OperatorLabelled' /\ FlightOfPosition'
  BY <1>2, <1>3 DEF IInv, Dated, OperatorLabelled, FlightOfPosition,
              EntryDated, EntryLabelled, EntryOfOneReport
<1>11. Timely'
  BY <1>1, <1>2, <1>3, <1>5, <1>6 DEF IInv, Timely, TypeOK
<1>12. QED BY <1>7, <1>8, <1>9, <1>10, <1>11 DEF IInv

\* update_basic_id makes or identifies the drone and maps the MAC to it.
LEMMA UpdateBasicIdKeepsIInv ==
  ASSUME IInv, NEW t \in Threads, UpdateBasicId(t)
  PROVE  IInv'
<1> DEFINE m == call[t].msg
           s == IF m.id \in DOMAIN drones THEN Identified(drones[m.id], m) ELSE NewDrone(m)
<1>1. call[t] # None /\ m.kind = "basic_id" /\ Commit(t, m.id, s)
      /\ macToUas' = Put(macToUas, m.mac, m.id)
  BY DEF UpdateBasicId, Handling
<1>2. m \in Message /\ m.id \in UasIds /\ m.mac \in Macs
  BY <1>1, CallFields, MessageFields DEF IInv
<1>3. /\ DOMAIN macToUas' \subseteq Macs /\ macToUas' \in [DOMAIN macToUas' -> UasIds]
      /\ \A n \in DOMAIN macToUas' : macToUas'[n] \in DOMAIN drones \cup {m.id}
  BY <1>1, <1>2 DEF Put, IInv, TypeOK, MacMapSound
<1>4. /\ s \in DroneState /\ EntryDated(s) /\ EntryLabelled(s) /\ EntryOfOneReport(s)
      /\ s.sources = <<>> \/ EntryInOrder(s, DOMAIN bySource)
  <2>1. CASE m.id \in DOMAIN drones
    <3> DEFINE old == drones[m.id]
    <3>1. /\ old \in DroneState /\ EntryDated(old) /\ EntryLabelled(old)
          /\ EntryOfOneReport(old) /\ EntryInOrder(old, DOMAIN bySource)
      BY <2>1 DEF IInv, TypeOK, Dated, OperatorLabelled, FlightOfPosition, SourcesInOrder
    <3>2. Learnt(old, Identified(old, m)) /\ s = Identified(old, m)
      BY <2>1, <3>1, <1>1, <1>2, IdentifiedLearns
    <3>3. s.source = old.source
      BY <3>1, <3>2 DEF Identified, DroneState
    <3> HIDE DEF old, s, m
    <3>4. QED BY <3>1, <3>2, <3>3 DEF Learnt, EntryInOrder
  <2>2. CASE m.id \notin DOMAIN drones
    BY <2>2, <1>1, <1>2, NewEntry
  <2>3. QED BY <2>1, <2>2
<1> HIDE DEF m, s
<1>5. QED BY <1>1, <1>2, <1>3, <1>4, CommitKeepsIInv

\* The four updates that need a mapped MAC start from the entry of its drone.
LEMMA KnownKeepsIInv ==
  ASSUME IInv, NEW t \in Threads, call[t] # None,
         NEW id, id = DroneForMac(call[t].msg.mac), id # None,
         NEW s, Learnt(drones[id], s), s.source = drones[id].source,
         Commit(t, id, s), UNCHANGED macToUas
  PROVE  IInv'
<1>1. id \in DOMAIN drones /\ id \in UasIds
  BY DEF DroneForMac, IInv, TypeOK
<1>2. /\ drones[id] \in DroneState /\ EntryDated(drones[id]) /\ EntryLabelled(drones[id])
      /\ EntryOfOneReport(drones[id]) /\ EntryInOrder(drones[id], DOMAIN bySource)
  BY <1>1 DEF IInv, TypeOK, Dated, OperatorLabelled, FlightOfPosition, SourcesInOrder
<1>3. /\ s \in DroneState /\ EntryDated(s) /\ EntryLabelled(s) /\ EntryOfOneReport(s)
      /\ EntryInOrder(s, DOMAIN bySource)
  BY <1>2 DEF Learnt, EntryInOrder
<1>4. /\ DOMAIN macToUas' \subseteq Macs /\ macToUas' \in [DOMAIN macToUas' -> UasIds]
      /\ \A n \in DOMAIN macToUas' : macToUas'[n] \in DOMAIN drones \cup {id}
  BY DEF IInv, TypeOK, MacMapSound
<1>5. QED BY <1>1, <1>3, <1>4, CommitKeepsIInv

\* The entry an update of a known drone commits, whatever the message type.
LEMMA KnownUpdate ==
  ASSUME IInv, NEW t \in Threads,
         \/ UpdateLocation(t) \/ UpdateSystem(t) \/ UpdateSelfId(t) \/ UpdateOperatorId(t)
  PROVE  LET id == DroneForMac(call[t].msg.mac) IN
         /\ call[t] # None /\ id # None /\ UNCHANGED macToUas
         /\ \E s : /\ Learnt(drones[id], s) /\ s.source = drones[id].source
                   /\ Commit(t, id, s)
<1> DEFINE m == call[t].msg
           now == call[t].now
           id == DroneForMac(m.mac)
           old == drones[id]
<1>1. call[t] # None /\ id # None /\ UNCHANGED macToUas
  BY DEF UpdateLocation, UpdateSystem, UpdateSelfId, UpdateOperatorId, UpdateKnown, Handling
<1>2. m \in Message /\ now \in Nat /\ old \in DroneState
  BY <1>1, CallFields DEF IInv, TypeOK, DroneForMac
<1>3. CASE UpdateLocation(t)
  <2>1. m.kind = "location" /\ Commit(t, id, Located(old, m, now))
    BY <1>3 DEF UpdateLocation, UpdateKnown, Handling
  <2>2. Located(old, m, now).source = old.source
    BY <1>2 DEF Located, DroneState
  <2>3. QED BY <2>1, <2>2, <1>1, <1>2, LocatedLearns
<1>4. CASE UpdateSystem(t)
  <2>1. m.kind = "system" /\ Commit(t, id, OperatorBlock(old, m, now))
    BY <1>4 DEF UpdateSystem, UpdateKnown, Handling
  <2>2. OperatorBlock(old, m, now).source = old.source
    BY <1>2 DEF OperatorBlock, DroneState
  <2>3. QED BY <2>1, <2>2, <1>1, <1>2, OperatorBlockLearns
<1>5. CASE UpdateSelfId(t)
  <2>1. m.kind = "self_id" /\ Commit(t, id, Described(old, m, now))
    BY <1>5 DEF UpdateSelfId, UpdateKnown, Handling
  <2>2. Described(old, m, now).source = old.source
    BY <1>2 DEF Described, DroneState
  <2>3. QED BY <2>1, <2>2, <1>1, <1>2, DescribedLearns
<1>6. CASE UpdateOperatorId(t)
  <2>1. m.kind = "operator_id" /\ Commit(t, id, Registered(old, m, now))
    BY <1>6 DEF UpdateOperatorId, UpdateKnown, Handling
  <2>2. Registered(old, m, now).source = old.source
    BY <1>2 DEF Registered, DroneState
  <2>3. QED BY <2>1, <2>2, <1>1, <1>2, RegisteredLearns
<1>7. QED BY <1>3, <1>4, <1>5, <1>6

\* Steps that leave the cache alone keep what is said of it.
LEMMA CacheUnchanged ==
  ASSUME IInv, UNCHANGED cacheVars
  PROVE  MacMapSound' /\ SourcesInOrder' /\ Dated' /\ OperatorLabelled' /\ FlightOfPosition'
<1>1. drones' = drones /\ macToUas' = macToUas /\ bySource' = bySource
  BY DEF cacheVars
<1>2. MacMapSound' /\ Dated' /\ OperatorLabelled' /\ FlightOfPosition'
  BY <1>1 DEF IInv, MacMapSound, Dated, OperatorLabelled, FlightOfPosition
<1>3. SourcesInOrder'
  BY <1>1 DEF IInv, SourcesInOrder
<1>4. QED BY <1>2, <1>3

\* A sweep takes the mappings of the drones it evicts.
LEMMA SweepEvictKeepsIInv ==
  ASSUME IInv, SweepEvict
  PROVE  IInv'
<1>1. /\ drones' = Restrict(drones, DOMAIN drones \ Stale)
      /\ macToUas' = Restrict(macToUas, LiveMacs(Stale))
      /\ expiring' = Stale /\ sweep' = IF Stale = {} THEN "waiting" ELSE "firing"
      /\ cutoff' = 0
      /\ UNCHANGED <<clock, messagesTotal, bySource, call, hook, reading, docs, stopped, rxLeft>>
  BY DEF SweepEvict, readVars
<1>2. Stale \subseteq DOMAIN drones /\ Stale \subseteq UasIds
  BY DEF Stale, IInv, TypeOK
<1>3. /\ DOMAIN drones' = DOMAIN drones \ Stale
      /\ \A u \in DOMAIN drones' : drones'[u] = drones[u]
      /\ drones' = [u \in DOMAIN drones' |-> drones'[u]]
  BY <1>1 DEF Restrict
<1>4. /\ DOMAIN macToUas' = {m \in DOMAIN macToUas : macToUas[m] \in DOMAIN drones \ Stale}
      /\ \A m \in DOMAIN macToUas' : macToUas'[m] = macToUas[m]
      /\ macToUas' = [m \in DOMAIN macToUas' |-> macToUas'[m]]
  BY <1>1 DEF Restrict, LiveMacs
<1>5. TypeOK'
  <2>1. DOMAIN drones' \subseteq UasIds /\ drones' \in [DOMAIN drones' -> DroneState]
    BY <1>3 DEF IInv, TypeOK
  <2>2. DOMAIN macToUas' \subseteq Macs /\ macToUas' \in [DOMAIN macToUas' -> UasIds]
    BY <1>4 DEF IInv, TypeOK
  <2>3. sweep' \in {"waiting", "cutoff", "firing", "done"} /\ cutoff' \in Int
        /\ expiring' \subseteq UasIds
    BY <1>1, <1>2
  <2>4. QED BY <1>1, <2>1, <2>2, <2>3 DEF IInv, TypeOK
<1>6. MacMapSound'
  BY <1>3, <1>4 DEF MacMapSound
<1>7. SourcesInOrder' /\ Dated' /\ OperatorLabelled' /\ FlightOfPosition'
  <2>1. SourcesInOrder'
    BY <1>1, <1>3 DEF IInv, SourcesInOrder
  <2>2. Dated' /\ OperatorLabelled' /\ FlightOfPosition'
    BY <1>3 DEF IInv, Dated, OperatorLabelled, FlightOfPosition
  <2>3. QED BY <2>1, <2>2
<1>8. Timely'
  BY <1>1, <1>3 DEF IInv, Timely
<1>9. QED BY <1>5, <1>6, <1>7, <1>8 DEF IInv

\* IInv is inductive: one case per action.
LEMMA NextKeepsIInv == IInv /\ [Next]_vars => IInv'
<1> SUFFICES ASSUME IInv, [Next]_vars PROVE IInv'
  OBVIOUS
<1>1. ASSUME Tick PROVE IInv'
  <2>1. /\ clock' = clock + 1 /\ clock \in Nat /\ clock' \in Nat
        /\ UNCHANGED <<cacheVars, call, hook, sweepVars, readVars, stopped, rxLeft>>
    BY <1>1 DEF Tick, IInv, TypeOK
  <2>2. TypeOK'
    BY <2>1 DEF IInv, TypeOK, cacheVars, sweepVars, readVars
  <2>3. /\ \A u \in DOMAIN drones : drones[u].lastSeen \in Nat
        /\ \A t \in Threads : call[t] # None => call[t].now \in Nat
        /\ cutoff \in Int /\ Ttl \in Nat
    BY CallFields, ConstantsOK DEF IInv, TypeOK, DroneState
  <2>4. Timely'
    BY <2>1, <2>3 DEF IInv, Timely, cacheVars, sweepVars
  <2>5. QED BY <2>1, <2>2, <2>4, CacheUnchanged DEF IInv
<1>2. ASSUME NEW t \in Threads, Receive(t) PROVE IInv'
  <2>1. PICK m \in OnAir(t) : call' = [call EXCEPT ![t] = [msg |-> m, now |-> clock]]
    BY <1>2 DEF Receive
  <2>2. /\ rxLeft' = rxLeft - 1 /\ rxLeft > 0
        /\ UNCHANGED <<clock, cacheVars, hook, sweep, cutoff, expiring, reading, docs, stopped>>
    BY <1>2 DEF Receive, sweepVars, readVars
  <2>3. m \in Message
    BY DEF OnAir
  <2>4. call' \in [Threads -> OrNone([msg : Message, now : Nat])]
    BY <2>1, <2>3 DEF IInv, TypeOK, OrNone
  <2>5. TypeOK'
    <3>1. rxLeft' \in Nat
      BY <2>2 DEF IInv, TypeOK
    <3>2. QED BY <2>2, <2>4, <3>1 DEF IInv, TypeOK, cacheVars
  <2>6. \A r \in Threads : call'[r] # None => call'[r].now <= clock'
    BY <2>1, <2>2 DEF IInv, TypeOK, Timely
  <2>7. Timely'
    BY <2>2, <2>6 DEF IInv, Timely, cacheVars
  <2>8. QED BY <2>2, <2>5, <2>7, CacheUnchanged DEF IInv
<1>3. ASSUME NEW t \in Threads, Update(t) PROVE IInv'
  <2>1. CASE UpdateBasicId(t)
    BY <2>1, UpdateBasicIdKeepsIInv
  <2>2. CASE UpdateLocation(t) \/ UpdateSystem(t) \/ UpdateSelfId(t) \/ UpdateOperatorId(t)
    <3> DEFINE id == DroneForMac(call[t].msg.mac)
    <3>1. /\ call[t] # None /\ id # None /\ UNCHANGED macToUas
          /\ \E s : /\ Learnt(drones[id], s) /\ s.source = drones[id].source
                    /\ Commit(t, id, s)
      BY <2>2, KnownUpdate
    <3>2. PICK s : Learnt(drones[id], s) /\ s.source = drones[id].source /\ Commit(t, id, s)
      BY <3>1
    <3>3. QED BY <3>1, <3>2, KnownKeepsIInv
  <2>3. CASE DropUnmapped(t)
    <3>1. TypeOK' /\ Timely'
      BY <2>3 DEF DropUnmapped, IInv, TypeOK, Timely, OrNone, cacheVars, sweepVars, readVars
    <3>2. QED BY <2>3, <3>1, CacheUnchanged DEF IInv, DropUnmapped
  <2>4. QED BY <1>3, <2>1, <2>2, <2>3 DEF Update
<1>4. ASSUME NEW t \in Threads, FireChange(t) PROVE IInv'
  <2>1. TypeOK' /\ Timely'
    BY <1>4 DEF FireChange, IInv, TypeOK, Timely, OrNone, cacheVars, sweepVars, readVars
  <2>2. QED BY <1>4, <2>1, CacheUnchanged DEF IInv, FireChange
<1>5. ASSUME SweepCutoff PROVE IInv'
  <2>1. /\ sweep = "waiting" /\ sweep' = "cutoff" /\ cutoff' = clock - Ttl
        /\ UNCHANGED <<clock, cacheVars, call, hook, expiring, readVars, stopped, rxLeft>>
    BY <1>5 DEF SweepCutoff
  <2>2. cutoff' \in Int /\ cutoff' + Ttl <= clock
    BY <2>1, ConstantsOK DEF IInv, TypeOK
  <2>3. TypeOK'
    BY <2>1, <2>2 DEF IInv, TypeOK, cacheVars, readVars
  <2>4. Timely'
    BY <2>1, <2>2 DEF IInv, Timely, cacheVars
  <2>5. QED BY <2>1, <2>3, <2>4, CacheUnchanged DEF IInv
<1>6. ASSUME SweepEvict PROVE IInv'
  BY <1>6, SweepEvictKeepsIInv
<1>7. ASSUME SweepExit \/ Stop PROVE IInv'
  <2>1. TypeOK' /\ Timely'
    BY <1>7 DEF SweepExit, Stop, IInv, TypeOK, Timely, cacheVars, readVars, sweepVars
  <2>2. QED BY <1>7, <2>1, CacheUnchanged DEF IInv, SweepExit, Stop
<1>8. ASSUME NEW u \in UasIds, FireExpire(u) PROVE IInv'
  <2>1. TypeOK' /\ Timely'
    BY <1>8 DEF FireExpire, IInv, TypeOK, Timely, cacheVars, readVars
  <2>2. QED BY <1>8, <2>1, CacheUnchanged DEF IInv, FireExpire
<1>9. ASSUME NEW r \in Readers, SnapshotClock(r) \/ HealthClock(r) PROVE IInv'
  <2>1. PICK op \in {"snapshot", "health"} : StartRead(r, op)
    BY <1>9 DEF SnapshotClock, HealthClock
  <2>2. TypeOK' /\ Timely'
    BY <2>1 DEF StartRead, IInv, TypeOK, Timely, OrNone, cacheVars, sweepVars
  <2>3. QED BY <2>1, <2>2, CacheUnchanged DEF IInv, StartRead
<1>10. ASSUME NEW r \in Readers, SnapshotCopy(r) \/ HealthCopy(r) PROVE IInv'
  <2>1. /\ \E d : docs' = [docs EXCEPT ![r] = d]
        /\ reading' = [reading EXCEPT ![r] = None]
        /\ UNCHANGED <<clock, cacheVars, call, hook, sweepVars, stopped, rxLeft>>
    BY <1>10 DEF SnapshotCopy, HealthCopy, FinishRead
  <2>2. DOMAIN docs' = Readers
    BY <2>1 DEF IInv, TypeOK
  <2>3. TypeOK' /\ Timely'
    BY <2>1, <2>2 DEF IInv, TypeOK, Timely, OrNone, cacheVars, sweepVars
  <2>4. QED BY <2>1, <2>3, CacheUnchanged DEF IInv
<1>11. ASSUME UNCHANGED vars PROVE IInv'
  <2>1. TypeOK' /\ Timely'
    BY <1>11 DEF vars, IInv, TypeOK, Timely
  <2>2. QED BY <1>11, <2>1, CacheUnchanged DEF IInv, vars, cacheVars
<1>12. QED
  BY <1>1, <1>2, <1>3, <1>4, <1>5, <1>6, <1>7, <1>8, <1>9, <1>10, <1>11 DEF Next

\* IInv holds in every reachable state.
LEMMA Invariant == Spec => []IInv
BY InitIInv, NextKeepsIInv, PTL DEF Spec

-----------------------------------------------------------------------------
(* What a step may do to the cached drones.                                 *)

\* Thread t commits entry s as the new state of drone id.
Commits(t, id, s) ==
    /\ call[t] # None /\ id \in UasIds /\ s \in DroneState
    /\ IF id \in DOMAIN drones THEN Learnt(drones[id], s) ELSE s.count = 0
    /\ Commit(t, id, s)

\* A Basic ID is committed as the state of the drone it names.
LEMMA BasicIdCommits ==
  ASSUME IInv, NEW t \in Threads, UpdateBasicId(t)
  PROVE  /\ call[t].msg.kind = "basic_id"
         /\ \E s : Commits(t, call[t].msg.id, s)
<1> DEFINE m == call[t].msg
           s == IF m.id \in DOMAIN drones
                THEN Identified(drones[m.id], m) ELSE NewDrone(m)
<1>1. call[t] # None /\ m.kind = "basic_id" /\ Commit(t, m.id, s)
  BY DEF UpdateBasicId, Handling
<1>2. m \in Message /\ m.id \in UasIds
  BY <1>1, CallFields, MessageFields DEF IInv
<1>3. CASE m.id \in DOMAIN drones
  <2>1. drones[m.id] \in DroneState /\ s = Identified(drones[m.id], m)
    BY <1>3 DEF IInv, TypeOK
  <2>2. Learnt(drones[m.id], s)
    BY <2>1, <1>1, <1>2, IdentifiedLearns
  <2> HIDE DEF m, s
  <2>3. Commits(t, m.id, s)
    BY <1>1, <1>2, <1>3, <2>2 DEF Commits, Learnt
  <2>4. QED BY <1>1, <2>3 DEF m
<1>4. CASE m.id \notin DOMAIN drones
  <2>1. s = NewDrone(m) /\ s \in DroneState /\ s.count = 0
    BY <1>4, <1>1, <1>2, NewEntry
  <2> HIDE DEF m, s
  <2>2. Commits(t, m.id, s)
    BY <1>1, <1>2, <1>4, <2>1 DEF Commits
  <2>3. QED BY <1>1, <2>2 DEF m
<1>5. QED BY <1>3, <1>4

\* Every other update is committed as the state of the drone its MAC maps to.
LEMMA KnownCommits ==
  ASSUME IInv, NEW t \in Threads,
         UpdateLocation(t) \/ UpdateSystem(t) \/ UpdateSelfId(t) \/ UpdateOperatorId(t)
  PROVE  /\ DroneForMac(call[t].msg.mac) # None
         /\ \E s : Commits(t, DroneForMac(call[t].msg.mac), s)
<1> DEFINE id == DroneForMac(call[t].msg.mac)
<1>1. /\ call[t] # None /\ id # None
      /\ \E s : Learnt(drones[id], s) /\ Commit(t, id, s)
  BY KnownUpdate
<1>2. id \in DOMAIN drones /\ id \in UasIds
  BY <1>1 DEF DroneForMac, IInv, TypeOK
<1> HIDE DEF id
<1>3. id # None /\ \E s : Commits(t, id, s)
  BY <1>1, <1>2 DEF Commits, Learnt
<1>4. QED BY <1>3 DEF id

\* Every step leaves the drones and the total alone, commits one update, or evicts.
LEMMA StepEffect ==
  ASSUME IInv, [Next]_vars
  PROVE  \/ UNCHANGED <<drones, messagesTotal, bySource>>
         \/ \E t \in Threads : \E id, s : Commits(t, id, s)
         \/ SweepEvict
<1>1. ASSUME NEW t \in Threads, UpdateBasicId(t)
      PROVE  \E id, s : Commits(t, id, s)
  BY <1>1, BasicIdCommits, Zenon
<1>2. ASSUME NEW t \in Threads,
             UpdateLocation(t) \/ UpdateSystem(t) \/ UpdateSelfId(t) \/ UpdateOperatorId(t)
      PROVE  \E id, s : Commits(t, id, s)
  BY <1>2, KnownCommits, Zenon
<1>3. ASSUME NEW t \in Threads, Receive(t) \/ DropUnmapped(t) \/ FireChange(t)
      PROVE  UNCHANGED <<drones, messagesTotal, bySource>>
  BY <1>3 DEF Receive, DropUnmapped, FireChange, cacheVars
<1>4. ASSUME Tick \/ SweepCutoff \/ SweepExit \/ Stop \/ UNCHANGED vars
      PROVE  UNCHANGED <<drones, messagesTotal, bySource>>
  BY <1>4 DEF Tick, SweepCutoff, SweepExit, Stop, vars, cacheVars
<1>5. ASSUME NEW u \in UasIds, FireExpire(u)
      PROVE  UNCHANGED <<drones, messagesTotal, bySource>>
  BY <1>5 DEF FireExpire, cacheVars
<1>6. ASSUME NEW r \in Readers,
             SnapshotClock(r) \/ SnapshotCopy(r) \/ HealthClock(r) \/ HealthCopy(r)
      PROVE  UNCHANGED <<drones, messagesTotal, bySource>>
  BY <1>6 DEF SnapshotClock, SnapshotCopy, HealthClock, HealthCopy, StartRead, FinishRead,
              cacheVars
<1>7. QED BY <1>1, <1>2, <1>3, <1>4, <1>5, <1>6 DEF Next, Update

\* A commit turns the entry it was given into a heard one, and touches no other.
LEMMA CommitEntry ==
  ASSUME IInv, NEW t \in Threads, NEW id, NEW s, Commits(t, id, s)
  PROVE  /\ s \in DroneState /\ call[t].msg \in Message
         /\ call[t].now \in Nat /\ call[t].now <= clock
         /\ DOMAIN drones' = DOMAIN drones \cup {id}
         /\ drones'[id] = Heard(s, call[t].msg, call[t].now)
         /\ \A u \in DOMAIN drones : u # id => drones'[u] = drones[u]
<1>1. call[t].now \in Nat /\ call[t].msg \in Message /\ call[t].now <= clock
  BY CallFields DEF Commits, IInv, Timely
<1>2. /\ DOMAIN drones' = DOMAIN drones \cup {id}
      /\ drones'[id] = Heard(s, call[t].msg, call[t].now)
      /\ \A u \in DOMAIN drones : u # id => drones'[u] = drones[u]
  BY DEF Commits, Commit, Put
<1>3. QED BY <1>1, <1>2 DEF Commits

\* What a commit does to the stamps and the count of the cached drones.
LEMMA CommitEffect ==
  ASSUME IInv, NEW t \in Threads, NEW id, NEW s, Commits(t, id, s)
  PROVE  /\ call[t].now \in Nat /\ call[t].now <= clock
         /\ DOMAIN drones' = DOMAIN drones \cup {id}
         /\ \A u \in DOMAIN drones : u # id => drones'[u] = drones[u]
         /\ drones'[id].lastSeen = call[t].now
         /\ drones'[id].count = s.count + 1 /\ s.count \in Nat
<1> DEFINE h == Heard(s, call[t].msg, call[t].now)
<1>1. /\ s \in DroneState /\ call[t].msg \in Message /\ call[t].now \in Nat
      /\ call[t].now <= clock /\ DOMAIN drones' = DOMAIN drones \cup {id}
      /\ drones'[id] = h
      /\ \A u \in DOMAIN drones : u # id => drones'[u] = drones[u]
  BY CommitEntry, Zenon
<1>2. s.count \in Nat
  BY <1>1 DEF DroneState
<1>3. h.lastSeen = call[t].now /\ h.count = s.count + 1
  BY <1>1, HeardEntry
<1> HIDE DEF h
<1>4. QED BY <1>1, <1>2, <1>3

\* What a commit leaves of the decoded fields: what its new state says.
LEMMA CommitFields ==
  ASSUME IInv, NEW t \in Threads, NEW id, NEW s, Commits(t, id, s)
  PROVE  /\ drones'[id].idType = s.idType /\ drones'[id].uaType = s.uaType
         /\ \A f \in KeptFields : drones'[id][f] = s[f]
<1> DEFINE h == Heard(s, call[t].msg, call[t].now)
<1>1. /\ s \in DroneState /\ call[t].msg \in Message /\ call[t].now \in Nat
      /\ drones'[id] = h
  BY CommitEntry, Zenon
<1>2. h.idType = s.idType /\ \A f \in KeptFields : h[f] = s[f]
  BY <1>1, HeardEntry
<1> HIDE DEF h
<1>3. h.uaType = s.uaType
  BY <1>2 DEF KeptFields
<1>4. QED BY <1>1, <1>2, <1>3

\* What an eviction takes: exactly the drones that were silent for the TTL.
LEMMA EvictEffect ==
  ASSUME IInv, SweepEvict
  PROVE  /\ DOMAIN drones' = DOMAIN drones \ Stale
         /\ \A u \in DOMAIN drones' : drones'[u] = drones[u]
         /\ \A u \in Stale : u \in DOMAIN drones /\ clock - drones[u].lastSeen > Ttl
         /\ expiring = {} /\ expiring' = Stale
         /\ UNCHANGED <<clock, messagesTotal>>
<1>1. /\ drones' = Restrict(drones, DOMAIN drones \ Stale) /\ sweep = "cutoff"
      /\ expiring' = Stale /\ UNCHANGED <<clock, messagesTotal>>
  BY DEF SweepEvict
<1>2. expiring = {} /\ cutoff + Ttl <= clock
  BY <1>1 DEF IInv, Timely
<1>3. ASSUME NEW u \in Stale
      PROVE  u \in DOMAIN drones /\ clock - drones[u].lastSeen > Ttl
  <2>1. u \in DOMAIN drones /\ drones[u].lastSeen < cutoff
    BY DEF Stale
  <2>2. drones[u].lastSeen \in Nat /\ cutoff \in Int /\ clock \in Nat /\ Ttl \in Nat
    BY <2>1, ConstantsOK DEF IInv, TypeOK, DroneState
  <2>3. QED BY <2>1, <2>2, <1>2
<1>4. QED BY <1>1, <1>2, <1>3 DEF Restrict

-----------------------------------------------------------------------------
(* The theorems.                                                            *)

\* The cache keeps its types: whatever the radios, the sweeper and the readers
\* interleave to, every entry is complete and every counter a number.
THEOREM TypeCorrect == Spec => []TypeOK
BY Invariant, PTL DEF IInv

\* A mapped MAC always points at a cached drone (tracker.py:365-369, 488-490).
THEOREM MacMapAlwaysSound == Spec => []MacMapSound
BY Invariant, PTL DEF IInv

\* The heard-from list is duplicate-free, headed by the transport of the latest
\* message and made of counted transports (tracker.py:91-101).
THEOREM SourcesAlwaysInOrder == Spec => []SourcesInOrder
BY Invariant, PTL DEF IInv

\* Positions, operator blocks and Self-IDs are always shown with their dates
\* (tracker.py:250-361).
THEOREM EntriesAlwaysDated == Spec => []Dated
BY Invariant, PTL DEF IInv

\* A location type is always shown with its own coordinate (tracker.py:291-296).
THEOREM OperatorAlwaysLabelled == Spec => []OperatorLabelled
BY Invariant, PTL DEF IInv

\* Altitude, height, speed, heading and climb are always shown with the position of
\* their own Location (tracker.py:264-270).
THEOREM FlightAlwaysOfPosition == Spec => []FlightOfPosition
BY Invariant, PTL DEF IInv

\* Stamps never lie in the future and a pending cutoff spares the TTL: what the
\* eviction argument rests on (tracker.py:229, 482).
THEOREM AlwaysTimely == Spec => []Timely
BY Invariant, PTL DEF IInv

\* Identity is write-once while a drone stays cached (tracker.py:237-242).
THEOREM IdentityIsWriteOnce == Spec => IdentityWriteOnce
<1> DEFINE Kept == \A u \in Staying :
              /\ drones'[u].idType = drones[u].idType
              /\ drones[u].uaType # None => drones'[u].uaType = drones[u].uaType
<1>1. ASSUME IInv, [Next]_vars PROVE Kept
  <2>1. CASE UNCHANGED <<drones, messagesTotal, bySource>>
    BY <2>1 DEF Staying
  <2>2. ASSUME NEW t \in Threads, NEW id, NEW s, Commits(t, id, s) PROVE Kept
    <3>1. CASE id \in DOMAIN drones
      <4> HIDE DEF Kept
      <4>1. drones'[id].idType = s.idType /\ drones'[id].uaType = s.uaType
        BY <1>1, <2>2, CommitFields, Zenon
      <4>2. \A u \in DOMAIN drones : u # id => drones'[u] = drones[u]
        BY <1>1, <2>2, CommitEffect, Zenon
      <4>3. Learnt(drones[id], s)
        BY <2>2, <3>1 DEF Commits
      <4> USE DEF Kept
      <4>4. QED BY <4>1, <4>2, <4>3 DEF Learnt, Staying
    <3>2. CASE id \notin DOMAIN drones
      BY <1>1, <2>2, <3>2, CommitEffect DEF Staying
    <3>3. QED BY <3>1, <3>2
  <2>3. CASE SweepEvict
    BY <1>1, <2>3, EvictEffect DEF Staying
  <2>4. QED BY <1>1, <2>1, <2>2, <2>3, StepEffect
<1>2. IInv /\ [Next]_vars => [Kept]_vars
  BY <1>1
<1>3. QED BY Invariant, <1>2, PTL DEF Spec, IdentityWriteOnce

\* No message makes the UA type, the position, or a field of the operator block, the
\* operator id or the Self-ID of a cached drone unknown once it is known; the other
\* flight data and the signal strength are not claimed (tracker.py:264-271, 287-290).
THEOREM NothingIsForgotten == Spec => NeverForgotten
<1> DEFINE Kept == \A u \in Staying : \A f \in KeptFields :
              drones[u][f] # None => drones'[u][f] # None
<1>1. ASSUME IInv, [Next]_vars PROVE Kept
  <2>1. CASE UNCHANGED <<drones, messagesTotal, bySource>>
    BY <2>1 DEF Staying
  <2>2. ASSUME NEW t \in Threads, NEW id, NEW s, Commits(t, id, s) PROVE Kept
    <3>1. CASE id \in DOMAIN drones
      <4>0. ASSUME NEW f \in KeptFields PROVE drones'[id][f] = s[f]
        <5> HIDE DEF Kept
        <5>1. QED BY <1>1, <2>2, CommitFields
      <4>1. Learnt(drones[id], s)
        BY <2>2, <3>1 DEF Commits
      <4>2. ASSUME NEW f \in KeptFields, drones[id][f] # None
            PROVE  drones'[id][f] # None
        <5>1. s[f] # None
          BY <4>1, <4>2 DEF Learnt
        <5>2. drones'[id][f] = s[f]
          BY <4>0
        <5>3. QED BY <5>1, <5>2
      <4>3. \A u \in DOMAIN drones : u # id => drones'[u] = drones[u]
        BY <1>1, <2>2, CommitEffect
      <4>4. QED BY <4>2, <4>3 DEF Staying
    <3>2. CASE id \notin DOMAIN drones
      BY <1>1, <2>2, <3>2, CommitEffect DEF Staying
    <3>3. QED BY <3>1, <3>2
  <2>3. CASE SweepEvict
    BY <1>1, <2>3, EvictEffect DEF Staying
  <2>4. QED BY <1>1, <2>1, <2>2, <2>3, StepEffect
<1>2. IInv /\ [Next]_vars => [Kept]_vars
  BY <1>1
<1>3. QED BY Invariant, <1>2, PTL DEF Spec, NeverForgotten

\* A drone leaves the cache only when its stamp is older than the TTL at that
\* moment, however late the sweeper got the lock (tracker.py:481-487).
THEOREM EvictionIsJustified == Spec => EvictedOnlyWhenSilent
<1> DEFINE Justified == \A u \in DOMAIN drones \ DOMAIN drones' :
                           clock - drones[u].lastSeen > Ttl
<1>1. ASSUME IInv, [Next]_vars PROVE Justified
  <2>1. CASE UNCHANGED <<drones, messagesTotal, bySource>>
    BY <2>1
  <2>2. ASSUME NEW t \in Threads, NEW id, NEW s, Commits(t, id, s) PROVE Justified
    BY <1>1, <2>2, CommitEffect
  <2>3. CASE SweepEvict
    BY <1>1, <2>3, EvictEffect
  <2>4. QED BY <1>1, <2>1, <2>2, <2>3, StepEffect
<1>2. IInv /\ [Next]_vars => [Justified]_vars
  BY <1>1
<1>3. QED BY Invariant, <1>2, PTL DEF Spec, EvictedOnlyWhenSilent

\* A step that counts a message counts it once in the total and once on exactly
\* one cached drone (tracker.py:233-243 and the other four updates).
THEOREM EveryMessageCountedOnce == Spec => CountedOnce
<1> DEFINE before(u) == IF u \in DOMAIN drones THEN drones[u].count ELSE 0
           moved == {u \in DOMAIN drones' : drones'[u].count # before(u)}
           Counted == /\ messagesTotal' = messagesTotal + Cardinality(moved)
                      /\ \A u \in moved : drones'[u].count = before(u) + 1
<1>1. ASSUME IInv, [Next]_vars PROVE Counted
  <2>0. messagesTotal \in Nat
    BY <1>1 DEF IInv, TypeOK
  <2>1. CASE UNCHANGED <<drones, messagesTotal, bySource>>
    <3>1. moved = {}
      BY <2>1
    <3> HIDE DEF moved
    <3>2. QED BY <2>0, <2>1, <3>1, FS_EmptySet
  <2>2. ASSUME NEW t \in Threads, NEW id, NEW s, Commits(t, id, s) PROVE Counted
    <3>1. before(id) = s.count
      BY <2>2 DEF Commits, Learnt
    <3>2. /\ DOMAIN drones' = DOMAIN drones \cup {id}
          /\ \A u \in DOMAIN drones : u # id => drones'[u] = drones[u]
          /\ drones'[id].count = s.count + 1 /\ s.count \in Nat
      <4> HIDE DEF before, moved, Counted
      <4>1. QED BY <1>1, <2>2, CommitEffect, Zenon
    <3>3. moved = {id}
      <4>1. id \in moved
        BY <3>1, <3>2
      <4>2. ASSUME NEW u \in DOMAIN drones', u # id PROVE drones'[u].count = before(u)
        BY <3>2, <4>2
      <4>3. QED BY <4>1, <4>2
    <3>4. messagesTotal' = messagesTotal + 1
      BY <2>2 DEF Commits, Commit
    <3>5. drones'[id].count = before(id) + 1
      BY <3>1, <3>2
    <3> HIDE DEF moved, before
    <3>6. QED BY <3>3, <3>4, <3>5, FS_Singleton
  <2>3. CASE SweepEvict
    <3>1. /\ DOMAIN drones' = DOMAIN drones \ Stale
          /\ \A u \in DOMAIN drones' : drones'[u] = drones[u]
          /\ messagesTotal' = messagesTotal
      BY <1>1, <2>3, EvictEffect
    <3>2. moved = {}
      BY <3>1
    <3> HIDE DEF moved
    <3>3. QED BY <2>0, <3>1, <3>2, FS_EmptySet
  <2>4. QED BY <1>1, <2>1, <2>2, <2>3, StepEffect
<1>2. IInv /\ [Next]_vars => [Counted]_vars
  BY <1>1
<1>3. QED BY Invariant, <1>2, PTL DEF Spec, CountedOnce

-----------------------------------------------------------------------------
(* Documents.                                                               *)

\* No document is ahead of the cache.
DocsBehind ==
    \A r \in Readers : docs[r] # None =>
        docs[r].messages \in Nat /\ docs[r].messages <= messagesTotal

\* A step copies the cache into a document or leaves the document alone.
LEMMA DocsCopied ==
  ASSUME TypeOK, [Next]_vars, NEW r \in Readers
  PROVE  \/ docs'[r] = docs[r]
         \/ \E now : docs'[r] = Snapshot(now) \/ docs'[r] = Health(now)
<1>1. ASSUME NEW q \in Readers, SnapshotCopy(q)
      PROVE  docs'[r] = docs[r] \/ \E now : docs'[r] = Snapshot(now)
  <2>1. docs' = [docs EXCEPT ![q] = Snapshot(reading[q].now)] /\ DOMAIN docs = Readers
    BY <1>1 DEF SnapshotCopy, FinishRead, TypeOK
  <2>2. QED BY <2>1
<1>2. ASSUME NEW q \in Readers, HealthCopy(q)
      PROVE  docs'[r] = docs[r] \/ \E now : docs'[r] = Health(now)
  <2>1. docs' = [docs EXCEPT ![q] = Health(reading[q].now)] /\ DOMAIN docs = Readers
    BY <1>2 DEF HealthCopy, FinishRead, TypeOK
  <2>2. QED BY <2>1
<1>3. ASSUME NEW q \in Readers, SnapshotClock(q) \/ HealthClock(q) PROVE docs' = docs
  BY <1>3 DEF SnapshotClock, HealthClock, StartRead
<1>4. ASSUME NEW t \in Threads, Receive(t) \/ FireChange(t) \/ DropUnmapped(t)
      PROVE  docs' = docs
  BY <1>4 DEF Receive, FireChange, DropUnmapped, readVars
<1>5. ASSUME NEW t \in Threads, NEW id, NEW s, Commit(t, id, s) PROVE docs' = docs
  BY <1>5 DEF Commit, readVars
<1>6. ASSUME NEW t \in Threads, Update(t) PROVE docs' = docs
  BY <1>4, <1>5, <1>6 DEF Update, UpdateBasicId, UpdateLocation, UpdateSystem, UpdateSelfId,
     UpdateOperatorId, UpdateKnown
<1>7. ASSUME NEW u \in UasIds, FireExpire(u) PROVE docs' = docs
  BY <1>7 DEF FireExpire, readVars
<1>8. CASE Tick \/ SweepCutoff \/ SweepEvict \/ SweepExit \/ Stop \/ UNCHANGED vars
  BY <1>8 DEF Tick, SweepCutoff, SweepEvict, SweepExit, Stop, vars, readVars
<1>9. QED BY <1>1, <1>2, <1>3, <1>4, <1>6, <1>7, <1>8 DEF Next

\* The total never shrinks, and a document is copied with the total as it is.
LEMMA DocsEffect ==
  ASSUME IInv, [Next]_vars
  PROVE  /\ messagesTotal \in Nat /\ messagesTotal' \in Nat /\ messagesTotal <= messagesTotal'
         /\ \A r \in Readers : docs'[r] = docs[r] \/ docs'[r].messages = messagesTotal
<1>1. messagesTotal \in Nat /\ messagesTotal' \in Nat /\ messagesTotal <= messagesTotal'
  <2>1. CASE UNCHANGED <<drones, messagesTotal, bySource>>
    BY <2>1 DEF IInv, TypeOK
  <2>2. ASSUME NEW t \in Threads, NEW id, NEW s, Commits(t, id, s)
        PROVE  messagesTotal' = messagesTotal + 1
    BY <2>2 DEF Commits, Commit
  <2>3. CASE SweepEvict
    BY <2>3 DEF SweepEvict, IInv, TypeOK
  <2>4. messagesTotal \in Nat
    BY DEF IInv, TypeOK
  <2>5. QED BY <2>1, <2>2, <2>3, <2>4, StepEffect
<1>2. ASSUME NEW r \in Readers PROVE docs'[r] = docs[r] \/ docs'[r].messages = messagesTotal
  <2>1. \A now : Snapshot(now).messages = messagesTotal /\ Health(now).messages = messagesTotal
    BY DEF Snapshot, Health
  <2>2. QED BY <2>1, DocsCopied DEF IInv
<1>3. QED BY <1>1, <1>2

\* No client is ever served a total below one it was served before.
THEOREM DocumentsMoveForward == Spec => DocsMoveForward
<1>1. Init => DocsBehind
  BY DEF Init, DocsBehind
<1>2. IInv /\ DocsBehind /\ [Next]_vars => DocsBehind'
  BY DocsEffect DEF DocsBehind
<1>3. IInv /\ DocsBehind /\ [Next]_vars =>
        [\A r \in Readers : docs[r] # None => docs'[r].messages >= docs[r].messages]_vars
  BY DocsEffect DEF DocsBehind
<1>4. QED BY Invariant, <1>1, <1>2, <1>3, PTL DEF Spec, DocsMoveForward

-----------------------------------------------------------------------------
(* The cache implements Airspace.                                           *)

\* What a step leaves of the expiry hooks when it does not evict or fire one.
LEMMA OwedUnchanged ==
  ASSUME [Next]_vars, ~SweepEvict, \A u \in UasIds : ~FireExpire(u)
  PROVE  expiring' = expiring
<1>1. ASSUME NEW t \in Threads, Receive(t) \/ Update(t) \/ FireChange(t)
      PROVE  expiring' = expiring
  BY <1>1 DEF Receive, Update, FireChange, UpdateBasicId, UpdateLocation, UpdateSystem,
              UpdateSelfId, UpdateOperatorId, UpdateKnown, DropUnmapped, Commit, sweepVars
<1>2. ASSUME NEW r \in Readers,
             SnapshotClock(r) \/ SnapshotCopy(r) \/ HealthClock(r) \/ HealthCopy(r)
      PROVE  expiring' = expiring
  BY <1>2 DEF SnapshotClock, SnapshotCopy, HealthClock, HealthCopy, StartRead, FinishRead,
              sweepVars
<1>3. ASSUME Tick \/ SweepCutoff \/ SweepExit \/ Stop \/ UNCHANGED vars
      PROVE  expiring' = expiring
  BY <1>3 DEF Tick, SweepCutoff, SweepExit, Stop, vars, sweepVars
<1>4. QED BY <1>1, <1>2, <1>3 DEF Next

\* Only Tick moves the clock.
LEMMA ClockStep ==
  ASSUME [Next]_vars PROVE Tick \/ clock' = clock
<1>1. ASSUME NEW t \in Threads, Receive(t) \/ Update(t) \/ FireChange(t)
      PROVE  clock' = clock
  BY <1>1 DEF Receive, Update, FireChange, UpdateBasicId, UpdateLocation, UpdateSystem,
              UpdateSelfId, UpdateOperatorId, UpdateKnown, DropUnmapped, Commit
<1>2. ASSUME NEW r \in Readers,
             SnapshotClock(r) \/ SnapshotCopy(r) \/ HealthClock(r) \/ HealthCopy(r)
      PROVE  clock' = clock
  BY <1>2 DEF SnapshotClock, SnapshotCopy, HealthClock, HealthCopy, StartRead, FinishRead
<1>3. ASSUME SweepCutoff \/ SweepEvict \/ SweepExit \/ Stop \/ UNCHANGED vars
      PROVE  clock' = clock
  BY <1>3 DEF SweepCutoff, SweepEvict, SweepExit, Stop, vars
<1>4. ASSUME NEW u \in UasIds, FireExpire(u) PROVE clock' = clock
  BY <1>4 DEF FireExpire
<1>5. QED BY <1>1, <1>2, <1>3, <1>4 DEF Next

\* The cache implements Airspace: every drone that goes was silent for longer
\* than the TTL, and each departure is notified exactly once before the next
\* batch goes (tracker.py:481-495).
THEOREM TrackerImplementsAirspace == Spec => ImplementsAirspace
<1> DEFINE heard == [u \in DOMAIN drones |-> drones[u].lastSeen]
<1>1. Init => Cached!Init
  BY DEF Init, Cached!Init, EmptyMap
<1>2. ASSUME IInv, [Next]_vars PROVE [Cached!Next]_(Cached!vars)
  <2>1. CASE UNCHANGED <<drones, messagesTotal, bySource>>
    <3>1. heard' = heard
      BY <2>1
    <3>2. CASE SweepEvict
      <4>1. Stale = {}
        BY <1>2, <2>1, <3>2, EvictEffect DEF Stale
      <4>2. UNCHANGED <<clock, expiring>>
        BY <1>2, <3>2, <4>1, EvictEffect
      <4>3. QED BY <3>1, <4>2 DEF Cached!vars
    <3>3. ASSUME NEW u \in UasIds, FireExpire(u) PROVE Cached!Notify(u)
      BY <3>1, <3>3 DEF FireExpire, Cached!Notify
    <3>4. CASE Tick
      <4>1. Cached!Tick
        BY <3>1, <3>4 DEF Tick, Cached!Tick, sweepVars
      <4>2. QED BY <4>1 DEF Cached!Next
    <3>5. CASE ~Tick /\ ~SweepEvict /\ \A u \in UasIds : ~FireExpire(u)
      BY <1>2, <3>1, <3>5, OwedUnchanged, ClockStep DEF Cached!vars
    <3>6. QED BY <3>2, <3>3, <3>4, <3>5 DEF Cached!Next
  <2>2. ASSUME NEW t \in Threads, NEW id, NEW s, Commits(t, id, s)
        PROVE  [Cached!Next]_(Cached!vars)
    <3>1. /\ call[t].now \in 0..clock /\ id \in UasIds
          /\ DOMAIN drones' = DOMAIN drones \cup {id}
          /\ \A u \in DOMAIN drones : u # id => drones'[u] = drones[u]
          /\ drones'[id].lastSeen = call[t].now
      <4>1. call[t].now \in 0..clock
        <5>1. clock \in Nat
          BY <1>2 DEF IInv, TypeOK
        <5>2. call[t].now \in Nat /\ call[t].now <= clock
          BY <1>2, <2>2, CommitEffect, Zenon
        <5>3. QED BY <5>1, <5>2
      <4>2. id \in UasIds
        BY <2>2 DEF Commits
      <4>3. /\ DOMAIN drones' = DOMAIN drones \cup {id}
            /\ \A u \in DOMAIN drones : u # id => drones'[u] = drones[u]
            /\ drones'[id].lastSeen = call[t].now
        BY <1>2, <2>2, CommitEffect, Zenon
      <4>4. QED BY <4>1, <4>2, <4>3
    <3>2. heard' = [v \in DOMAIN heard \cup {id} |->
                      IF v = id THEN call[t].now ELSE heard[v]]
      BY <3>1
    <3>3. UNCHANGED <<clock, expiring>>
      BY <2>2 DEF Commits, Commit, sweepVars
    <3>4. Cached!Hear(id)
      BY <3>1, <3>2, <3>3 DEF Cached!Hear
    <3>5. QED BY <3>1, <3>4 DEF Cached!Next
  <2>3. CASE SweepEvict
    <3>1. /\ DOMAIN drones' = DOMAIN drones \ Stale
          /\ \A u \in DOMAIN drones' : drones'[u] = drones[u]
          /\ \A u \in Stale : u \in DOMAIN drones /\ clock - drones[u].lastSeen > Ttl
          /\ expiring = {} /\ expiring' = Stale /\ clock' = clock
      BY <1>2, <2>3, EvictEffect
    <3>2. PICK gone : gone = Stale
      OBVIOUS
    <3>3. heard' = [u \in DOMAIN heard \ gone |-> heard[u]]
      BY <3>1, <3>2
    <3>4. gone \in SUBSET DOMAIN heard /\ \A u \in gone : clock - heard[u] > Ttl
      BY <3>1, <3>2
    <3>5. \E g \in SUBSET DOMAIN heard : Cached!Evict(g)
      <4>1. expiring = {} /\ expiring' = gone /\ clock' = clock
        BY <3>1, <3>2
      <4>2. Cached!Evict(gone)
        BY <3>3, <3>4, <4>1 DEF Cached!Evict
      <4> HIDE DEF heard
      <4>3. QED BY <3>4, <4>2
    <3>6. Cached!Next
      BY <3>5, Zenon DEF Cached!Next
    <3>7. QED BY <3>6
  <2>4. QED BY <1>2, <2>1, <2>2, <2>3, StepEffect
<1>3. QED BY Invariant, <1>1, <1>2, PTL DEF Spec, ImplementsAirspace, Cached!Spec
==============================================================================
