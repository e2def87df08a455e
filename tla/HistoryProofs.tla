----------------------------- MODULE HistoryProofs -----------------------------
(***************************************************************************)
(* Proofs about the detection log, for every number of drones, debounce,   *)
(* retention, cap and interleaving, with failing inserts and stop().       *)
(*                                                                         *)
(* SpacedWrites becomes inductive with Stamped and Dated: the last stamp of *)
(* a drone is no older than any of its rows, and no row is dated later than *)
(* the clock, so the next stamp comes after both; Newest says the same of   *)
(* the row that waits for the write lock.  KeptWhileYoung needs Pending:    *)
(* what the cleanup thread read before it had the lock still holds when it  *)
(* deletes.                                                                 *)
(***************************************************************************)
EXTENDS History, FiniteSetTheorems, TLAPS

StampKept(r) == r.id \in DOMAIN lastWrite /\ r.stamp <= lastWrite[r.id]

Stamped ==
    /\ \A r \in table : StampKept(r)
    /\ writer # None => StampKept(writer)

Dated ==
    /\ \A r \in table : r.ts <= clock
    /\ writer # None /\ writer.ts # None => writer.ts <= clock

StampsPast == \A u \in DOMAIN lastWrite : lastWrite[u] <= clock

\* The row that is being written comes after every row of its drone.
Newest == writer # None => \A r \in table : r.id = writer.id => Before(r, writer)

Pending ==
    /\ cleaner \in {"age", "deleting"} => cutoff + Retention <= clock
    /\ cleaner \in {"trim", "trimming"} => OverCap

IInv == TypeOK /\ Stamped /\ Dated /\ StampsPast /\ SpacedWrites /\ Newest /\ Pending

-----------------------------------------------------------------------------

\* The empty log satisfies the invariant.
LEMMA InitIInv == Init => IInv
<1> SUFFICES ASSUME Init PROVE IInv
  OBVIOUS
<1>1. table = {} /\ writer = None /\ DOMAIN lastWrite = {} /\ IsFiniteSet(table)
      /\ lastWrite \in [DOMAIN lastWrite -> Nat]
  BY FS_EmptySet DEF Init, EmptyMap
<1>2. TypeOK
  <2>1. table \subseteq RowType /\ file \in Nat /\ left \in 0..MaxChanges
    BY <1>1, ConstantsOK DEF Init
  <2>2. DOMAIN lastWrite \subseteq UasIds
    BY <1>1
  <2>3. clock \in Nat /\ cutoff \in Int /\ lock = None /\ cleaner = "waiting"
    BY ConstantsOK DEF Init, ConstantsOK
  <2>4. stats = None /\ cached = None /\ served = None /\ open \in BOOLEAN /\ stopped \in BOOLEAN
    BY Zenon DEF Init
  <2>5. QED BY <1>1, <2>1, <2>2, <2>3, <2>4 DEF TypeOK
<1>3. QED BY <1>1, <1>2
          DEF IInv, Stamped, Dated, StampsPast, SpacedWrites, Newest, Pending, Init

\* Deleting rows keeps what is said of the rows; only the types need a look.
LEMMA FewerRows ==
  ASSUME IInv, table' \subseteq table, writer' = writer, lastWrite' = lastWrite,
         clock' = clock
  PROVE  /\ Stamped' /\ Dated' /\ StampsPast' /\ SpacedWrites' /\ Newest'
         /\ IsFiniteSet(table') /\ table' \subseteq RowType
<1>1. IsFiniteSet(table')
  BY FS_Subset DEF IInv, TypeOK
<1>2. Stamped' /\ Dated' /\ StampsPast'
  BY DEF IInv, Stamped, StampKept, Dated, StampsPast
<1>3. SpacedWrites' /\ Newest'
  BY DEF IInv, SpacedWrites, Newest, Before
<1>4. QED BY <1>1, <1>2, <1>3 DEF IInv, TypeOK

\* The clock, the hook and the insert.
LEMMA WriteKeepsIInv ==
  ASSUME IInv, Tick \/ Write \/ Checkpoint \/ \E u \in UasIds : Debounced(u) \/ StampWrite(u)
  PROVE  IInv'
<1>1. CASE Tick
  <2>1. clock \in Nat /\ clock' = clock + 1
    BY <1>1 DEF Tick, IInv, TypeOK
  <2>2. TypeOK'
    BY <1>1, <2>1 DEF Tick, IInv, TypeOK, dbVars, writeVars, cleanVars, statsVars, runVars
  <2>3. UNCHANGED <<table, writer, lastWrite>>
    BY <1>1 DEF Tick, dbVars, writeVars
  <2>4. Stamped' /\ SpacedWrites' /\ Newest'
    BY <2>3 DEF IInv, Stamped, StampKept, SpacedWrites, Newest, Before
  <2>5. StampsPast'
    BY <2>1, <2>3 DEF IInv, TypeOK, StampsPast
  <2>6. Dated'
    BY <2>1, <2>3 DEF IInv, TypeOK, RowType, DraftType, Dated
  <2>7. Pending'
    BY <1>1, <2>1, ConstantsOK DEF Tick, IInv, TypeOK, Pending, OverCap, cleanVars, dbVars
  <2>8. QED BY <2>2, <2>4, <2>5, <2>6, <2>7 DEF IInv
<1>2. ASSUME NEW u \in UasIds, Debounced(u) PROVE IInv'
  <2>1. left' \in 0..MaxChanges
    BY <1>2, ConstantsOK DEF Debounced, Hooked, IInv, TypeOK
  <2>2. TypeOK'
    BY <1>2, <2>1 DEF Debounced, IInv, TypeOK, dbVars, cleanVars, statsVars, runVars
  <2>3. UNCHANGED <<clock, table, writer, lastWrite>> /\ Pending'
    BY <1>2 DEF Debounced, IInv, Pending, OverCap, dbVars, cleanVars
  <2>4. QED BY <2>2, <2>3, FewerRows DEF IInv
<1>3. ASSUME NEW u \in UasIds, StampWrite(u) PROVE IInv'
  <2> DEFINE w == [n |-> MaxChanges - left, id |-> u, stamp |-> clock, ts |-> None]
  <2>1. /\ writer' = w /\ left' = left - 1 /\ left > 0
        /\ lastWrite' = Put(lastWrite, u, clock)
        /\ clock - LastWrite(u) >= Debounce /\ UNCHANGED <<clock, table>>
    BY <1>3 DEF StampWrite, Hooked, dbVars
  <2>2. left \in 0..MaxChanges /\ clock \in Nat /\ MaxChanges \in Nat /\ Debounce \in Nat
    BY ConstantsOK DEF IInv, TypeOK
  <2>3. w \in DraftType /\ left' \in 0..MaxChanges
    BY <2>1, <2>2 DEF DraftType
  <2>4. /\ DOMAIN lastWrite' = DOMAIN lastWrite \cup {u}
        /\ \A v \in DOMAIN lastWrite' :
              lastWrite'[v] = IF v = u THEN clock ELSE lastWrite[v]
    BY <2>1 DEF Put
  <2>5. DOMAIN lastWrite' \subseteq UasIds /\ lastWrite' \in [DOMAIN lastWrite' -> Nat]
    BY <2>1, <2>2 DEF Put, IInv, TypeOK
  <2>6. TypeOK'
    BY <1>3, <2>1, <2>3, <2>5
       DEF StampWrite, IInv, TypeOK, dbVars, cleanVars, statsVars, runVars
  <2>7. ASSUME NEW r \in table
        PROVE  /\ r.id \in DOMAIN lastWrite /\ r.stamp <= lastWrite[r.id]
               /\ r.stamp \in Nat /\ lastWrite[r.id] \in Nat /\ lastWrite[r.id] <= clock
               /\ r.ts <= clock
    BY <2>7 DEF IInv, TypeOK, RowType, Stamped, StampKept, Dated, StampsPast
  <2>8. w.id = u /\ w.stamp = clock /\ w.ts = None
    OBVIOUS
  <2> HIDE DEF w
  <2>9. Stamped' /\ Dated'
    BY <2>1, <2>2, <2>4, <2>7, <2>8 DEF Stamped, StampKept, Dated
  <2>10. StampsPast'
    BY <2>1, <2>2, <2>4 DEF IInv, StampsPast
  <2>11. ASSUME NEW r \in table, r.id = u PROVE Before(r, w)
    <3>1. r.stamp + Debounce <= clock
      BY <2>1, <2>2, <2>7, <2>11 DEF LastWrite
    <3>2. QED BY <2>7, <2>8, <3>1 DEF Before
  <2>12. SpacedWrites' /\ Newest'
    BY <2>1, <2>8, <2>11 DEF IInv, SpacedWrites, Newest, Before
  <2>13. Pending'
    BY <1>3 DEF StampWrite, IInv, Pending, OverCap, dbVars, cleanVars
  <2>14. QED BY <2>6, <2>9, <2>10, <2>12, <2>13 DEF IInv
<1>4. CASE DateRow
  <2>1. /\ writer # None /\ writer.ts = None /\ writer' = [writer EXCEPT !.ts = clock]
        /\ UNCHANGED <<clock, table, lastWrite>>
    BY <1>4 DEF DateRow, dbVars
  <2>2. clock \in Nat /\ writer \in RowType \cup DraftType
    BY <2>1 DEF IInv, TypeOK
  <2>3. /\ writer' \in RowType /\ writer'.ts = clock
        /\ writer'.id = writer.id /\ writer'.stamp = writer.stamp
    BY <2>1, <2>2 DEF RowType, DraftType
  <2>4. TypeOK'
    BY <1>4, <2>1, <2>3
       DEF DateRow, IInv, TypeOK, dbVars, cleanVars, statsVars, runVars
  <2>5. Stamped' /\ Dated' /\ StampsPast'
    BY <2>1, <2>2, <2>3 DEF IInv, Stamped, StampKept, Dated, StampsPast
  <2>6. SpacedWrites' /\ Newest'
    BY <2>1, <2>3 DEF IInv, SpacedWrites, Newest, Before
  <2>7. Pending'
    BY <1>4 DEF DateRow, IInv, Pending, OverCap, dbVars, cleanVars
  <2>8. QED BY <2>4, <2>5, <2>6, <2>7 DEF IInv
<1>5. CASE Insert
  <2>1. /\ writer # None /\ writer.ts # None
        /\ table' = table \cup {writer} /\ writer' = None /\ UNCHANGED <<clock, lastWrite>>
    BY <1>5 DEF Insert
  <2>2. writer \in RowType
    BY <2>1 DEF IInv, TypeOK, DraftType
  <2>3. IsFiniteSet(table') /\ table' \subseteq RowType
    BY <2>1, <2>2, FS_AddElement DEF IInv, TypeOK
  <2>4. TypeOK'
    BY <1>5, <2>1, <2>3 DEF Insert, IInv, TypeOK, cleanVars, statsVars, runVars
  <2>5. Stamped' /\ Dated' /\ StampsPast'
    BY <2>1 DEF IInv, Stamped, StampKept, Dated, StampsPast
  <2>6. SpacedWrites' /\ Newest'
    BY <2>1 DEF IInv, SpacedWrites, Newest, Before
  <2>7. Pending'
    BY <1>5 DEF Insert, IInv, Pending, OverCap, cleanVars
  <2>8. QED BY <2>4, <2>5, <2>6, <2>7 DEF IInv
<1>6. CASE InsertFails
  <2>1. UNCHANGED <<clock, table, lastWrite>> /\ writer' = None
    BY <1>6 DEF InsertFails, dbVars
  <2>2. TypeOK' /\ Pending'
    BY <1>6 DEF InsertFails, IInv, TypeOK, Pending, OverCap, dbVars, cleanVars, statsVars,
                runVars
  <2>3. Stamped' /\ Dated' /\ StampsPast' /\ SpacedWrites' /\ Newest'
    BY <2>1 DEF IInv, Stamped, StampKept, Dated, StampsPast, SpacedWrites, Newest, Before
  <2>4. QED BY <2>2, <2>3 DEF IInv
<1>7. CASE Checkpoint
  <2>1. Cardinality(table) \in Nat /\ file < file' /\ file' = Cardinality(table)
    BY <1>7, FS_CardinalityType DEF Checkpoint, IInv, TypeOK
  <2>2. TypeOK'
    BY <1>7, <2>1 DEF Checkpoint, IInv, TypeOK, writeVars, cleanVars, statsVars, runVars
  <2>3. Pending'
    BY <1>7, <2>1, ConstantsOK DEF Checkpoint, IInv, TypeOK, Pending, OverCap, cleanVars
  <2>4. UNCHANGED <<clock, table, writer, lastWrite>>
    BY <1>7 DEF Checkpoint, writeVars
  <2>5. QED BY <2>2, <2>3, <2>4, FewerRows DEF IInv
<1>8. QED BY <1>1, <1>2, <1>3, <1>4, <1>5, <1>6, <1>7 DEF Write

\* The cleanup thread.
LEMMA CleanKeepsIInv ==
  ASSUME IInv, Clean
  PROVE  IInv'
<1>1. table' \subseteq table /\ UNCHANGED <<clock, writer, lastWrite, left, file>>
  BY DEF Clean, AgeCutoff, AgeLock, AgeDelete, SizeCheck, TrimLock, TrimDelete, CleanerExit,
         dbVars, writeVars
<1>2. UNCHANGED <<stats, cached, served, open, stopped>>
  BY DEF Clean, AgeCutoff, AgeLock, AgeDelete, SizeCheck, TrimLock, TrimDelete, CleanerExit,
         statsVars, runVars
<1>3. /\ Stamped' /\ Dated' /\ StampsPast' /\ SpacedWrites' /\ Newest'
      /\ IsFiniteSet(table') /\ table' \subseteq RowType
  BY <1>1, FewerRows
<1>4. clock \in Nat /\ Retention \in Nat
  BY ConstantsOK DEF IInv, TypeOK
<1>5. /\ cleaner' \in {"waiting", "age", "deleting", "size", "trim", "trimming", "done"}
      /\ lock' = IF cleaner' \in {"deleting", "trimming"} THEN "cleanup" ELSE None
      /\ cutoff' \in Int
  BY <1>4 DEF Clean, AgeCutoff, AgeLock, AgeDelete, SizeCheck, TrimLock, TrimDelete,
              CleanerExit, CleanerAt, IInv, TypeOK
<1>6. Pending'
  BY <1>1, <1>4 DEF Clean, AgeCutoff, AgeLock, AgeDelete, SizeCheck, TrimLock, TrimDelete,
                    CleanerExit, CleanerAt, IInv, Pending, OverCap
<1>7. TypeOK'
  BY <1>1, <1>2, <1>3, <1>5 DEF IInv, TypeOK
<1>8. QED BY <1>3, <1>6, <1>7 DEF IInv

\* The requests for stats(), stop() and the stutter.
LEMMA OtherKeepsIInv ==
  ASSUME IInv, Stats \/ Stop \/ Close \/ UNCHANGED vars
  PROVE  IInv'
<1>1. UNCHANGED <<clock, table, file, writer, lastWrite, left, lock, cleaner, cutoff>>
  BY DEF Stats, StatsFromCache, StatsBegin, StatsCount, StatsDone, Stop, Close, vars, dbVars,
         writeVars, cleanVars
<1>2. /\ open' \in BOOLEAN /\ stopped' \in BOOLEAN
  BY DEF Stats, StatsFromCache, StatsBegin, StatsCount, StatsDone, Stop, Close, vars, runVars,
         IInv, TypeOK
<1>3. Cardinality(table) \in Nat /\ Cardinality({r.id : r \in table}) \in Nat
  <2>1. IsFiniteSet(table)
    BY DEF IInv, TypeOK
  <2>2. Cardinality(table) \in Nat
    BY <2>1, FS_CardinalityType
  <2> DEFINE f == [r \in table |-> r.id]
  <2>3. f \in Surjection(table, {r.id : r \in table})
    BY DEF Surjection
  <2>4. IsFiniteSet({r.id : r \in table})
    BY <2>1, <2>3, FS_Surjection
  <2>5. QED BY <2>2, <2>4, FS_CardinalityType
<1>4. /\ stats' \in RefreshType \cup {None}
      /\ cached' \in [doc : DocType, at : Nat] \cup {None}
      /\ served' \in [doc : DocType, now : Nat] \cup {None}
  <2>1. CASE StatsFromCache
    BY <2>1 DEF StatsFromCache, StatsStale, IInv, TypeOK
  <2>2. CASE StatsBegin
    BY <2>2 DEF StatsBegin, IInv, TypeOK, RefreshType
  <2>3. CASE StatsCount
    BY <1>3, <2>3 DEF StatsCount, IInv, TypeOK, RefreshType
  <2>4. CASE StatsDone
    <3>1. stats \in RefreshType /\ stats.rows # None
      BY <2>4 DEF StatsDone, IInv, TypeOK
    <3>2. stats.now \in Nat /\ stats.rows \in Nat /\ stats.at \in Nat
      BY <3>1 DEF RefreshType
    <3>3. [rows |-> stats.rows, drones |-> Cardinality({r.id : r \in table}),
           at |-> stats.at] \in DocType
      BY <1>3, <3>2 DEF DocType
    <3>4. QED BY <2>4, <3>2, <3>3 DEF StatsDone
  <2>5. CASE Stop \/ Close \/ UNCHANGED vars
    BY <2>5 DEF Stop, Close, vars, statsVars, IInv, TypeOK
  <2>6. QED BY <2>1, <2>2, <2>3, <2>4, <2>5 DEF Stats
<1>5. TypeOK' /\ Pending'
  BY <1>1, <1>2, <1>4 DEF IInv, TypeOK, Pending, OverCap
<1>6. QED BY <1>1, <1>5, FewerRows DEF IInv

\* IInv is inductive.
LEMMA Invariant == Spec => []IInv
<1>1. IInv /\ [Next]_vars => IInv'
  BY WriteKeepsIInv, CleanKeepsIInv, OtherKeepsIInv DEF Next
<1>2. QED BY InitIInv, <1>1, PTL DEF Spec

-----------------------------------------------------------------------------
(* The theorems.                                                            *)

\* The log keeps its types and the write lock its holder.
THEOREM TypeCorrect == Spec => []TypeOK
BY Invariant, PTL DEF IInv

\* The stamps of two rows of one drone are a debounce window apart, and no row is
\* dated after the next one of its drone was stamped (history.py:174-182).
THEOREM WritesAlwaysSpaced == Spec => []SpacedWrites
BY Invariant, PTL DEF IInv

\* A row within the retention only goes when the file is over its cap, although
\* cutoff and size are read before the lock is taken (history.py:216-245).
THEOREM YoungRowsAreKept == Spec => KeptWhileYoung
<1> DEFINE Kept == \A r \in table \ table' : clock - r.ts > Retention \/ OverCap
<1>1. ASSUME IInv, [Next]_vars PROVE Kept
  <2>1. CASE AgeDelete
    <3>1. \A r \in table \ table' : r.ts < cutoff
      BY <2>1 DEF AgeDelete, TooOld
    <3>2. cutoff + Retention <= clock /\ cutoff \in Int /\ clock \in Nat /\ Retention \in Nat
      BY <1>1, <2>1, ConstantsOK DEF AgeDelete, CleanerAt, IInv, TypeOK, Pending
    <3>3. \A r \in table : r.ts \in Nat
      BY <1>1 DEF IInv, TypeOK, RowType
    <3>4. QED BY <3>1, <3>2, <3>3
  <2>2. CASE TrimDelete
    BY <1>1, <2>2 DEF TrimDelete, CleanerAt, IInv, Pending
  <2>3. CASE ~AgeDelete /\ ~TrimDelete
    <3>1. table \subseteq table'
      BY <1>1, <2>3
         DEF Next, Tick, Debounced, StampWrite, Write, DateRow, Insert, InsertFails,
             Checkpoint, Clean, AgeCutoff, AgeLock, SizeCheck, TrimLock, CleanerExit, Stats,
             StatsFromCache, StatsBegin, StatsCount, StatsDone, Stop, Close, vars, dbVars
    <3>2. QED BY <3>1
  <2>4. QED BY <2>1, <2>2, <2>3
<1>2. IInv /\ [Next]_vars => [Kept]_vars
  BY <1>1
<1>3. QED BY Invariant, <1>2, PTL DEF Spec, KeptWhileYoung

-----------------------------------------------------------------------------
(* The counts.                                                              *)

\* A refresh reads the clock before it counts, so what it caches is dated too early, if
\* anything.
Refreshes ==
    /\ stats # None => stats.now <= clock
    /\ stats # None /\ stats.rows # None => stats.now <= stats.at
    /\ cached # None => cached.at <= cached.doc.at

\* The parts of a refresh under way and of the cached reply.
LEMMA StatsFields ==
  ASSUME IInv
  PROVE  /\ stats # None => stats.now \in Nat
         /\ stats # None /\ stats.rows # None => stats.at \in Nat
         /\ cached # None => cached.at \in Nat /\ cached.doc.at \in Nat
BY DEF IInv, TypeOK, RefreshType, DocType

\* The four steps of stats() keep the order of the readings, and the reply fresh.
LEMMA StatsKeepFresh ==
  ASSUME IInv, Refreshes, StatsFresh, Stats
  PROVE  Refreshes' /\ StatsFresh'
<1>1. clock \in Nat /\ clock' = clock /\ StatsTtl \in Nat \ {0}
  BY ConstantsOK DEF Stats, StatsFromCache, StatsBegin, StatsCount, StatsDone, IInv, TypeOK
<1>2. CASE StatsFromCache
  <2>1. /\ cached # None /\ clock - cached.at < StatsTtl
        /\ served' = [doc |-> cached.doc, now |-> clock] /\ UNCHANGED <<stats, cached>>
    BY <1>1, <1>2, StatsFields DEF StatsFromCache, StatsStale
  <2>2. served'.now = clock /\ served'.doc = cached.doc
    BY <2>1
  <2>3. cached.at \in Nat /\ cached.doc.at \in Nat /\ cached.at <= cached.doc.at
    BY <2>1, StatsFields DEF Refreshes
  <2>4. StatsFresh'
    BY <1>1, <2>1, <2>2, <2>3 DEF StatsFresh
  <2>5. QED BY <1>1, <2>1, <2>4 DEF Refreshes
<1>3. CASE StatsBegin
  BY <1>1, <1>3 DEF StatsBegin, Refreshes, StatsFresh
<1>4. CASE StatsCount
  <2>1. /\ stats # None /\ stats' = [stats EXCEPT !.rows = Cardinality(table), !.at = clock]
        /\ UNCHANGED <<cached, served>>
    BY <1>4 DEF StatsCount
  <2>2. stats \in RefreshType
    BY <2>1 DEF IInv, TypeOK
  <2>3. stats'.now = stats.now /\ stats'.at = clock
    BY <2>1, <2>2 DEF RefreshType
  <2>4. QED BY <1>1, <2>1, <2>3 DEF Refreshes, StatsFresh
<1>5. CASE StatsDone
  <2> DEFINE doc == [rows |-> stats.rows, drones |-> Cardinality({r.id : r \in table}),
                     at |-> stats.at]
  <2>1. /\ stats # None /\ stats.rows # None /\ stats' = None
        /\ cached' = [doc |-> doc, at |-> stats.now]
        /\ served' = [doc |-> doc, now |-> stats.now]
    BY <1>5 DEF StatsDone
  <2>2. doc.at = stats.at
    OBVIOUS
  <2> HIDE DEF doc
  <2>3. stats.now \in Nat /\ stats.at \in Nat /\ stats.now <= stats.at
    BY <2>1, StatsFields DEF Refreshes
  <2>4. QED BY <1>1, <2>1, <2>2, <2>3 DEF Refreshes, StatsFresh
<1>6. QED BY <1>2, <1>3, <1>4, <1>5 DEF Stats

\* Every other step leaves stats() alone, and time does not go back.
LEMMA OthersKeepFresh ==
  ASSUME IInv, Refreshes, StatsFresh, [Next]_vars, ~Stats
  PROVE  Refreshes' /\ StatsFresh'
<1>1. UNCHANGED <<stats, cached, served>>
  BY DEF Next, Tick, Debounced, StampWrite, Write, DateRow, Insert, InsertFails,
         Checkpoint, Clean, AgeCutoff, AgeLock, AgeDelete, SizeCheck, TrimLock, TrimDelete,
         CleanerExit, Stop, Close, vars, statsVars
<1>2. clock \in Nat /\ (clock' = clock \/ clock' = clock + 1)
  BY DEF Next, Tick, Debounced, StampWrite, Write, DateRow, Insert, InsertFails,
         Checkpoint, Clean, AgeCutoff, AgeLock, AgeDelete, SizeCheck, TrimLock, TrimDelete,
         CleanerExit, Stop, Close, vars, IInv, TypeOK
<1>3. QED BY <1>1, <1>2, StatsFields DEF Refreshes, StatsFresh

\* No reply of stats() is built from counts that are STATS_TTL_S old or older
\* (history.py:356-366).
THEOREM StatsAlwaysFresh == Spec => []StatsFresh
<1>1. Init => Refreshes /\ StatsFresh
  BY DEF Init, Refreshes, StatsFresh
<1>2. IInv /\ Refreshes /\ StatsFresh /\ [Next]_vars => Refreshes' /\ StatsFresh'
  BY StatsKeepFresh, OthersKeepFresh
<1>3. QED BY Invariant, <1>1, <1>2, PTL DEF Spec
=============================================================================
