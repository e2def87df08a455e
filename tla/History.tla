------------------------------- MODULE History -------------------------------
(***************************************************************************)
(* The detection log (history.py): the cache's change hook inserts at most *)
(* one row per drone and debounce window, a cleanup thread deletes rows    *)
(* past the retention and, when the file is over its cap, a tenth of the   *)
(* rows; /status requests share one cached count of the table.             *)
(*                                                                         *)
(* The cache lock serialises the change hooks, so there is one writer at a *)
(* time; the write lock stands between it, the cleanup thread and stop().  *)
(* SQLite is external: a statement is atomic, deleted rows leave free      *)
(* pages that later rows reuse, and the file never shrinks.                *)
(***************************************************************************)
EXTENDS Integers, FiniteSets, FiniteSetsExt, Functions

CONSTANTS
    UasIds,
    Debounce,    \* debounce_s
    Retention,   \* retention_days
    FileCap,     \* max_mb, in rows
    StatsTtl,    \* STATS_TTL_S
    Boot,        \* the clock when the program starts
    MaxTime,     \* bound: the clock stops here
    RxUntil,     \* bound: nothing is heard after this time
    MaxChanges,  \* bound: change hooks in a behaviour
    MayFail,     \* whether an insert may fail
    MayStop,     \* whether the program is asked to stop
    AskStats,    \* whether /status is requested
    None

\* A row, with the debounce stamp it was written under (history).  The hook stamps it
\* before it dates it.
DraftType == [n : Nat, id : UasIds, stamp : Nat, ts : {None}]
RowType == [n : Nat, id : UasIds, stamp : Nat, ts : Nat]

ASSUME ConstantsOK ==
    /\ Debounce \in Nat /\ Retention \in Nat /\ FileCap \in Nat /\ StatsTtl \in Nat \ {0}
    /\ Boot \in Nat /\ MaxTime \in Nat /\ RxUntil \in Nat /\ MaxChanges \in Nat
    /\ MayFail \in BOOLEAN /\ MayStop \in BOOLEAN /\ AskStats \in BOOLEAN
    /\ None \notin RowType

VARIABLES
    clock,      \* the monotonic clock, and the wall clock as nobody steps it
    table,      \* detections: rows [n, id, stamp, ts]
    file,       \* the size of the main database file, in rows
    lastWrite,  \* _last_write
    writer,     \* the row of the hook that has its stamp, or None
    lock,       \* _write_lock: None or "cleanup"
    cleaner,    \* the cleanup thread
    cutoff,     \* its local `cutoff`
    stats,      \* the refresh in progress in _compute_stats, or None
    cached,     \* _stats_cache and _stats_at, or None
    served,     \* the last stats() reply, or None
    open,       \* whether the write connection is open
    stopped,    \* _stop
    left        \* change hooks left (a bound)

dbVars    == <<table, file>>
writeVars == <<lastWrite, writer, left>>
cleanVars == <<cleaner, cutoff>>
statsVars == <<stats, cached, served>>
runVars   == <<open, stopped>>
vars == <<clock, dbVars, writeVars, lock, cleanVars, statsVars, runVars>>

EmptyMap == [x \in {} |-> None]
Put(f, x, v) == [y \in DOMAIN f \cup {x} |-> IF y = x THEN v ELSE f[y]]

Init ==
    /\ clock = Boot
    /\ table = {} /\ file = 0
    /\ lastWrite = EmptyMap /\ writer = None /\ left = MaxChanges
    /\ lock = None
    /\ cleaner = "waiting" /\ cutoff = 0
    /\ stats = None /\ cached = None /\ served = None
    /\ open = TRUE /\ stopped = FALSE

Tick ==
    /\ clock < MaxTime
    /\ clock' = clock + 1
    /\ UNCHANGED <<dbVars, writeVars, lock, cleanVars, statsVars, runVars>>

-----------------------------------------------------------------------------
(* on_drone_change, called with the cache lock held: one at a time.         *)

\* `_last_write.get(uas_id, 0.0)`: a drone never written was written at zero.
LastWrite(u) == IF u \in DOMAIN lastWrite THEN lastWrite[u] ELSE 0

Hooked ==
    /\ writer = None
    /\ left > 0 /\ clock <= RxUntil
    /\ left' = left - 1

Debounced(u) ==
    /\ Hooked
    /\ clock - LastWrite(u) < Debounce
    /\ UNCHANGED <<clock, dbVars, lastWrite, writer, lock, cleanVars, statsVars, runVars>>

\* Mutant: the stamp is left to the insert, which forgets it.
StampForgotten(u) ==
    /\ Hooked
    /\ clock - LastWrite(u) >= Debounce
    /\ writer' = [n |-> MaxChanges - left, id |-> u, stamp |-> clock, ts |-> None]
    /\ UNCHANGED <<clock, dbVars, lastWrite, lock, cleanVars, statsVars, runVars>>
\* The stamp is set before the insert is tried.
StampWrite(u) ==
    /\ Hooked
    /\ clock - LastWrite(u) >= Debounce
    /\ lastWrite' = Put(lastWrite, u, clock)
    /\ writer' = [n |-> MaxChanges - left, id |-> u, stamp |-> clock, ts |-> None]
    /\ UNCHANGED <<clock, dbVars, lock, cleanVars, statsVars, runVars>>

\* The row's own time is a second reading, after the stamp was set.
DateRow ==
    /\ writer # None /\ writer.ts = None
    /\ writer' = [writer EXCEPT !.ts = clock]
    /\ UNCHANGED <<clock, dbVars, lastWrite, left, lock, cleanVars, statsVars, runVars>>

\* The row is inserted; on a closed connection it cannot be.
Insert ==
    /\ writer # None /\ writer.ts # None /\ lock = None
    /\ open
    /\ table' = table \cup {writer}
    /\ writer' = None
    /\ UNCHANGED <<clock, file, lastWrite, left, lock, cleanVars, statsVars, runVars>>

\* The exception is logged and the row is lost.
InsertFails ==
    /\ writer # None /\ writer.ts # None /\ lock = None
    /\ MayFail \/ ~open
    /\ writer' = None
    /\ UNCHANGED <<clock, dbVars, lastWrite, left, lock, cleanVars, statsVars, runVars>>

\* SQLite moves its write-ahead log to the main file, which grows if it must.
Checkpoint ==
    /\ file < Cardinality(table)
    /\ file' = Cardinality(table)
    /\ UNCHANGED <<clock, table, writeVars, lock, cleanVars, statsVars, runVars>>

-----------------------------------------------------------------------------
(* The cleanup thread.                                                      *)

CleanerAt(from, to) == cleaner = from /\ cleaner' = to

\* _prune_age: the cutoff is computed before the lock is taken.
AgeCutoff ==
    /\ CleanerAt("waiting", "age") /\ ~stopped
    /\ cutoff' = clock - Retention
    /\ UNCHANGED <<clock, dbVars, writeVars, lock, statsVars, runVars>>

AgeLock ==
    /\ CleanerAt("age", "deleting")
    /\ lock = None /\ lock' = "cleanup"
    /\ UNCHANGED <<clock, dbVars, writeVars, cutoff, statsVars, runVars>>

\* Mutant: a row as old as the retention allows goes.
OldEnough == {r \in table : r.ts <= cutoff}
TooOld == {r \in table : r.ts < cutoff}

\* Mutant: a DELETE that raises keeps the lock.
AgeDeleteHolding ==
    /\ CleanerAt("deleting", IF open THEN "size" ELSE "waiting")
    /\ table' = IF open THEN table \ TooOld ELSE table
    /\ lock' = IF open THEN None ELSE lock
    /\ cutoff' = 0
    /\ UNCHANGED <<clock, file, writeVars, statsVars, runVars>>
\* On a closed connection the DELETE raises and the round is over.
AgeDelete ==
    /\ CleanerAt("deleting", IF open THEN "size" ELSE "waiting")
    /\ table' = IF open THEN table \ TooOld ELSE table
    /\ lock' = None
    /\ cutoff' = 0
    /\ UNCHANGED <<clock, file, writeVars, statsVars, runVars>>

OverCap == file > FileCap

\* Mutant: a file within its cap ends the loop, not the round.
SizeCheckLast ==
    /\ CleanerAt("size", IF OverCap THEN "trim" ELSE "done")
    /\ UNCHANGED <<clock, dbVars, writeVars, lock, cutoff, statsVars, runVars>>
\* _prune_size: the size of the main file decides.
SizeCheck ==
    /\ CleanerAt("size", IF OverCap THEN "trim" ELSE "waiting")
    /\ UNCHANGED <<clock, dbVars, writeVars, lock, cutoff, statsVars, runVars>>

TrimLock ==
    /\ CleanerAt("trim", "trimming")
    /\ lock = None /\ lock' = "cleanup"
    /\ UNCHANGED <<clock, dbVars, writeVars, cutoff, statsVars, runVars>>

\* `max(1, total // 10)`, of a table that may be empty.
TrimCount(total) == Min({total, Max({1, total \div 10})})

\* `ORDER BY ts ASC LIMIT ?`: nothing that stays is older than what goes.
OldestRows(k) ==
    {S \in kSubset(k, table) : \A r \in S, q \in table \ S : r.ts <= q.ts}

TrimDelete ==
    /\ CleanerAt("trimming", "waiting")
    /\ IF open
       THEN \E S \in OldestRows(TrimCount(Cardinality(table))) : table' = table \ S
       ELSE UNCHANGED table
    /\ lock' = None
    /\ UNCHANGED <<clock, file, writeVars, cutoff, statsVars, runVars>>

CleanerExit ==
    /\ stopped
    /\ CleanerAt("waiting", "done")
    /\ UNCHANGED <<clock, dbVars, writeVars, lock, cutoff, statsVars, runVars>>

-----------------------------------------------------------------------------
(* stats(): under _stats_lock, so one request at a time; the others wait    *)
(* for its refresh.                                                         *)

StatsStale(now) == cached # None => now - cached.at >= StatsTtl

StatsFromCache ==
    /\ AskStats /\ stats = None
    /\ ~StatsStale(clock)
    /\ served' = [doc |-> cached.doc, now |-> clock]
    /\ UNCHANGED <<clock, dbVars, writeVars, lock, cleanVars, stats, cached, runVars>>

\* The cache is stale: the request reads the clock and refreshes it, ...
StatsBegin ==
    /\ AskStats /\ stats = None
    /\ StatsStale(clock)
    /\ stats' = [now |-> clock, rows |-> None, at |-> None]
    /\ UNCHANGED <<clock, dbVars, writeVars, lock, cleanVars, cached, served, runVars>>

\* ... the counts being separate queries; `at` is when the first was run (history).
StatsCount ==
    /\ stats # None /\ stats.rows = None
    /\ stats' = [stats EXCEPT !.rows = Cardinality(table), !.at = clock]
    /\ UNCHANGED <<clock, dbVars, writeVars, lock, cleanVars, cached, served, runVars>>

\* Mutant: the cache is dated when the refresh ends.
StatsDoneLate ==
    /\ stats # None /\ stats.rows # None
    /\ LET doc == [rows |-> stats.rows, drones |-> Cardinality({r.id : r \in table}),
                   at |-> stats.at] IN
       /\ cached' = [doc |-> doc, at |-> clock]
       /\ served' = [doc |-> doc, now |-> stats.now]
    /\ stats' = None
    /\ UNCHANGED <<clock, dbVars, writeVars, lock, cleanVars, runVars>>
StatsDone ==
    /\ stats # None /\ stats.rows # None
    /\ LET doc == [rows |-> stats.rows, drones |-> Cardinality({r.id : r \in table}),
                   at |-> stats.at] IN
       /\ cached' = [doc |-> doc, at |-> stats.now]
       /\ served' = [doc |-> doc, now |-> stats.now]
    /\ stats' = None
    /\ UNCHANGED <<clock, dbVars, writeVars, lock, cleanVars, runVars>>

-----------------------------------------------------------------------------

Stop ==
    /\ MayStop /\ ~stopped
    /\ stopped' = TRUE
    /\ UNCHANGED <<clock, dbVars, writeVars, lock, cleanVars, statsVars, open>>

Close ==
    /\ stopped /\ open /\ lock = None
    /\ open' = FALSE
    /\ UNCHANGED <<clock, dbVars, writeVars, lock, cleanVars, statsVars, stopped>>

Write == DateRow \/ Insert \/ InsertFails
Clean ==
    \/ AgeCutoff \/ AgeLock \/ AgeDelete
    \/ SizeCheck \/ TrimLock \/ TrimDelete
    \/ CleanerExit
Stats == StatsFromCache \/ StatsBegin \/ StatsCount \/ StatsDone

Next ==
    \/ Tick
    \/ \E u \in UasIds : Debounced(u) \/ StampWrite(u)
    \/ Write \/ Checkpoint
    \/ Clean
    \/ Stats
    \/ Stop \/ Close

Spec == Init /\ [][Next]_vars

\* The cleanup thread's wait(60 s) returns and its statements end; so do inserts.
Fairness == WF_vars(Tick) /\ WF_vars(Write) /\ WF_vars(Clean)

FairSpec == Spec /\ Fairness

-----------------------------------------------------------------------------
(* Properties.                                                              *)

DocType == [rows : Nat, drones : Nat, at : Nat]
RefreshType ==
    [now : Nat, rows : {None}, at : {None}] \cup [now : Nat, rows : Nat, at : Nat]

\* Every variable keeps its type, and the write lock has the holder the code says.
TypeOK ==
    /\ clock \in Nat
    /\ table \subseteq RowType /\ IsFiniteSet(table) /\ file \in Nat
    /\ DOMAIN lastWrite \subseteq UasIds /\ lastWrite \in [DOMAIN lastWrite -> Nat]
    /\ writer \in RowType \cup DraftType \cup {None}
    /\ left \in 0..MaxChanges
    /\ cleaner \in {"waiting", "age", "deleting", "size", "trim", "trimming", "done"}
    /\ lock = IF cleaner \in {"deleting", "trimming"} THEN "cleanup" ELSE None
    /\ cutoff \in Int
    /\ stats \in RefreshType \cup {None}
    /\ cached \in [doc : DocType, at : Nat] \cup {None}
    /\ served \in [doc : DocType, now : Nat] \cup {None}
    /\ open \in BOOLEAN /\ stopped \in BOOLEAN

\* Row q was stamped a debounce window after row r was, and not before r was dated.
Before(r, q) == r.stamp + Debounce <= q.stamp /\ r.ts <= q.stamp

\* One drone is written once per debounce window: the stamps of two of its rows are a
\* window apart, and the rows' times, read after the stamps, follow the same order --
\* whatever was evicted, pruned, delayed at the write lock or lost in between
\* (README.md:193 "per-drone min write spacing").  The times themselves may be closer than
\* a window, by what passed between a stamp and the time read after it.
SpacedWrites ==
    \A r, q \in table : r # q /\ r.id = q.id => Before(r, q) \/ Before(q, r)

\* A row only goes when it is past the retention, by the clock at the time, or when
\* the file is over its cap -- although the cutoff and the file size are read
\* before the write lock is taken (_prune_age, _prune_size).
KeptWhileYoung ==
    [][\A r \in table \ table' : clock - r.ts > Retention \/ OverCap]_vars

\* Once nothing is heard the log forgets: every row past the retention goes, unless
\* the program is being stopped (README.md:192 "drops rows older than this").
EventuallyPruned ==
    <>[](stopped \/ \A r \in table : clock - r.ts <= Retention)

\* A reply of stats() is never built from counts older than STATS_TTL_S, however
\* long the refresh that took them lasted (history.py:356-366).
StatsFresh == served # None => served.now - served.doc.at < StatsTtl

\* README.md:191 "rotates oldest rows when over": a row that is within the retention
\* only goes while the table holds more than the cap.  The file keeps its size when
\* rows are deleted, so that rotation, once begun, never ends.
RotatesOnlyWhenOver ==
    [][\A r \in table \ table' :
          clock - r.ts > Retention \/ Cardinality(table) > FileCap]_vars

=============================================================================
