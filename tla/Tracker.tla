------------------------------- MODULE Tracker -------------------------------
(***************************************************************************)
(* The in-memory drone cache (tracker.py): the radio threads decode Remote *)
(* ID messages and call update_*, a sweeper thread drops drones that have  *)
(* been silent for longer than the TTL, HTTP threads copy the cache.       *)
(*                                                                         *)
(* Every operation reads the clock first and takes the cache lock after;   *)
(* the two are separate steps here, so operations commit in an order that  *)
(* need not be the order of their timestamps.  The change hook runs with   *)
(* the lock held, the expiry hooks run after it was released.              *)
(***************************************************************************)
EXTENDS Integers, FiniteSets, Sequences, SequencesExt

CONSTANTS
    Threads,      \* radio threads (one BLE, one Wi-Fi in the program)
    Readers,      \* HTTP / MQTT status threads that copy the cache
    SourceOf,     \* the transports each radio thread reports
    RssisOf,      \* the signal strengths it measures, None where a driver reports none
    Macs, UasIds, IdTypes, UaTypes, OpFixes, OpAlts, SelfIds, OperatorIds,
    Reports,      \* what Locations carry: a position and the rest of the flight data
    Kinds,        \* the message types on the air
    Ttl,          \* ttl_seconds
    MaxTime,      \* bound: the clock stops here
    RxUntil,      \* bound: nothing is received after this time
    MaxMessages,  \* bound: messages received in a behaviour
    MayStop,      \* whether stop() may be called
    None          \* Python's None; a blank description or operator id, too

Sources == UNION {SourceOf[t] : t \in Threads}
Rssis == UNION {RssisOf[t] : t \in Threads}

ASSUME ConstantsOK ==
    /\ SourceOf \in [Threads -> SUBSET Sources]
    /\ RssisOf \in [Threads -> SUBSET Rssis]
    /\ Ttl \in Nat /\ MaxTime \in Nat /\ RxUntil \in Nat /\ MaxMessages \in Nat
    /\ MayStop \in BOOLEAN

\* An operator fix is a coordinate with the type of that coordinate.
ASSUME OpFixesOK == \A o \in OpFixes :
    o = [pos |-> o.pos, type |-> o.type] /\ o.pos # None /\ o.type # None

\* What a Location may lack.  A position without a coordinate is no Location at all.
FlightFields == {"alt_geo_m", "height_agl_m", "gs_mps", "heading_deg", "vspeed_mps"}
NoFlight == [f \in FlightFields |-> None]
ASSUME ReportsOK == \A r \in Reports :
    /\ r = [pos |-> r.pos, flight |-> r.flight]
    /\ r.pos # None /\ DOMAIN r.flight = FlightFields

ASSUME NoneIsNoValue ==
    /\ None \notin Threads
    /\ None \notin UasIds
    /\ None \notin IdTypes \cup UaTypes \cup OpAlts \cup SelfIds \cup OperatorIds
    /\ None \notin Nat

VARIABLES
    clock,          \* time.monotonic()
    drones,         \* _drones: uas_id -> DroneState, for the cached ids
    macToUas,       \* _mac_to_uas: mac -> uas_id, for the mapped MACs
    messagesTotal,  \* _messages_total
    bySource,       \* _by_source: rid_source -> counters
    call,           \* call[t]: the update_* call of thread t before it has the lock
    hook,           \* the change hook being run, with the lock held, or None
    sweep,          \* the sweeper: "waiting", "cutoff", "firing" or "done"
    cutoff,         \* the sweeper's local `cutoff`
    expiring,       \* the sweeper's local `stale`, less what was already fired
    reading,        \* reading[r]: the snapshot() or health() call before the lock
    docs,           \* docs[r]: the last document copied for r
    stopped,        \* _stop
    rxLeft          \* messages that may still be received (a bound)

vars == <<clock, drones, macToUas, messagesTotal, bySource, call, hook, sweep,
          cutoff, expiring, reading, docs, stopped, rxLeft>>

-----------------------------------------------------------------------------
(* Messages as the decoders hand them over.  A System message carries a     *)
(* coordinate together with its location type or neither of the two.        *)

OrNone(S) == S \cup {None}
NoOpFix == [pos |-> None, type |-> None]

Message ==
    UNION { [kind : {"basic_id"}, mac : Macs, src : Sources, rssi : Rssis, id : UasIds,
             idType : IdTypes, uaType : OrNone(UaTypes)],
            [kind : {"location"}, mac : Macs, src : Sources, rssi : Rssis, report : Reports],
            [kind : {"system"}, mac : Macs, src : Sources, rssi : Rssis,
             op : OpFixes \cup {NoOpFix}, opAlt : OrNone(OpAlts)],
            [kind : {"self_id"}, mac : Macs, src : Sources, rssi : Rssis,
             text : OrNone(SelfIds)],
            [kind : {"operator_id"}, mac : Macs, src : Sources, rssi : Rssis,
             text : OrNone(OperatorIds)] }

OnAir(t) ==
    {m \in Message : m.kind \in Kinds /\ m.src \in SourceOf[t] /\ m.rssi \in RssisOf[t]}

-----------------------------------------------------------------------------
(* The cache entry of one drone.                                            *)

DroneState ==
    [idType : IdTypes, uaType : OrNone(UaTypes),
     fix : OrNone({r.pos : r \in Reports}), flight : {NoFlight} \cup {r.flight : r \in Reports},
     opPos : OrNone({o.pos : o \in OpFixes}), opType : OrNone({o.type : o \in OpFixes}),
     opAlt : OrNone(OpAlts), operatorId : OrNone(OperatorIds), selfId : OrNone(SelfIds),
     rssi : OrNone(Rssis), source : OrNone(Sources), sources : Seq(Sources),
     count : Nat, lastSeen : Nat,
     lastPos : OrNone(Nat), lastOp : OrNone(Nat), lastSelf : OrNone(Nat)]

FreshState(idType, uaType) ==
    [idType |-> idType, uaType |-> uaType, fix |-> None, flight |-> NoFlight,
     opPos |-> None, opType |-> None, opAlt |-> None,
     operatorId |-> None, selfId |-> None,
     rssi |-> None, source |-> None, sources |-> <<>>, count |-> 0, lastSeen |-> 0,
     lastPos |-> None, lastOp |-> None, lastSelf |-> None]

\* Mutant: the id type of a new drone is left out.
UntypedDrone(m) == FreshState(None, m.uaType)
NewDrone(m) == FreshState(m.idType, m.uaType)

\* A partial update: a value the decoder could not produce leaves the old one.
Keep(old, new) == IF new = None THEN old ELSE new

\* Mutant: the UA type is the latest one, like the other fields.
IdentifiedAnew(s, m) == [s EXCEPT !.uaType = Keep(@, m.uaType)]
\* Identity is write-once: only an unknown UA type is filled in.
Identified(s, m) == [s EXCEPT !.uaType = IF @ = None THEN m.uaType ELSE @]

\* Mutant: the position is not dated.
LocatedUndated(s, m, now) ==
    [s EXCEPT !.fix = m.report.pos, !.flight = m.report.flight]
\* Mutant: a value the Location lacks leaves the old one, as in the operator block.
LocatedPartly(s, m, now) ==
    [s EXCEPT !.fix = m.report.pos, !.lastPos = now,
              !.flight = [f \in FlightFields |-> Keep(@[f], m.report.flight[f])]]
\* A Location replaces the flight data whole: what it lacks becomes unknown.
Located(s, m, now) ==
    [s EXCEPT !.fix = m.report.pos, !.flight = m.report.flight, !.lastPos = now]

\* Mutant: the location type is overwritten even when the decoder has none.
OperatorBlockUnguarded(s, m, now) ==
    [s EXCEPT !.opPos = Keep(@, m.op.pos), !.opType = m.op.type,
              !.opAlt = Keep(@, m.opAlt), !.lastOp = now]
OperatorBlock(s, m, now) ==
    [s EXCEPT !.opPos = Keep(@, m.op.pos), !.opType = Keep(@, m.op.type),
              !.opAlt = Keep(@, m.opAlt), !.lastOp = now]

\* Mutant: a blank description erases an earlier one.
DescribedUnguarded(s, m, now) == [s EXCEPT !.selfId = m.text, !.lastSelf = now]
Described(s, m, now) == [s EXCEPT !.selfId = Keep(@, m.text), !.lastSelf = now]

Registered(s, m, now) == [s EXCEPT !.operatorId = Keep(@, m.text), !.lastOp = now]

\* Mutant: a transport that is already listed keeps its place.
ListSource(sources, src) == IF src \in Range(sources) THEN sources ELSE Cons(src, sources)
\* Move a transport to the front of the heard-from list.
TouchSources(sources, src) == Cons(src, RemoveFirst(sources, src))

\* What every update does to the entry, whatever its type.  The signal strength is
\* the latest message's, known or not.
Heard(s, m, now) ==
    [s EXCEPT !.rssi = m.rssi, !.source = m.src, !.sources = TouchSources(@, m.src),
              !.count = @ + 1, !.lastSeen = now]

Put(f, x, v) == [y \in DOMAIN f \cup {x} |-> IF y = x THEN v ELSE f[y]]

\* Mutant: the first message of a transport only makes its entry.
BumpKnownSource(stats, src, now) ==
    Put(stats, src,
        [messages |-> IF src \in DOMAIN stats THEN stats[src].messages + 1 ELSE 0,
         lastSeen |-> now])
BumpSource(stats, src, now) ==
    Put(stats, src,
        [messages |-> (IF src \in DOMAIN stats THEN stats[src].messages ELSE 0) + 1,
         lastSeen |-> now])

EmptyMap == [x \in {} |-> None]

-----------------------------------------------------------------------------

Init ==
    /\ clock = 0
    /\ drones = EmptyMap
    /\ macToUas = EmptyMap
    /\ messagesTotal = 0
    /\ bySource = EmptyMap
    /\ call = [t \in Threads |-> None]
    /\ hook = None
    /\ sweep = "waiting"
    /\ cutoff = 0
    /\ expiring = {}
    /\ reading = [r \in Readers |-> None]
    /\ docs = [r \in Readers |-> None]
    /\ stopped = FALSE
    /\ rxLeft = MaxMessages

cacheVars == <<drones, macToUas, messagesTotal, bySource>>
sweepVars == <<sweep, cutoff, expiring>>
readVars  == <<reading, docs>>

LockFree == hook = None
InHook(t) == hook # None /\ hook.thread = t

Tick ==
    /\ clock < MaxTime
    /\ clock' = clock + 1
    /\ UNCHANGED <<cacheVars, call, hook, sweepVars, readVars, stopped, rxLeft>>

-----------------------------------------------------------------------------
(* Radio threads.                                                           *)

\* A decoded message reaches update_*, which reads the clock.
Receive(t) ==
    /\ call[t] = None
    /\ ~InHook(t)
    /\ rxLeft > 0 /\ clock <= RxUntil
    /\ \E m \in OnAir(t) : call' = [call EXCEPT ![t] = [msg |-> m, now |-> clock]]
    /\ rxLeft' = rxLeft - 1
    /\ UNCHANGED <<clock, cacheVars, hook, sweepVars, readVars, stopped>>

\* _drone_for_mac: the cached drone a MAC belongs to, or None.
DroneForMac(mac) ==
    IF mac \in DOMAIN macToUas /\ macToUas[mac] \in DOMAIN drones
    THEN macToUas[mac] ELSE None

\* Thread t has the lock and handles a message of this type.
Handling(t, kind) == LockFree /\ call[t] # None /\ call[t].msg.kind = kind

\* The end of every update's critical section: entry s becomes the state of
\* drone id, the counters move and the change hook starts.
Commit(t, id, s) ==
    LET m == call[t].msg  now == call[t].now IN
    /\ drones' = Put(drones, id, Heard(s, m, now))
    /\ messagesTotal' = messagesTotal + 1
    /\ bySource' = BumpSource(bySource, m.src, now)
    /\ hook' = [thread |-> t, id |-> id, now |-> now]
    /\ call' = [call EXCEPT ![t] = None]
    /\ UNCHANGED <<clock, sweepVars, readVars, stopped, rxLeft>>

UpdateBasicId(t) ==
    /\ Handling(t, "basic_id")
    /\ LET m == call[t].msg IN
       /\ Commit(t, m.id, IF m.id \in DOMAIN drones
                          THEN Identified(drones[m.id], m) ELSE NewDrone(m))
       /\ macToUas' = Put(macToUas, m.mac, m.id)

UpdateKnown(t, kind, NewState(_, _, _)) ==
    /\ Handling(t, kind)
    /\ LET id == DroneForMac(call[t].msg.mac) IN
       /\ id # None
       /\ Commit(t, id, NewState(drones[id], call[t].msg, call[t].now))
    /\ UNCHANGED macToUas

UpdateLocation(t)   == UpdateKnown(t, "location", Located)
UpdateSystem(t)     == UpdateKnown(t, "system", OperatorBlock)
UpdateSelfId(t)     == UpdateKnown(t, "self_id", Described)
UpdateOperatorId(t) == UpdateKnown(t, "operator_id", Registered)

\* Mutant: the message is counted before it is dropped.
DropUnmappedCounted(t) ==
    /\ LockFree /\ call[t] # None
    /\ call[t].msg.kind # "basic_id"
    /\ DroneForMac(call[t].msg.mac) = None
    /\ call' = [call EXCEPT ![t] = None]
    /\ messagesTotal' = messagesTotal + 1
    /\ UNCHANGED <<clock, drones, macToUas, bySource, hook, sweepVars, readVars,
                   stopped, rxLeft>>
\* Heard before the identity of its MAC: dropped, and counted nowhere.
DropUnmapped(t) ==
    /\ LockFree /\ call[t] # None
    /\ call[t].msg.kind # "basic_id"
    /\ DroneForMac(call[t].msg.mac) = None
    /\ call' = [call EXCEPT ![t] = None]
    /\ UNCHANGED <<clock, cacheVars, hook, sweepVars, readVars, stopped, rxLeft>>

\* The change hook returns and the update releases the lock.
FireChange(t) ==
    /\ InHook(t)
    /\ hook' = None
    /\ UNCHANGED <<clock, cacheVars, call, sweepVars, readVars, stopped, rxLeft>>

Update(t) ==
    \/ UpdateBasicId(t)
    \/ UpdateLocation(t)
    \/ UpdateSystem(t)
    \/ UpdateSelfId(t)
    \/ UpdateOperatorId(t)
    \/ DropUnmapped(t)

-----------------------------------------------------------------------------
(* The sweeper thread.                                                      *)

\* Mutant: the cutoff forgets the TTL.
SweepCutoffNow ==
    /\ sweep = "waiting" /\ ~stopped
    /\ sweep' = "cutoff"
    /\ cutoff' = clock
    /\ UNCHANGED <<clock, cacheVars, call, hook, expiring, readVars, stopped, rxLeft>>
SweepCutoff ==
    /\ sweep = "waiting" /\ ~stopped
    /\ sweep' = "cutoff"
    /\ cutoff' = clock - Ttl
    /\ UNCHANGED <<clock, cacheVars, call, hook, expiring, readVars, stopped, rxLeft>>

\* Mutant: a drone heard at the cutoff is stale.
StaleAtCutoff == {u \in DOMAIN drones : drones[u].lastSeen <= cutoff}
Stale == {u \in DOMAIN drones : drones[u].lastSeen < cutoff}

\* Mutant: the mappings of the evicted drones stay.
AllMacs(gone) == DOMAIN macToUas
\* The MAC mappings that survive the loss of the drones in gone.
LiveMacs(gone) == {m \in DOMAIN macToUas : macToUas[m] \in DOMAIN drones \ gone}

SweepEvict ==
    /\ sweep = "cutoff" /\ LockFree
    /\ drones' = Restrict(drones, DOMAIN drones \ Stale)
    /\ macToUas' = Restrict(macToUas, LiveMacs(Stale))
    /\ expiring' = Stale
    /\ sweep' = IF Stale = {} THEN "waiting" ELSE "firing"
    /\ cutoff' = 0
    /\ UNCHANGED <<clock, messagesTotal, bySource, call, hook, readVars, stopped, rxLeft>>

\* Mutant: a hook that raises ends the loop over the evicted drones.
FireExpireOnce(u) ==
    /\ sweep = "firing" /\ u \in expiring
    /\ expiring' = {}
    /\ sweep' = "waiting"
    /\ UNCHANGED <<clock, cacheVars, call, hook, cutoff, readVars, stopped, rxLeft>>
\* One expiry hook, outside the lock.
FireExpire(u) ==
    /\ sweep = "firing" /\ u \in expiring
    /\ expiring' = expiring \ {u}
    /\ sweep' = IF expiring = {u} THEN "waiting" ELSE "firing"
    /\ UNCHANGED <<clock, cacheVars, call, hook, cutoff, readVars, stopped, rxLeft>>

SweepExit ==
    /\ sweep = "waiting" /\ stopped
    /\ sweep' = "done"
    /\ UNCHANGED <<clock, cacheVars, call, hook, cutoff, expiring, readVars, stopped, rxLeft>>

Stop ==
    /\ MayStop /\ ~stopped
    /\ stopped' = TRUE
    /\ UNCHANGED <<clock, cacheVars, call, hook, sweepVars, readVars, rxLeft>>

-----------------------------------------------------------------------------
(* Readers: snapshot() for the feed, health() for /status and MQTT.  Both   *)
(* read the clock before they take the lock and copy under it.              *)

Age(now, stamp) == IF stamp = None THEN None ELSE now - stamp

\* A row is the entry with its timestamps turned into ages.
RowFor(s, now) ==
    [s EXCEPT !.lastSeen = now - @, !.lastPos = Age(now, @),
              !.lastOp = Age(now, @), !.lastSelf = Age(now, @)]

\* Mutant: the total is the number of rows.
SnapshotOfRows(now) ==
    [op |-> "snapshot", messages |-> Cardinality(DOMAIN drones),
     rows |-> [u \in DOMAIN drones |-> RowFor(drones[u], now)]]
Snapshot(now) ==
    [op |-> "snapshot", messages |-> messagesTotal,
     rows |-> [u \in DOMAIN drones |-> RowFor(drones[u], now)]]

\* `last_seen_s`: the age of the newest transport stamp.
LastAny(now) ==
    IF bySource = EmptyMap THEN None
    ELSE now - Max({bySource[src].lastSeen : src \in DOMAIN bySource})

\* Mutant: the total is what the cached drones sent.
HealthOfCached(now) ==
    [op |-> "health", active |-> Cardinality(DOMAIN drones), lastSeen |-> LastAny(now),
     messages |-> MapThenSumSet(LAMBDA u : drones[u].count, DOMAIN drones),
     sources |-> EmptyMap]
Health(now) ==
    [op |-> "health", messages |-> messagesTotal, active |-> Cardinality(DOMAIN drones),
     lastSeen |-> LastAny(now),
     sources |-> [src \in DOMAIN bySource |->
                    [messages |-> bySource[src].messages,
                     lastSeen |-> now - bySource[src].lastSeen]]]

StartRead(r, op) ==
    /\ reading[r] = None
    /\ reading' = [reading EXCEPT ![r] = [op |-> op, now |-> clock]]
    /\ UNCHANGED <<clock, cacheVars, call, hook, sweepVars, docs, stopped, rxLeft>>

FinishRead(r, op, Copy(_)) ==
    /\ LockFree
    /\ reading[r] # None /\ reading[r].op = op
    /\ docs' = [docs EXCEPT ![r] = Copy(reading[r].now)]
    /\ reading' = [reading EXCEPT ![r] = None]
    /\ UNCHANGED <<clock, cacheVars, call, hook, sweepVars, stopped, rxLeft>>

SnapshotClock(r) == StartRead(r, "snapshot")
SnapshotCopy(r)  == FinishRead(r, "snapshot", Snapshot)
HealthClock(r)   == StartRead(r, "health")
HealthCopy(r)    == FinishRead(r, "health", Health)

-----------------------------------------------------------------------------

Next ==
    \/ Tick
    \/ \E t \in Threads : Receive(t) \/ Update(t) \/ FireChange(t)
    \/ SweepCutoff \/ SweepEvict \/ SweepExit
    \/ \E u \in UasIds : FireExpire(u)
    \/ \E r \in Readers :
          SnapshotClock(r) \/ SnapshotCopy(r) \/ HealthClock(r) \/ HealthCopy(r)
    \/ Stop

Spec == Init /\ [][Next]_vars

\* Time passes, a thread that waits for the lock gets it, and the sweeper's
\* wait(interval) returns.  Nothing makes a transmitter send or anybody stop.
Fairness ==
    /\ WF_vars(Tick)
    /\ \A t \in Threads : WF_vars(Update(t)) /\ WF_vars(FireChange(t))
    /\ WF_vars(SweepCutoff) /\ WF_vars(SweepEvict)
    /\ \A u \in UasIds : WF_vars(FireExpire(u))

FairSpec == Spec /\ Fairness

-----------------------------------------------------------------------------
(* Properties.                                                              *)

\* Every variable keeps its type: the cache only ever holds complete entries
\* of known drones, whatever the order of updates, sweeps and reads.
TypeOK ==
    /\ clock \in Nat
    /\ DOMAIN drones \subseteq UasIds /\ drones \in [DOMAIN drones -> DroneState]
    /\ DOMAIN macToUas \subseteq Macs /\ macToUas \in [DOMAIN macToUas -> UasIds]
    /\ messagesTotal \in Nat
    /\ DOMAIN bySource \subseteq Sources
    /\ bySource \in [DOMAIN bySource -> [messages : Nat, lastSeen : Nat]]
    /\ call \in [Threads -> OrNone([msg : Message, now : Nat])]
    /\ hook \in OrNone([thread : Threads, id : UasIds, now : Nat])
    /\ sweep \in {"waiting", "cutoff", "firing", "done"}
    /\ cutoff \in Int
    /\ expiring \subseteq UasIds
    /\ reading \in [Readers -> OrNone([op : {"snapshot", "health"}, now : Nat])]
    /\ DOMAIN docs = Readers
    /\ stopped \in BOOLEAN
    /\ rxLeft \in Nat

\* A mapped MAC points at a cached drone: an eviction takes the mappings with it
\* in the same critical section, so a Location heard from a MAC whose drone was
\* evicted is dropped until the next Basic ID (tracker.py:365-369, 488-490).
MacMapSound == \A m \in DOMAIN macToUas : macToUas[m] \in DOMAIN drones

\* `sources[0]` always matches the transport of the latest message and the list
\* names each transport once, all of them counted in the per-transport totals,
\* however the two radios take turns (_touch_sources, FEED.md:58).
EntryInOrder(s, counted) ==
    /\ s.sources # <<>>
    /\ Head(s.sources) = s.source
    /\ IsInjective(s.sources)
    /\ Range(s.sources) \subseteq counted

SourcesInOrder == \A u \in DOMAIN drones : EntryInOrder(drones[u], DOMAIN bySource)

SumCounts(entries) == SumFunction([u \in DOMAIN entries |-> entries[u].count])
SumMessages(stats) == SumFunction([src \in DOMAIN stats |-> stats[src].messages])

\* The message total is the sum of the per-transport totals, and the cached
\* drones account for no more messages than were counted (the evicted ones took
\* theirs with them), so an orphan is counted nowhere or everywhere.
Accounting ==
    /\ messagesTotal = SumMessages(bySource)
    /\ SumCounts(drones) <= messagesTotal

\* A position is dated exactly when it is known, and nothing of the operator
\* block or of the Self-ID is shown without the date the feed derives its
\* staleness from (update_*; FEED.md:71 "staleness of this whole block").
EntryDated(s) ==
    /\ s.fix = None <=> s.lastPos = None
    /\ (s.opPos # None \/ s.opAlt # None \/ s.operatorId # None) => s.lastOp # None
    /\ s.selfId # None => s.lastSelf # None

Dated == \A u \in DOMAIN drones : EntryDated(drones[u])

\* The location type shown with an operator coordinate is the one that came with
\* that coordinate, although update_system overwrites the two independently:
\* a takeoff point is never labelled a live operator fix (tracker.py:291-296).
EntryLabelled(s) == [pos |-> s.opPos, type |-> s.opType] \in OpFixes \cup {NoOpFix}

OperatorLabelled == \A u \in DOMAIN drones : EntryLabelled(drones[u])

NoReport == [pos |-> None, flight |-> NoFlight]

\* The altitude, height, speed, heading and climb shown with a position came in the
\* Location that brought the position, whichever radio heard it: an altitude of an
\* earlier position is never left beside a later one that came without (tracker.py:264-270,
\* FEED.md:89 "most-recent message wins").
EntryOfOneReport(s) == [pos |-> s.fix, flight |-> s.flight] \in Reports \cup {NoReport}

FlightOfPosition == \A u \in DOMAIN drones : EntryOfOneReport(drones[u])

Staying == DOMAIN drones \cap DOMAIN drones'

\* No stamp lies in the future, a computed cutoff still leaves every drone its
\* TTL, and between sweeps no expiry hook is owed: what eviction rests on, since
\* clock readings, cutoffs and hooks all outlive the step that made them.
Timely ==
    /\ \A u \in DOMAIN drones : drones[u].lastSeen <= clock
    /\ \A t \in Threads : call[t] # None => call[t].now <= clock
    /\ sweep = "cutoff" => cutoff + Ttl <= clock
    /\ sweep # "firing" => expiring = {}

\* While a drone stays cached its id type never changes, nor its UA type once
\* known: identity is write-once from the first Basic ID (FEED.md:89).
IdentityWriteOnce ==
    [][\A u \in Staying :
          /\ drones'[u].idType = drones[u].idType
          /\ drones[u].uaType # None => drones'[u].uaType = drones[u].uaType]_vars

\* The fields that are only overwritten with a value.  The flight data and the signal
\* strength are not among them: a later message without them makes them unknown.
KeptFields == {"uaType", "fix", "opPos", "opType", "opAlt", "operatorId", "selfId"}

\* While a drone stays cached no message makes its UA type, its position or a field of
\* its operator block, operator id or Self-ID unknown once known: a System message
\* whose coordinates were filtered, a blank description or a blank operator id does
\* not wipe an earlier valid value (tracker.py:287-290, 320-322).
NeverForgotten ==
    [][\A u \in Staying : \A f \in KeptFields :
             drones[u][f] # None => drones'[u][f] # None]_vars

\* A drone leaves the cache only when the last stamp it was given is older than
\* the TTL, by the clock at the time it leaves, although the cutoff was computed
\* before the sweeper had the lock (tracker.py:481-486).
EvictedOnlyWhenSilent ==
    [][\A u \in DOMAIN drones \ DOMAIN drones' : clock - drones[u].lastSeen > Ttl]_vars

\* Every counter moves together: a step that raises the total by one raises one
\* cached drone's count by one, and no drone's count moves without the total.
CountedOnce ==
    [][LET before(u) == IF u \in DOMAIN drones THEN drones[u].count ELSE 0
           moved == {u \in DOMAIN drones' : drones'[u].count # before(u)}
       IN /\ messagesTotal' = messagesTotal + Cardinality(moved)
          /\ \A u \in moved : drones'[u].count = before(u) + 1]_vars

\* A document is one consistent cut of the cache, wherever the sweeper and the
\* radios are: its rows add up to no more than its total, and the per-transport
\* totals of /status add up to its total exactly (snapshot, health).  The ages in it are
\* not part of this: the clock was read before the lock, and an age may be negative.
DocsConsistent ==
    \A r \in Readers : docs[r] # None =>
        IF docs[r].op = "snapshot"
        THEN SumCounts(docs[r].rows) <= docs[r].messages
        ELSE /\ SumMessages(docs[r].sources) = docs[r].messages
             /\ docs[r].active <= docs[r].messages

\* The documents one client is served never go back: the total does not shrink
\* from one document to the next, across evictions and between /status and feed.
DocsMoveForward ==
    [][\A r \in Readers : docs[r] # None => docs'[r].messages >= docs[r].messages]_vars

\* Once the air is silent the cache empties, the MAC map with it, and every
\* expiry hook has been run -- unless somebody stopped the sweeper.
EventuallyEmpty ==
    <>[](stopped \/ (drones = EmptyMap /\ macToUas = EmptyMap /\ expiring = {}))

\* The cache implements Airspace: present drones are the cached ones, and every
\* evicted drone's expiry hook runs exactly once before the next eviction
\* (_sweep_once, tracker.py:481-495).
Cached == INSTANCE Airspace
          WITH heard <- [u \in DOMAIN drones |-> drones[u].lastSeen], owed <- expiring
ImplementsAirspace == Cached!Spec

=============================================================================
