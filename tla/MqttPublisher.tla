---------------------------- MODULE MqttPublisher ----------------------------
(***************************************************************************)
(* The MQTT sink (mqtt_publisher.py) driven by the drone cache, which is   *)
(* taken at the level of Airspace, what Tracker is shown to implement.     *)
(*                                                                         *)
(* A radio thread that commits an update runs on_drone_change with the     *)
(* cache lock held; the sweeper runs on_drone_expire after it released     *)
(* the lock.  The publisher thread alternates between a flush of the       *)
(* debounced rows and a drain of the event queue; stop() runs one more     *)
(* flush on the main thread and joins nobody.  A row is the number of the  *)
(* update it was made from.                                                *)
(***************************************************************************)
EXTENDS Integers, FiniteSets, Sequences, SequencesExt

CONSTANTS
    UasIds,
    Ttl,          \* ttl_seconds of the cache
    Debounce,     \* DEBOUNCE_S
    QueueMax,     \* EVENT_QUEUE_MAX
    MaxTime,      \* bound: the clock stops here
    RxUntil,      \* bound: nothing is heard after this time
    MaxRows,      \* bound: updates heard in a behaviour
    MayStop,      \* whether the program is asked to stop
    MayRestart,   \* whether it may be killed and started again
    None

ASSUME ConstantsOK ==
    /\ Debounce \in Nat /\ QueueMax \in Nat /\ MaxTime \in Nat /\ RxUntil \in Nat
    /\ MaxRows \in Nat /\ Ttl \in Nat
    /\ MayStop \in BOOLEAN /\ MayRestart \in BOOLEAN
    /\ None \notin Nat /\ None \notin UasIds

VARIABLES
    clock,      \* time.monotonic()
    heard,      \* the cached drones, and when each was last heard
    owed,       \* evicted drones whose expiry hook has not run
    rows,       \* rows[u]: the updates of drone u so far, so its latest row
    hook,       \* the change hook being run, with the cache lock held, or None
    latest,     \* _latest: the rows that wait for their debounce window
    lastPub,    \* _last_pub
    events,     \* _events
    pc,         \* pc["pub"]: the publisher thread, pc["main"]: stop()
    now,        \* now[p]: the local `now` of a flush
    ready,      \* ready[p]: the local `ready` of a flush, less what was published
    expired,    \* the drone of the expire event in hand
    retained,   \* the broker's retained drones/<id> topics, None when empty
    orphans,    \* history: topics whose clear was dropped or forgotten
    left        \* updates and restarts left (a bound)

airVars  == <<heard, owed, rows>>
dataVars == <<latest, lastPub, events>>
pubVars  == <<pc, now, ready, expired>>
brokerVars == <<retained, orphans>>
vars == <<clock, airVars, hook, dataVars, pubVars, brokerVars, left>>

Air == INSTANCE Airspace

Flushers == {"pub", "main"}
EmptyMap == [x \in {} |-> None]
Put(f, x, v) == [y \in DOMAIN f \cup {x} |-> IF y = x THEN v ELSE f[y]]
Without(f, S) == Restrict(f, DOMAIN f \ S)

ExpireOf(u) == [kind |-> "expire", id |-> u]
EventOf(u)  == [kind |-> "event", id |-> u]

EmptyReady == [p \in Flushers |-> EmptyMap]
Running == [p \in Flushers |-> IF p = "pub" THEN "idle" ELSE "running"]

\* start() has been called: the publisher thread runs.
Init ==
    /\ clock = 0
    /\ heard = EmptyMap /\ owed = {}
    /\ hook = None
    /\ latest = EmptyMap /\ lastPub = EmptyMap /\ events = <<>>
    /\ pc = Running
    /\ now = [p \in Flushers |-> 0] /\ ready = EmptyReady
    /\ expired = None
    /\ rows = [u \in UasIds |-> 0]
    /\ retained = [u \in UasIds |-> None]
    /\ orphans = {}
    /\ left = [rows |-> MaxRows, restarts |-> IF MayRestart THEN 1 ELSE 0]

Stopping == pc["main"] # "running"
Connected == pc["main"] # "gone"

-----------------------------------------------------------------------------
(* The cache and its hooks.                                                 *)

CacheLockFree == hook = None

\* The last Debounce ticks wait for the hooks: every row can still fall due.
Tick ==
    /\ clock < MaxTime
    /\ clock + Debounce >= MaxTime => CacheLockFree
    /\ Air!Tick
    /\ UNCHANGED <<rows, hook, dataVars, pubVars, brokerVars, left>>

\* An update commits and its change hook starts, under one hold of the lock.
Hear(u) ==
    /\ CacheLockFree
    /\ clock <= RxUntil /\ left.rows > 0
    /\ Air!Hear(u)
    /\ rows' = [rows EXCEPT ![u] = @ + 1]
    /\ hook' = [id |-> u, stage |-> "latest"]
    /\ left' = [left EXCEPT !.rows = @ - 1]
    /\ UNCHANGED <<dataVars, pubVars, brokerVars>>

Evict ==
    /\ CacheLockFree
    /\ \E gone \in SUBSET DOMAIN heard : gone # {} /\ Air!Evict(gone)
    /\ UNCHANGED <<rows, hook, dataVars, pubVars, brokerVars, left>>

\* Mutant: a row that waits is not replaced.
ChangeLatestOnce ==
    /\ hook # None /\ hook.stage = "latest"
    /\ latest' = IF hook.id \in DOMAIN latest THEN latest
                 ELSE Put(latest, hook.id, rows[hook.id])
    /\ hook' = [hook EXCEPT !.stage = "event"]
    /\ UNCHANGED <<clock, airVars, lastPub, events, pubVars, brokerVars, left>>
\* on_drone_change: the latest row wins, ...
ChangeLatest ==
    /\ hook # None /\ hook.stage = "latest"
    /\ latest' = Put(latest, hook.id, rows[hook.id])
    /\ hook' = [hook EXCEPT !.stage = "event"]
    /\ UNCHANGED <<clock, airVars, lastPub, events, pubVars, brokerVars, left>>

QueueFull == Len(events) >= QueueMax
\* Mutant: put() on a queue without a cap.
EnqueuedAlways(e) == Append(events, e)
\* Mutant: one event per drone is enough.
EnqueuedOnce(e) ==
    IF QueueFull \/ \E x \in Range(events) : x.id = e.id THEN events ELSE Append(events, e)
Enqueued(e) == IF QueueFull THEN events ELSE Append(events, e)

\* ... and a detection event is queued, or dropped when the queue is full.
ChangeEvent ==
    /\ hook # None /\ hook.stage = "event"
    /\ events' = Enqueued(EventOf(hook.id))
    /\ hook' = None
    /\ UNCHANGED <<clock, airVars, latest, lastPub, pubVars, brokerVars, left>>

\* on_drone_expire, outside the cache lock: queued, or dropped without a word.
Expire(u) ==
    /\ Air!Notify(u)
    /\ events' = Enqueued(ExpireOf(u))
    /\ orphans' = IF QueueFull THEN orphans \cup {u} ELSE orphans
    /\ UNCHANGED <<rows, hook, latest, lastPub, pubVars, retained, left>>

-----------------------------------------------------------------------------
(* A flush, by the publisher thread or by stop().                           *)

FlushClock(p) ==
    /\ IF p = "pub" THEN pc[p] = "idle" /\ ~Stopping ELSE pc[p] = "stopping"
    /\ now' = [now EXCEPT ![p] = clock]
    /\ pc' = [pc EXCEPT ![p] = "collect"]
    /\ UNCHANGED <<clock, airVars, hook, dataVars, ready, expired, brokerVars, left>>

\* The drones whose debounce window has elapsed, all of them when forced.
Due(p) ==
    {u \in DOMAIN latest :
        p = "main" \/ u \notin DOMAIN lastPub \/ now[p] - lastPub[u] >= Debounce}

\* Under _latest_lock: the due rows move to the flush's own list.
Collect(p) ==
    /\ pc[p] = "collect"
    /\ ready' = [ready EXCEPT ![p] = Restrict(latest, Due(p))]
    /\ lastPub' = [u \in DOMAIN lastPub \cup Due(p) |->
                     IF u \in Due(p) THEN now[p] ELSE lastPub[u]]
    /\ latest' = Without(latest, Due(p))
    /\ pc' = [pc EXCEPT ![p] = "publish"]
    /\ UNCHANGED <<clock, airVars, hook, events, now, expired, brokerVars, left>>

\* publish() after the disconnect reaches nobody.
Retain(u, row) ==
    retained' = IF Connected THEN [retained EXCEPT ![u] = row] ELSE retained

PublishState(p, u) ==
    /\ pc[p] = "publish" /\ u \in DOMAIN ready[p]
    /\ Retain(u, ready[p][u])
    /\ ready' = [ready EXCEPT ![p] = Without(@, {u})]
    /\ UNCHANGED <<clock, airVars, hook, dataVars, pc, now, expired, orphans, left>>

\* The publisher thread goes on to the queue; stop() says offline and disconnects.
FlushEnd(p) ==
    /\ pc[p] = "publish" /\ ready[p] = EmptyMap
    /\ pc' = [pc EXCEPT ![p] = IF p = "pub" THEN "drain" ELSE "gone"]
    /\ UNCHANGED <<clock, airVars, hook, dataVars, now, ready, expired, brokerVars, left>>

-----------------------------------------------------------------------------
(* The drain of the event queue.                                            *)

PubAt(from, to) == pc["pub"] = from /\ pc' = [pc EXCEPT !["pub"] = to]

\* A detection goes to a topic nobody retains; an expiry takes three more steps.
DrainOne ==
    /\ events # <<>>
    /\ events' = Tail(events)
    /\ IF Head(events).kind = "event"
       THEN PubAt("drain", "drain") /\ UNCHANGED expired
       ELSE PubAt("drain", "clear") /\ expired' = Head(events).id
    /\ UNCHANGED <<clock, airVars, hook, latest, lastPub, now, ready, brokerVars, left>>

ExpireClear ==
    /\ PubAt("clear", "forget")
    /\ Retain(expired, None)
    /\ orphans' = orphans \ {expired}
    /\ UNCHANGED <<clock, airVars, hook, dataVars, now, ready, expired, left>>

\* Mutant: the row that waits is not forgotten.
ExpireKeepRow ==
    /\ PubAt("forget", "undebounce")
    /\ UNCHANGED <<clock, airVars, hook, dataVars, now, ready, expired, brokerVars, left>>
ExpireForget ==
    /\ PubAt("forget", "undebounce")
    /\ latest' = Without(latest, {expired})
    /\ UNCHANGED <<clock, airVars, hook, lastPub, events, now, ready, expired,
                   brokerVars, left>>

ExpireUndebounce ==
    /\ PubAt("undebounce", "drain")
    /\ lastPub' = Without(lastPub, {expired})
    /\ expired' = None
    /\ UNCHANGED <<clock, airVars, hook, latest, events, now, ready, brokerVars, left>>

\* The queue is empty or the 50 ms of the drain are spent.
DrainEnd ==
    /\ PubAt("drain", "idle")
    /\ UNCHANGED <<clock, airVars, hook, dataVars, now, ready, expired, brokerVars, left>>

PubExit ==
    /\ Stopping
    /\ PubAt("idle", "done")
    /\ UNCHANGED <<clock, airVars, hook, dataVars, now, ready, expired, brokerVars, left>>

-----------------------------------------------------------------------------
(* The process.                                                             *)

\* stop() raises the flag and starts its flush; the radios, the sweeper and the
\* publisher thread are not waited for.
Stop ==
    /\ MayStop /\ pc["main"] = "running"
    /\ pc' = [pc EXCEPT !["main"] = "stopping"]
    /\ UNCHANGED <<clock, airVars, hook, dataVars, now, ready, expired, brokerVars, left>>

\* Killed and started again: only the broker remembers.
Restart ==
    /\ left.restarts > 0
    /\ left' = [left EXCEPT !.restarts = @ - 1]
    /\ heard' = EmptyMap /\ owed' = {}
    /\ hook' = None
    /\ latest' = EmptyMap /\ lastPub' = EmptyMap /\ events' = <<>>
    /\ pc' = Running
    /\ now' = [p \in Flushers |-> 0] /\ ready' = EmptyReady
    /\ expired' = None
    /\ orphans' = {u \in UasIds : retained[u] # None}
    /\ UNCHANGED <<clock, rows, retained>>

Change == ChangeLatest \/ ChangeEvent
Flush(p) ==
    \/ FlushClock(p) \/ Collect(p) \/ FlushEnd(p)
    \/ \E u \in UasIds : PublishState(p, u)
Drain == DrainOne \/ ExpireClear \/ ExpireForget \/ ExpireUndebounce \/ DrainEnd

Next ==
    \/ Tick \/ Evict
    \/ \E u \in UasIds : Hear(u) \/ Expire(u)
    \/ Change
    \/ \E p \in Flushers : Flush(p)
    \/ Drain \/ PubExit
    \/ Stop \/ Restart

Spec == Init /\ [][Next]_vars

\* Threads run; the drain, which a deadline may end before it took anything,
\* gets to the queue again and again.
Fairness ==
    /\ WF_vars(Tick)
    /\ WF_vars(Change)
    /\ \A u \in UasIds : WF_vars(Expire(u))
    /\ WF_vars(Flush("pub")) /\ WF_vars(Drain) /\ SF_vars(DrainOne)

FairSpec == Spec /\ Fairness

-----------------------------------------------------------------------------
(* Properties.                                                              *)

Row == Nat \ {0}
PubStage == {"idle", "collect", "publish", "drain", "clear", "forget", "undebounce", "done"}
MainStage == {"running", "stopping", "collect", "publish", "gone"}

\* Every variable keeps its type, and the event queue its cap: the radio threads
\* never wait for the broker and never grow the queue beyond EVENT_QUEUE_MAX.
TypeOK ==
    /\ clock \in Nat
    /\ DOMAIN heard \subseteq UasIds /\ owed \subseteq UasIds
    /\ rows \in [UasIds -> Nat]
    /\ hook \in [id : UasIds, stage : {"latest", "event"}] \cup {None}
    /\ DOMAIN latest \subseteq UasIds /\ latest \in [DOMAIN latest -> Row]
    /\ DOMAIN lastPub \subseteq UasIds /\ lastPub \in [DOMAIN lastPub -> Nat]
    /\ events \in Seq([kind : {"event", "expire"}, id : UasIds])
    /\ Len(events) <= QueueMax
    /\ pc \in [Flushers -> PubStage \cup MainStage]
    /\ pc["pub"] \in PubStage /\ pc["main"] \in MainStage
    /\ now \in [Flushers -> Nat]
    /\ DOMAIN ready = Flushers
    /\ \A p \in Flushers : /\ DOMAIN ready[p] \subseteq UasIds
                           /\ ready[p] \in [DOMAIN ready[p] -> Row]
    /\ expired \in UasIds \cup {None}
    /\ retained \in [UasIds -> Row \cup {None}]
    /\ orphans \subseteq UasIds

\* Drone u left the cache and its topic will be cleared, or its clear was lost.
ClearOwed(u) ==
    \/ u \in owed \cup orphans
    \/ ExpireOf(u) \in Range(events)
    \/ pc["pub"] = "clear" /\ expired = u

\* As long as the program runs, whatever is or can still be shown of a drone that
\* is not in the cache -- a retained topic, a debounced row, a row about to be
\* published -- has a clear behind it: no ghost but those whose clear was dropped
\* at a full queue or forgotten in a restart (mqtt_publisher.py:205-209, 263-274).
ClearComing ==
    ~Stopping =>
        \A u \in UasIds \ DOMAIN heard :
            \/ ClearOwed(u)
            \/ /\ retained[u] = None /\ u \notin DOMAIN ready["pub"]
               /\ u \in DOMAIN latest => pc["pub"] = "forget" /\ expired = u

\* A drone that has gone for good is cleared from the broker for good, unless its
\* clear was dropped at a full queue or forgotten in a restart, and never tried
\* again, or the program was asked to stop.
ClearedUnlessLost ==
    \A u \in UasIds :
        <>[](~Stopping /\ u \notin DOMAIN heard \cup orphans) => <>[](retained[u] = None)

\* A drone that is never evicted and falls silent ends up with its last row on the
\* broker, whatever the debounce held back and the queue dropped, while the program
\* runs.
EventuallyShown ==
    \A u \in UasIds :
        [](u \notin owed) /\ <>[](~Stopping /\ u \in DOMAIN heard)
            => <>[](retained[u] = rows[u])

\* CHANGELOG.md:69 "latest-wins": a row shown never gives way to an older one.
\* stop() and the publisher thread flush at the same time and refute it.
LatestWins ==
    [][\A u \in UasIds : retained[u] # None /\ retained'[u] # None
                           => retained'[u] >= retained[u]]_vars

\* README.md:176 "The retained per-drone topic means a fresh HA restart immediately
\* sees the current airspace": a drone in the cache, once shown, stays shown.  A
\* drone that reappears before its expiry was drained is cleared while present.
LiveTopicKept ==
    [][\A u \in DOMAIN heard \cap DOMAIN heard' :
          retained[u] # None => retained'[u] # None]_vars

=============================================================================
