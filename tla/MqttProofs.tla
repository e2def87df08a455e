------------------------------ MODULE MqttProofs ------------------------------
(***************************************************************************)
(* Proofs about the MQTT sink, for every number of drones, queue length,   *)
(* debounce and interleaving, with stop() and restarts.                    *)
(*                                                                         *)
(* ClearComing is not inductive by itself: that no row of a gone drone     *)
(* slips behind its clear rests on the publisher thread doing one thing at *)
(* a time (Sequential) and on the change hook running with the cache lock  *)
(* held, so only for drones that are in the cache (HookInside).            *)
(***************************************************************************)
EXTENDS MqttPublisher, TLAPS

Handling == {"clear", "forget", "undebounce"}

\* The publisher thread has rows in hand only while it publishes, and an expire
\* event in hand only while it handles it.
Sequential ==
    /\ pc["pub"] # "publish" => ready["pub"] = EmptyMap
    /\ pc["pub"] \in Handling => expired \in UasIds

\* The change hook runs for a drone that is in the cache and has a row.
HookInside == hook # None => hook.id \in DOMAIN heard /\ rows[hook.id] \in Row

IInv == TypeOK /\ Sequential /\ HookInside /\ ClearComing

\* What is said of one drone that has gone: its clear is owed, or nothing is shown.
Shown(u) ==
    ~ /\ retained[u] = None /\ u \notin DOMAIN ready["pub"]
      /\ u \in DOMAIN latest => pc["pub"] = "forget" /\ expired = u

-----------------------------------------------------------------------------

\* The empty process satisfies the invariant.
LEMMA InitIInv == Init => IInv
<1> SUFFICES ASSUME Init PROVE IInv
  OBVIOUS
<1>1. TypeOK
  <2>1. /\ DOMAIN heard = {} /\ DOMAIN latest = {} /\ DOMAIN lastPub = {}
        /\ latest \in [DOMAIN latest -> Row] /\ lastPub \in [DOMAIN lastPub -> Nat]
    BY DEF Init, EmptyMap
  <2>2. /\ DOMAIN ready = Flushers
        /\ \A q \in Flushers : /\ DOMAIN ready[q] \subseteq UasIds
                               /\ ready[q] \in [DOMAIN ready[q] -> Row]
    BY DEF Init, EmptyReady, EmptyMap
  <2>3. /\ pc \in [Flushers -> PubStage \cup MainStage]
        /\ pc["pub"] \in PubStage /\ pc["main"] \in MainStage
        /\ now \in [Flushers -> Nat]
    BY DEF Init, Running, Flushers, PubStage, MainStage
  <2>4. /\ events \in Seq([kind : {"event", "expire"}, id : UasIds])
        /\ Len(events) <= QueueMax
    BY ConstantsOK DEF Init
  <2>5. QED BY <2>1, <2>2, <2>3, <2>4 DEF Init, TypeOK
<1>2. Sequential /\ HookInside
  BY DEF Init, Sequential, HookInside, Running, EmptyReady, Flushers, Handling
<1>3. ClearComing
  BY DEF Init, ClearComing, EmptyReady, EmptyMap, Flushers
<1>4. QED BY <1>1, <1>2, <1>3 DEF IInv

\* Queueing an event keeps every event that was queued, and the cap.
LEMMA EnqueuedKeeps ==
  ASSUME TypeOK, NEW e \in [kind : {"event", "expire"}, id : UasIds]
  PROVE  /\ Enqueued(e) \in Seq([kind : {"event", "expire"}, id : UasIds])
         /\ Len(Enqueued(e)) <= QueueMax
         /\ Range(events) \subseteq Range(Enqueued(e))
         /\ ~QueueFull => e \in Range(Enqueued(e))
<1> DEFINE E == [kind : {"event", "expire"}, id : UasIds]
<1>0. events \in Seq(E) /\ Len(events) <= QueueMax /\ QueueMax \in Nat
  BY ConstantsOK DEF TypeOK
<1> HIDE DEF E
<1>1. CASE QueueFull
  BY <1>0, <1>1 DEF Enqueued, E
<1>2. CASE ~QueueFull
  <2>1. Enqueued(e) = Append(events, e) /\ e \in E
    BY <1>2 DEF Enqueued, E
  <2>2. Len(events) < QueueMax
    BY <1>0, <1>2 DEF QueueFull
  <2>3. /\ Append(events, e) \in Seq(E) /\ Len(Append(events, e)) = Len(events) + 1
        /\ \A i \in 1..Len(events) : Append(events, e)[i] = events[i]
        /\ Append(events, e)[Len(events) + 1] = e
        /\ DOMAIN events = 1..Len(events)
        /\ DOMAIN Append(events, e) = 1..(Len(events) + 1)
    BY <1>0, <2>1
  <2>4. Range(events) \subseteq Range(Append(events, e))
    BY <1>0, <2>3 DEF Range
  <2>5. e \in Range(Append(events, e))
    BY <1>0, <2>3 DEF Range
  <2>6. QED BY <1>0, <2>1, <2>2, <2>3, <2>4, <2>5 DEF E
<1>3. QED BY <1>1, <1>2

\* Taking the first event leaves every other one in the queue.
LEMMA TailKeeps ==
  ASSUME TypeOK, events # <<>>
  PROVE  /\ Head(events) \in [kind : {"event", "expire"}, id : UasIds]
         /\ Tail(events) \in Seq([kind : {"event", "expire"}, id : UasIds])
         /\ Len(Tail(events)) <= QueueMax
         /\ Range(events) \subseteq Range(Tail(events)) \cup {Head(events)}
<1> DEFINE E == [kind : {"event", "expire"}, id : UasIds]
<1>0. events \in Seq(E) /\ Len(events) <= QueueMax /\ QueueMax \in Nat
  BY ConstantsOK DEF TypeOK
<1> HIDE DEF E
<1>1. /\ Head(events) \in E /\ Tail(events) \in Seq(E) /\ Len(events) >= 1
      /\ Len(Tail(events)) = Len(events) - 1 /\ Head(events) = events[1]
      /\ \A i \in 2..Len(events) : Tail(events)[i - 1] = events[i]
      /\ DOMAIN events = 1..Len(events) /\ DOMAIN Tail(events) = 1..(Len(events) - 1)
  BY <1>0
<1>2. ASSUME NEW i \in 1..Len(events)
      PROVE  events[i] \in Range(Tail(events)) \cup {Head(events)}
  <2>1. CASE i = 1
    BY <1>1, <2>1
  <2>2. CASE i # 1
    <3>1. i - 1 \in DOMAIN Tail(events) /\ Tail(events)[i - 1] = events[i]
      BY <1>0, <1>1, <2>2
    <3>2. QED BY <3>1 DEF Range
  <2>3. QED BY <2>1, <2>2
<1>3. QED BY <1>0, <1>1, <1>2 DEF Range, E

-----------------------------------------------------------------------------
(* Types.                                                                   *)

\* Flushing moves rows from one typed map to another, and stamps drones.
LEMMA CollectTypes ==
  ASSUME IInv, NEW p \in Flushers, Collect(p)
  PROVE  TypeOK'
<1>1. /\ DOMAIN latest \subseteq UasIds /\ latest \in [DOMAIN latest -> Row]
      /\ DOMAIN lastPub \subseteq UasIds /\ lastPub \in [DOMAIN lastPub -> Nat]
      /\ now[p] \in Nat /\ Due(p) \subseteq DOMAIN latest
  BY DEF IInv, TypeOK, Due
<1>2. /\ DOMAIN latest' \subseteq UasIds /\ latest' \in [DOMAIN latest' -> Row]
  BY <1>1 DEF Collect, Without, Restrict
<1>3. DOMAIN lastPub' \subseteq UasIds /\ lastPub' \in [DOMAIN lastPub' -> Nat]
  BY <1>1 DEF Collect
<1>4. /\ DOMAIN ready' = Flushers
      /\ \A q \in Flushers : /\ DOMAIN ready'[q] \subseteq UasIds
                             /\ ready'[q] \in [DOMAIN ready'[q] -> Row]
  <2> DEFINE got == Restrict(latest, Due(p))
  <2>1. DOMAIN got \subseteq UasIds /\ got \in [DOMAIN got -> Row]
    BY <1>1 DEF Restrict
  <2>2. ready' = [ready EXCEPT ![p] = got]
    BY DEF Collect
  <2> HIDE DEF got
  <2>3. QED BY <2>1, <2>2 DEF IInv, TypeOK
<1>5. /\ pc' \in [Flushers -> PubStage \cup MainStage]
      /\ pc'["pub"] \in PubStage /\ pc'["main"] \in MainStage
  BY DEF Collect, IInv, TypeOK, Flushers, PubStage, MainStage
<1>6. UNCHANGED <<clock, heard, owed, rows, hook, events, now, expired, retained, orphans>>
  BY DEF Collect, airVars, brokerVars
<1>7. QED BY <1>2, <1>3, <1>4, <1>5, <1>6 DEF IInv, TypeOK

\* Publishing a row shows a row.
LEMMA PublishTypes ==
  ASSUME IInv, NEW p \in Flushers, NEW u \in UasIds, PublishState(p, u)
  PROVE  TypeOK'
<1>1. ready[p][u] \in Row /\ ready[p] \in [DOMAIN ready[p] -> Row]
      /\ DOMAIN ready[p] \subseteq UasIds
  BY DEF PublishState, IInv, TypeOK
<1>2. retained' \in [UasIds -> Row \cup {None}]
  BY <1>1 DEF PublishState, Retain, IInv, TypeOK
<1>3. /\ DOMAIN ready' = Flushers
      /\ \A q \in Flushers : /\ DOMAIN ready'[q] \subseteq UasIds
                             /\ ready'[q] \in [DOMAIN ready'[q] -> Row]
  <2> DEFINE rest == Without(ready[p], {u})
  <2>1. DOMAIN rest \subseteq UasIds /\ rest \in [DOMAIN rest -> Row]
    BY <1>1 DEF Without, Restrict
  <2>2. ready' = [ready EXCEPT ![p] = rest]
    BY DEF PublishState
  <2> HIDE DEF rest
  <2>3. QED BY <2>1, <2>2 DEF IInv, TypeOK
<1>4. UNCHANGED <<clock, heard, owed, rows, hook, latest, lastPub, events, pc, now,
                  expired, orphans>>
  BY DEF PublishState, airVars, dataVars
<1>5. QED BY <1>2, <1>3, <1>4 DEF IInv, TypeOK

\* The steps of the two flushing threads keep the types.
LEMMA FlushTypes ==
  ASSUME IInv, NEW p \in Flushers, Flush(p)
  PROVE  TypeOK'
<1>1. CASE FlushClock(p)
  <2>1. /\ pc' \in [Flushers -> PubStage \cup MainStage]
        /\ pc'["pub"] \in PubStage /\ pc'["main"] \in MainStage
    BY <1>1 DEF FlushClock, IInv, TypeOK, Flushers, PubStage, MainStage
  <2>2. now' \in [Flushers -> Nat]
    BY <1>1 DEF FlushClock, IInv, TypeOK
  <2>3. QED BY <1>1, <2>1, <2>2
            DEF FlushClock, IInv, TypeOK, airVars, dataVars, brokerVars
<1>2. CASE FlushEnd(p)
  <2>1. /\ pc' \in [Flushers -> PubStage \cup MainStage]
        /\ pc'["pub"] \in PubStage /\ pc'["main"] \in MainStage
    BY <1>2 DEF FlushEnd, IInv, TypeOK, Flushers, PubStage, MainStage
  <2>2. QED BY <1>2, <2>1 DEF FlushEnd, IInv, TypeOK, airVars, dataVars, brokerVars
<1>3. QED BY <1>1, <1>2, CollectTypes, PublishTypes DEF Flush

\* The steps of the drain keep the types.
LEMMA DrainTypes ==
  ASSUME IInv, Drain \/ PubExit
  PROVE  TypeOK'
<1>1. ASSUME NEW from, NEW to \in PubStage, PubAt(from, to)
      PROVE  /\ pc' \in [Flushers -> PubStage \cup MainStage]
             /\ pc'["pub"] \in PubStage /\ pc'["main"] \in MainStage
  BY <1>1 DEF PubAt, IInv, TypeOK, Flushers
<1>2. CASE DrainOne
  <2>1. /\ Head(events) \in [kind : {"event", "expire"}, id : UasIds]
        /\ Tail(events) \in Seq([kind : {"event", "expire"}, id : UasIds])
        /\ Len(Tail(events)) <= QueueMax
    BY <1>2, TailKeeps DEF DrainOne, IInv
  <2>2. /\ pc' \in [Flushers -> PubStage \cup MainStage]
        /\ pc'["pub"] \in PubStage /\ pc'["main"] \in MainStage
    BY <1>1, <1>2 DEF DrainOne, PubStage
  <2>3. expired' \in UasIds \cup {None}
    BY <1>2, <2>1 DEF DrainOne, IInv, TypeOK
  <2>4. UNCHANGED <<clock, heard, owed, rows, hook, latest, lastPub, now, ready,
                    retained, orphans>> /\ events' = Tail(events)
    BY <1>2 DEF DrainOne, airVars, brokerVars
  <2>5. QED BY <2>1, <2>2, <2>3, <2>4 DEF IInv, TypeOK
<1>3. CASE ExpireClear
  <2>1. retained' \in [UasIds -> Row \cup {None}] /\ orphans' \subseteq UasIds
    BY <1>3 DEF ExpireClear, Retain, IInv, TypeOK
  <2>2. /\ pc' \in [Flushers -> PubStage \cup MainStage]
        /\ pc'["pub"] \in PubStage /\ pc'["main"] \in MainStage
    BY <1>1, <1>3 DEF ExpireClear, PubStage
  <2>3. QED BY <1>3, <2>1, <2>2 DEF ExpireClear, IInv, TypeOK, airVars, dataVars
<1>4. CASE ExpireForget
  <2>1. DOMAIN latest' \subseteq UasIds /\ latest' \in [DOMAIN latest' -> Row]
    BY <1>4 DEF ExpireForget, Without, Restrict, IInv, TypeOK
  <2>2. /\ pc' \in [Flushers -> PubStage \cup MainStage]
        /\ pc'["pub"] \in PubStage /\ pc'["main"] \in MainStage
    BY <1>1, <1>4 DEF ExpireForget, PubStage
  <2>3. QED BY <1>4, <2>1, <2>2 DEF ExpireForget, IInv, TypeOK, airVars, brokerVars
<1>5. CASE ExpireUndebounce
  <2>1. DOMAIN lastPub' \subseteq UasIds /\ lastPub' \in [DOMAIN lastPub' -> Nat]
    BY <1>5 DEF ExpireUndebounce, Without, Restrict, IInv, TypeOK
  <2>2. /\ pc' \in [Flushers -> PubStage \cup MainStage]
        /\ pc'["pub"] \in PubStage /\ pc'["main"] \in MainStage
    BY <1>1, <1>5 DEF ExpireUndebounce, PubStage
  <2>3. QED BY <1>5, <2>1, <2>2 DEF ExpireUndebounce, IInv, TypeOK, airVars, brokerVars
<1>6. CASE DrainEnd \/ PubExit
  <2>1. /\ pc' \in [Flushers -> PubStage \cup MainStage]
        /\ pc'["pub"] \in PubStage /\ pc'["main"] \in MainStage
    BY <1>1, <1>6 DEF DrainEnd, PubExit, PubStage
  <2>2. QED BY <1>6, <2>1
            DEF DrainEnd, PubExit, IInv, TypeOK, airVars, dataVars, brokerVars
<1>7. QED BY <1>2, <1>3, <1>4, <1>5, <1>6 DEF Drain

\* The cache, its hooks, stop() and a restart keep the types.
LEMMA OtherTypes ==
  ASSUME IInv,
         \/ Tick \/ Evict \/ Change \/ Stop \/ Restart \/ UNCHANGED vars
         \/ \E u \in UasIds : Hear(u) \/ Expire(u)
  PROVE  TypeOK'
<1>1. CASE Tick
  BY <1>1 DEF Tick, Air!Tick, IInv, TypeOK, dataVars, pubVars, brokerVars
<1>2. CASE Evict
  BY <1>2 DEF Evict, Air!Evict, IInv, TypeOK, dataVars, pubVars, brokerVars
<1>3. ASSUME NEW u \in UasIds, Hear(u) PROVE TypeOK'
  <2>1. DOMAIN heard' = DOMAIN heard \cup {u} /\ UNCHANGED <<clock, owed>>
    BY <1>3 DEF Hear, Air!Hear
  <2>2. /\ rows' \in [UasIds -> Nat]
        /\ hook' \in [id : UasIds, stage : {"latest", "event"}] \cup {None}
    BY <1>3 DEF Hear, IInv, TypeOK
  <2>3. QED BY <1>3, <2>1, <2>2 DEF Hear, IInv, TypeOK, dataVars, pubVars, brokerVars
<1>4. ASSUME NEW u \in UasIds, Expire(u) PROVE TypeOK'
  <2>1. ExpireOf(u) \in [kind : {"event", "expire"}, id : UasIds]
    BY DEF ExpireOf
  <2>2. /\ events' \in Seq([kind : {"event", "expire"}, id : UasIds])
        /\ Len(events') <= QueueMax
    BY <1>4, <2>1, EnqueuedKeeps DEF Expire, IInv
  <2>3. QED BY <1>4, <2>2
            DEF Expire, Air!Notify, IInv, TypeOK, dataVars, pubVars, brokerVars
<1>5. CASE ChangeLatest
  <2>1. hook.id \in UasIds /\ rows[hook.id] \in Row
    BY <1>5 DEF ChangeLatest, IInv, TypeOK, HookInside
  <2>2. DOMAIN latest' \subseteq UasIds /\ latest' \in [DOMAIN latest' -> Row]
    BY <1>5, <2>1 DEF ChangeLatest, Put, IInv, TypeOK
  <2>3. hook' \in [id : UasIds, stage : {"latest", "event"}] \cup {None}
    BY <1>5 DEF ChangeLatest, IInv, TypeOK
  <2>4. QED BY <1>5, <2>2, <2>3
            DEF ChangeLatest, IInv, TypeOK, airVars, pubVars, brokerVars
<1>6. CASE ChangeEvent
  <2>1. EventOf(hook.id) \in [kind : {"event", "expire"}, id : UasIds]
    BY <1>6 DEF ChangeEvent, EventOf, IInv, TypeOK
  <2>2. /\ events' \in Seq([kind : {"event", "expire"}, id : UasIds])
        /\ Len(events') <= QueueMax
    BY <1>6, <2>1, EnqueuedKeeps DEF ChangeEvent, IInv
  <2>3. QED BY <1>6, <2>2 DEF ChangeEvent, IInv, TypeOK, airVars, pubVars, brokerVars
<1>7. CASE Stop
  <2>1. /\ pc' \in [Flushers -> PubStage \cup MainStage]
        /\ pc'["pub"] \in PubStage /\ pc'["main"] \in MainStage
    BY <1>7 DEF Stop, IInv, TypeOK, Flushers, MainStage
  <2>2. QED BY <1>7, <2>1 DEF Stop, IInv, TypeOK, airVars, dataVars, brokerVars
<1>8. CASE Restart
  <2>1. /\ DOMAIN heard' = {} /\ DOMAIN latest' = {} /\ DOMAIN lastPub' = {}
        /\ latest' \in [DOMAIN latest' -> Row] /\ lastPub' \in [DOMAIN lastPub' -> Nat]
    BY <1>8 DEF Restart, EmptyMap
  <2>2. /\ DOMAIN ready' = Flushers
        /\ \A q \in Flushers : /\ DOMAIN ready'[q] \subseteq UasIds
                               /\ ready'[q] \in [DOMAIN ready'[q] -> Row]
    BY <1>8 DEF Restart, EmptyReady, EmptyMap
  <2>3. /\ pc' \in [Flushers -> PubStage \cup MainStage]
        /\ pc'["pub"] \in PubStage /\ pc'["main"] \in MainStage
        /\ now' \in [Flushers -> Nat]
    BY <1>8 DEF Restart, Running, Flushers, PubStage, MainStage
  <2>4. /\ events' \in Seq([kind : {"event", "expire"}, id : UasIds])
        /\ Len(events') <= QueueMax
    BY <1>8, ConstantsOK DEF Restart
  <2>5. QED BY <1>8, <2>1, <2>2, <2>3, <2>4 DEF Restart, IInv, TypeOK
<1>9. CASE UNCHANGED vars
  BY <1>9 DEF vars, IInv, TypeOK, airVars, dataVars, pubVars, brokerVars
<1>10. QED BY <1>1, <1>2, <1>3, <1>4, <1>5, <1>6, <1>7, <1>8, <1>9 DEF Change

-----------------------------------------------------------------------------
(* The publisher thread and the change hook.                                *)

\* The publisher thread holds rows only between collecting and the last publish,
\* and an expire event only between taking and finishing it.
LEMMA SequentialStep ==
  ASSUME IInv, [Next]_vars
  PROVE  Sequential'
<1>1. DOMAIN ready = Flushers /\ DOMAIN pc = Flushers
  BY DEF IInv, TypeOK
<1>2. ASSUME pc["pub"]' = pc["pub"], UNCHANGED <<ready, expired>> PROVE Sequential'
  BY <1>2 DEF IInv, Sequential
<1>3. CASE Tick \/ Evict \/ Change \/ UNCHANGED vars \/ \E u \in UasIds : Hear(u) \/ Expire(u)
  BY <1>2, <1>3 DEF Tick, Evict, Change, ChangeLatest, ChangeEvent, Hear, Expire, vars, pubVars
<1>4. CASE Stop
  BY <1>1, <1>2, <1>4 DEF Stop, Flushers
<1>5. CASE Restart
  BY <1>5 DEF Restart, Sequential, EmptyReady, Running, Flushers, Handling
<1>6. ASSUME NEW p \in Flushers, Flush(p) PROVE Sequential'
  <2>1. CASE p = "main"
    <3>1. UNCHANGED expired /\ ready'["pub"] = ready["pub"] /\ pc'["pub"] = pc["pub"]
      BY <1>1, <1>6, <2>1
         DEF Flush, FlushClock, Collect, PublishState, FlushEnd, Flushers
    <3>2. QED BY <3>1 DEF IInv, Sequential
  <2>2. CASE p = "pub" /\ (FlushClock(p) \/ FlushEnd(p))
    BY <1>1, <2>2 DEF FlushClock, FlushEnd, IInv, Sequential, Flushers, Handling
  <2>3. CASE p = "pub" /\ Collect(p)
    BY <1>1, <2>3 DEF Collect, Sequential, Flushers, Handling
  <2>4. ASSUME p = "pub", NEW u \in UasIds, PublishState(p, u) PROVE Sequential'
    BY <1>1, <2>4 DEF PublishState, Sequential, Handling
  <2>5. QED BY <1>6, <2>1, <2>2, <2>3, <2>4 DEF Flush, Flushers
<1>7. CASE DrainOne
  <2>1. Head(events).id \in UasIds
    BY <1>7, TailKeeps DEF DrainOne, IInv
  <2>2. UNCHANGED ready /\ pc["pub"] # "publish"
    BY <1>7 DEF DrainOne, PubAt
  <2>3. \/ pc'["pub"] = "drain"
        \/ pc'["pub"] = "clear" /\ expired' = Head(events).id
    BY <1>1, <1>7 DEF DrainOne, PubAt, Flushers
  <2>4. QED BY <2>1, <2>2, <2>3 DEF IInv, Sequential, Handling
<1>8. CASE ExpireClear \/ ExpireForget \/ ExpireUndebounce \/ DrainEnd \/ PubExit
  BY <1>1, <1>8 DEF ExpireClear, ExpireForget, ExpireUndebounce, DrainEnd, PubExit, PubAt,
                    IInv, Sequential, Flushers, Handling
<1>9. QED BY <1>3, <1>4, <1>5, <1>6, <1>7, <1>8 DEF Next, Drain

\* While the change hook runs, the lock keeps its drone in the cache.
LEMMA HookInsideStep ==
  ASSUME IInv, [Next]_vars
  PROVE  HookInside'
<1>1. ASSUME UNCHANGED <<heard, rows, hook>> PROVE HookInside'
  BY <1>1 DEF IInv, HookInside
<1>2. CASE Tick
  BY <1>1, <1>2 DEF Tick, Air!Tick
<1>3. CASE Evict
  BY <1>3 DEF Evict, CacheLockFree, HookInside
<1>4. ASSUME NEW u \in UasIds, Hear(u) PROVE HookInside'
  <2>1. u \in DOMAIN heard' /\ hook'.id = u /\ rows'[u] = rows[u] + 1 /\ rows[u] \in Nat
    BY <1>4 DEF Hear, Air!Hear, IInv, TypeOK
  <2>2. QED BY <2>1 DEF HookInside, Row
<1>5. ASSUME NEW u \in UasIds, Expire(u) PROVE HookInside'
  BY <1>1, <1>5 DEF Expire, Air!Notify
<1>6. CASE ChangeLatest
  BY <1>6 DEF ChangeLatest, airVars, IInv, HookInside, TypeOK
<1>7. CASE ChangeEvent \/ Restart
  BY <1>7 DEF ChangeEvent, Restart, HookInside
<1>8. ASSUME NEW p \in Flushers, Flush(p) PROVE HookInside'
  BY <1>1, <1>8 DEF Flush, FlushClock, Collect, PublishState, FlushEnd, airVars
<1>9. CASE Drain \/ PubExit \/ Stop \/ UNCHANGED vars
  BY <1>1, <1>9 DEF Drain, DrainOne, ExpireClear, ExpireForget, ExpireUndebounce, DrainEnd,
                    PubExit, Stop, vars, airVars
<1>10. QED BY <1>2, <1>3, <1>4, <1>5, <1>6, <1>7, <1>8, <1>9 DEF Next, Change

-----------------------------------------------------------------------------
(* The clear that is still to come.                                         *)

\* ClearComing of one drone: gone drones show nothing that no clear will follow.
GoneOk(u) == u \notin DOMAIN heard => ClearOwed(u) \/ ~Shown(u)

\* ClearComing says GoneOk of every drone.
LEMMA ClearComingByDrone == ClearComing <=> (~Stopping => \A u \in UasIds : GoneOk(u))
BY DEF ClearComing, GoneOk, Shown

\* The cache and its hooks.
LEMMA CacheClears ==
  ASSUME IInv, ~Stopping, NEW u \in UasIds, u \notin DOMAIN heard',
         Tick \/ Evict \/ Change \/ \E v \in UasIds : Hear(v) \/ Expire(v)
  PROVE  ClearOwed(u)' \/ ~Shown(u)'
<1>0. u \notin DOMAIN heard => ClearOwed(u) \/ ~Shown(u)
  BY ClearComingByDrone DEF IInv, GoneOk
<1>1. CASE Tick
  BY <1>0, <1>1 DEF Tick, Air!Tick, ClearOwed, Shown, dataVars, pubVars, brokerVars
<1>2. CASE Evict
  <2>1. PICK gone \in SUBSET DOMAIN heard : Air!Evict(gone)
    BY <1>2 DEF Evict
  <2>2. owed' = gone /\ owed = {} /\ (u \in DOMAIN heard => u \in gone)
    BY <2>1 DEF Air!Evict
  <2>3. QED BY <1>0, <1>2, <2>2
            DEF Evict, ClearOwed, Shown, dataVars, pubVars, brokerVars
<1>3. ASSUME NEW v \in UasIds, Hear(v) PROVE ClearOwed(u)' \/ ~Shown(u)'
  <2>1. u \notin DOMAIN heard /\ owed' = owed
    BY <1>3 DEF Hear, Air!Hear
  <2>2. QED BY <1>0, <1>3, <2>1 DEF Hear, ClearOwed, Shown, dataVars, pubVars, brokerVars
<1>4. ASSUME NEW v \in UasIds, Expire(v) PROVE ClearOwed(u)' \/ ~Shown(u)'
  <2>1. u \notin DOMAIN heard /\ owed' = owed \ {v}
    BY <1>4 DEF Expire, Air!Notify
  <2>2. /\ Range(events) \subseteq Range(events')
        /\ QueueFull \/ ExpireOf(v) \in Range(events')
    BY <1>4, EnqueuedKeeps DEF Expire, IInv, ExpireOf
  <2>3. orphans \subseteq orphans' /\ (QueueFull => v \in orphans')
    BY <1>4 DEF Expire
  <2>4. UNCHANGED <<latest, pc, ready, expired, retained>>
    BY <1>4 DEF Expire, pubVars
  <2>5. QED BY <1>0, <2>1, <2>2, <2>3, <2>4 DEF ClearOwed, Shown
<1>5. CASE ChangeLatest
  <2>1. hook.id # u /\ DOMAIN latest' = DOMAIN latest \cup {hook.id} /\ u \notin DOMAIN heard
    BY <1>5 DEF ChangeLatest, Put, airVars, IInv, HookInside
  <2>2. UNCHANGED <<owed, events, pc, ready, expired, retained, orphans>>
    BY <1>5 DEF ChangeLatest, airVars, pubVars, brokerVars
  <2>3. QED BY <1>0, <2>1, <2>2 DEF ClearOwed, Shown
<1>6. CASE ChangeEvent
  <2>1. hook.id \in UasIds
    BY <1>6 DEF ChangeEvent, IInv, TypeOK
  <2>2. Range(events) \subseteq Range(events')
    BY <1>6, <2>1, EnqueuedKeeps DEF ChangeEvent, IInv, EventOf
  <2>3. UNCHANGED <<heard, owed, latest, pc, ready, expired, retained, orphans>>
    BY <1>6 DEF ChangeEvent, airVars, pubVars, brokerVars
  <2>4. QED BY <1>0, <2>2, <2>3 DEF ClearOwed, Shown
<1>7. QED BY <1>1, <1>2, <1>3, <1>4, <1>5, <1>6 DEF Change

\* The publisher thread's flush.
LEMMA FlushClears ==
  ASSUME IInv, ~Stopping, NEW u \in UasIds, u \notin DOMAIN heard', Flush("pub")
  PROVE  ClearOwed(u)' \/ ~Shown(u)'
<1>0. /\ DOMAIN ready = Flushers /\ DOMAIN pc = Flushers /\ "pub" \in Flushers
      /\ ready["pub"] \in [DOMAIN ready["pub"] -> Row]
  BY DEF IInv, TypeOK, Flushers
<1>1. UNCHANGED <<heard, owed, events, expired, orphans>>
  BY DEF Flush, FlushClock, Collect, PublishState, FlushEnd, airVars, dataVars, brokerVars
<1>2. ClearOwed(u) \/ ~Shown(u)
  BY <1>1, ClearComingByDrone DEF IInv, GoneOk
<1>3. CASE FlushClock("pub") \/ FlushEnd("pub")
  BY <1>0, <1>1, <1>2, <1>3 DEF FlushClock, FlushEnd, ClearOwed, Shown, dataVars, brokerVars
<1>4. CASE Collect("pub")
  <2>1. /\ ready'["pub"] = Restrict(latest, Due("pub")) /\ DOMAIN latest' \subseteq DOMAIN latest
        /\ pc["pub"] = "collect" /\ pc'["pub"] = "publish" /\ retained' = retained
    BY <1>0, <1>4 DEF Collect, Without, Restrict, brokerVars
  <2>2. DOMAIN ready'["pub"] \subseteq DOMAIN latest
    BY <2>1 DEF Restrict, Due
  <2>3. QED BY <1>1, <1>2, <2>1, <2>2 DEF ClearOwed, Shown
<1>5. ASSUME NEW v \in UasIds, PublishState("pub", v) PROVE ClearOwed(u)' \/ ~Shown(u)'
  <2>1. /\ DOMAIN ready'["pub"] \subseteq DOMAIN ready["pub"] /\ v \in DOMAIN ready["pub"]
        /\ UNCHANGED <<latest, pc>>
    BY <1>0, <1>5 DEF PublishState, Without, Restrict, dataVars
  <2>2. u # v => retained'[u] = retained[u]
    BY <1>5 DEF PublishState, Retain, IInv, TypeOK
  <2>3. QED BY <1>1, <1>2, <2>1, <2>2 DEF ClearOwed, Shown
<1>6. QED BY <1>3, <1>4, <1>5 DEF Flush

\* The drain: the clear of a drone leaves nothing of it to be shown.
LEMMA DrainClears ==
  ASSUME IInv, ~Stopping, NEW u \in UasIds, u \notin DOMAIN heard', Drain
  PROVE  ClearOwed(u)' \/ ~Shown(u)'
<1>0. DOMAIN pc = Flushers /\ "pub" \in Flushers
  BY DEF IInv, TypeOK, Flushers
<1>1. UNCHANGED <<heard, owed, ready>>
  BY DEF Drain, DrainOne, ExpireClear, ExpireForget, ExpireUndebounce, DrainEnd, airVars
<1>2. ClearOwed(u) \/ ~Shown(u)
  BY <1>1, ClearComingByDrone DEF IInv, GoneOk
<1>3. CASE DrainOne
  <2>1. Range(events) \subseteq Range(events') \cup {Head(events)}
    BY <1>3, TailKeeps DEF DrainOne, IInv
  <2>2. Head(events) = ExpireOf(u) => pc'["pub"] = "clear" /\ expired' = u
    BY <1>0, <1>3 DEF DrainOne, PubAt, ExpireOf
  <2>3. UNCHANGED <<latest, retained, orphans>> /\ pc["pub"] = "drain"
    BY <1>3 DEF DrainOne, PubAt, brokerVars
  <2>4. QED BY <1>1, <1>2, <2>1, <2>2, <2>3 DEF ClearOwed, Shown
<1>4. CASE ExpireClear
  <2>1. /\ pc["pub"] = "clear" /\ pc'["pub"] = "forget" /\ expired' = expired
        /\ UNCHANGED <<latest, events>> /\ orphans' = orphans \ {expired}
        /\ retained' = [retained EXCEPT ![expired] = None]
    BY <1>0, <1>4 DEF ExpireClear, PubAt, Retain, Connected, Stopping, dataVars
  <2>2. ready["pub"] = EmptyMap
    BY <2>1 DEF IInv, Sequential
  <2>3. u \notin DOMAIN ready["pub"]
    BY <2>2 DEF EmptyMap
  <2>4. retained'[u] = IF u = expired THEN None ELSE retained[u]
    BY <2>1 DEF IInv, TypeOK
  <2>5. QED BY <1>1, <1>2, <2>1, <2>3, <2>4 DEF ClearOwed, Shown
<1>5. CASE ExpireForget
  <2>1. /\ pc["pub"] = "forget" /\ expired' = expired /\ UNCHANGED <<events, orphans, retained>>
        /\ DOMAIN latest' = DOMAIN latest \ {expired}
    BY <1>5 DEF ExpireForget, PubAt, Without, Restrict, brokerVars
  <2>2. QED BY <1>1, <1>2, <2>1 DEF ClearOwed, Shown
<1>6. CASE ExpireUndebounce \/ DrainEnd
  <2>1. UNCHANGED <<events, latest, orphans, retained>> /\ pc["pub"] \in {"undebounce", "drain"}
    BY <1>6 DEF ExpireUndebounce, DrainEnd, PubAt, dataVars, brokerVars
  <2>2. QED BY <1>1, <1>2, <2>1 DEF ClearOwed, Shown
<1>7. QED BY <1>3, <1>4, <1>5, <1>6 DEF Drain

\* Every step keeps ClearComing; stop() and a restart make it void or true.
LEMMA ClearComingStep ==
  ASSUME IInv, [Next]_vars
  PROVE  ClearComing'
<1>0. DOMAIN pc = Flushers /\ "main" \in Flushers /\ pc["main"] \in MainStage
  BY DEF IInv, TypeOK, Flushers
<1>1. CASE Restart
  BY <1>1 DEF Restart, ClearComing, ClearOwed, EmptyMap, EmptyReady, Flushers
<1>2. CASE UNCHANGED vars
  BY <1>2 DEF vars, IInv, ClearComing, ClearOwed, Stopping, airVars, dataVars, pubVars,
              brokerVars
<1>3. CASE Stop
  BY <1>0, <1>3 DEF Stop, ClearComing, Stopping
<1>4. ASSUME Flush("main") PROVE Stopping'
  BY <1>0, <1>4 DEF Flush, FlushClock, Collect, PublishState, FlushEnd, Stopping
<1>5. ASSUME Stopping,
             \/ Tick \/ Evict \/ Change \/ Drain \/ PubExit \/ Flush("pub")
             \/ \E v \in UasIds : Hear(v) \/ Expire(v)
      PROVE  Stopping'
  <2>1. pc' = pc \/ \E p \in Flushers : \E s : s # "running" /\ pc' = [pc EXCEPT ![p] = s]
    BY <1>5 DEF Tick, Air!Tick, Evict, Hear, Expire, Change, ChangeLatest, ChangeEvent,
                Flush, FlushClock, Collect, PublishState, FlushEnd, Drain, DrainOne, PubAt,
                ExpireClear, ExpireForget, ExpireUndebounce, DrainEnd, PubExit, pubVars, Flushers
  <2>2. QED BY <1>0, <1>5, <2>1 DEF Stopping
<1>6. CASE PubExit
  BY <1>5, <1>6 DEF PubExit, ClearComing
<1>7. CASE \/ Tick \/ Evict \/ Change \/ Drain \/ Flush("pub")
           \/ \E v \in UasIds : Hear(v) \/ Expire(v)
  <2> SUFFICES ASSUME ~Stopping', NEW u \in UasIds, u \notin DOMAIN heard'
               PROVE  ClearOwed(u)' \/ ~Shown(u)'
    BY DEF ClearComing, Shown
  <2>1. CASE Stopping
    BY <1>5, <1>7, <2>1
  <2>2. CASE ~Stopping
    BY <1>7, <2>2, CacheClears, FlushClears, DrainClears
  <2>3. QED BY <2>1, <2>2
<1>8. QED
  <2>1. CASE Flush("main")
    BY <1>4, <2>1 DEF ClearComing
  <2>2. QED BY <1>1, <1>2, <1>3, <1>6, <1>7, <2>1 DEF Next, Flushers

-----------------------------------------------------------------------------
(* The theorems.                                                            *)

\* IInv is inductive.
LEMMA Invariant == Spec => []IInv
<1>1. IInv /\ [Next]_vars => IInv'
  <2> SUFFICES ASSUME IInv, [Next]_vars PROVE IInv'
    OBVIOUS
  <2>1. TypeOK'
    BY FlushTypes, DrainTypes, OtherTypes DEF Next
  <2>2. QED BY <2>1, SequentialStep, HookInsideStep, ClearComingStep DEF IInv
<1>2. QED BY InitIInv, <1>1, PTL DEF Spec

\* The sink keeps its types and its event queue stays within EVENT_QUEUE_MAX
\* (mqtt_publisher.py:102, 194-209).
THEOREM TypeCorrect == Spec => []TypeOK
BY Invariant, PTL DEF IInv

\* As long as the program runs, nothing is or will be shown of a gone drone without
\* a clear behind it, but for the clears lost at a full queue or in a restart
\* (mqtt_publisher.py:205-209, 221-234, 263-274).
THEOREM ClearAlwaysComing == Spec => []ClearComing
BY Invariant, PTL DEF IInv
==============================================================================
