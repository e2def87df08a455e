---------------------------- MODULE FeedersProofs ----------------------------
(***************************************************************************)
(* The radio feeders in front of the cache, for every value of the          *)
(* constants.  FeederSpec implements Spec, so what TrackerProofs says of    *)
(* the cache holds behind the feeders; and a packet's updates are credited  *)
(* to its Basic ID.  The argument for the latter is one of time: the Basic  *)
(* ID goes out first and maps the address; nobody else maps that address;   *)
(* a commit of the other radio takes the drone's stamp back by no more than *)
(* Patience; so until the packet ends, another Patience later, the drone    *)
(* is younger than the TTL and no sweep takes it.                           *)
(***************************************************************************)
EXTENDS Feeders, AccountingProofs

PacketOK == packet \in [Threads -> OrNone(PacketType)]

\* A call carries a message of its thread's packet, and the packet is a recent one.
FromPacket ==
    \A t \in Threads :
        /\ packet[t] = None => call[t] = None
        /\ packet[t] # None =>
            /\ packet[t].mac \in MacsOf[t]
            /\ \A i \in DOMAIN packet[t].todo : packet[t].todo[i].mac = packet[t].mac
            /\ packet[t].since <= clock /\ clock <= packet[t].since + Patience
            /\ call[t] # None => /\ call[t].msg.mac = packet[t].mac
                                 /\ packet[t].since <= call[t].now

\* Basic ID `sole` is among the sub-messages, and no other.
SoleIn(todo, sole) ==
    \E i \in DOMAIN todo :
        /\ IsBasicId(todo[i]) /\ todo[i].id = sole
        /\ \A j \in DOMAIN todo : IsBasicId(todo[j]) => j = i

NoIdIn(todo) == \A i \in DOMAIN todo : ~IsBasicId(todo[i])

\* The packet's address belongs to its drone, which was not heard too long ago.
Credited(p) ==
    /\ p.mac \in DOMAIN macToUas /\ macToUas[p.mac] = p.sole
    /\ p.sole \in DOMAIN drones
    /\ p.since <= drones[p.sole].lastSeen + Patience

\* A packet with one Basic ID: it has still to go out, it is being committed, or it was.
Announcing(t) == call[t] = None /\ SoleIn(packet[t].todo, packet[t].sole)
Identifying(t) ==
    /\ call[t] # None /\ IsBasicId(call[t].msg) /\ call[t].msg.id = packet[t].sole
    /\ NoIdIn(packet[t].todo)
Following(t) ==
    /\ call[t] # None => ~IsBasicId(call[t].msg)
    /\ NoIdIn(packet[t].todo)
    /\ Credited(packet[t])

InPhase ==
    \A t \in Threads : packet[t] # None /\ packet[t].sole # None =>
        Announcing(t) \/ Identifying(t) \/ Following(t)

FInv == IInv /\ PacketOK /\ FromPacket /\ InPhase

-----------------------------------------------------------------------------
(* Packets.                                                                 *)

LEMMA TodoFields ==
  ASSUME NEW todo \in Todos, NEW i \in DOMAIN todo
  PROVE  todo[i] \in Message
BY DEF Todos

LEMMA TodoRestricted ==
  ASSUME NEW todo \in Todos, NEW S \in SUBSET DOMAIN todo
  PROVE  /\ Restrict(todo, S) \in Todos
         /\ DOMAIN Restrict(todo, S) = S
         /\ \A i \in S : Restrict(todo, S)[i] = todo[i]
<1>1. PICK I \in SUBSET (1..(PackMax + 3)) : todo \in [I -> Message]
  BY DEF Todos
<1>2. Restrict(todo, S) \in [S -> Message]
  BY <1>1 DEF Restrict
<1>3. S \in SUBSET (1..(PackMax + 3))
  BY <1>1
<1> QED
  BY <1>2, <1>3 DEF Todos, Restrict

\* A packet is a sequence of messages of one address and of what calls for no update.
LEMMA PacketContents ==
  ASSUME NEW t \in Threads, NEW mac, NEW msgs \in Packets(t, mac)
  PROVE  /\ DOMAIN msgs \subseteq 1..(PackMax + 3)
         /\ \A i \in DOMAIN msgs : msgs[i] = None \/ (msgs[i] \in Message /\ msgs[i].mac = mac)
<1> DEFINE S == {m \in Message : m.mac = mac} \cup {None}
<1>1. ASSUME NEW src, NEW rssi, NEW n \in 0..(PackMax + 1),
             msgs \in SeqsUpTo(SubMessages(t, mac, src, rssi), n)
      PROVE  \E k \in 0..(PackMax + 3) : msgs \in [1..k -> S]
  <2>1. PICK k \in 1..n : msgs \in [1..k -> SubMessages(t, mac, src, rssi)]
    BY <1>1 DEF SeqsUpTo
  <2>2. SubMessages(t, mac, src, rssi) \subseteq S
    BY DEF SubMessages, From, OnAir
  <2>3. k \in 0..(PackMax + 3)
    BY PacketsOK
  <2> QED
    BY <2>1, <2>2, <2>3
<1>2. ASSUME msgs \in French(t, mac)
      PROVE  \E k \in 0..(PackMax + 3) : msgs \in [1..k -> S]
  <2>0. PICK rssi \in RssisOf[t] :
          msgs \in {<<p[1]>> \o p[2] \o p[3] :
                     p \in FrenchPart(t, mac, rssi, "basic_id")
                          \X Optional(FrenchPart(t, mac, rssi, "location"))
                          \X Optional(FrenchPart(t, mac, rssi, "system"))}
    BY <1>2 DEF French
  <2> DEFINE F == From(t, mac, "wifi_beacon_fr", rssi)
  <2>1. F \subseteq S
    BY DEF From, OnAir
  <2>a. \A kind : FrenchPart(t, mac, rssi, kind) \subseteq F
    BY DEF FrenchPart
  <2>b. PICK p \in FrenchPart(t, mac, rssi, "basic_id")
                   \X Optional(FrenchPart(t, mac, rssi, "location"))
                   \X Optional(FrenchPart(t, mac, rssi, "system")) :
          msgs = <<p[1]>> \o p[2] \o p[3]
    BY <2>0
  <2>3. p[1] \in F /\ p[2] \in Optional(F) /\ p[3] \in Optional(F)
    BY <2>a, <2>b DEF Optional
  <2>4. ASSUME NEW x \in Optional(F) PROVE x \in Seq(S) /\ Len(x) \in 0..1
    <3>1. CASE x = <<>>
      BY <3>1
    <3>2. ASSUME NEW y \in F, x = <<y>> PROVE x \in Seq(S) /\ Len(x) \in 0..1
      <4>1. y \in S
        BY <2>1
      <4> HIDE DEF S
      <4> QED
        BY <3>2, <4>1
    <3> QED
      BY <3>1, <3>2 DEF Optional
  <2>5. <<p[1]>> \in Seq(S) /\ Len(<<p[1]>>) = 1
    BY <2>1, <2>3
  <2> HIDE DEF S, F
  <2>6. msgs \in Seq(S) /\ Len(msgs) \in 0..3
    <3>1. <<p[1]>> \o p[2] \in Seq(S) /\ Len(<<p[1]>> \o p[2]) \in 1..2
      BY <2>3, <2>4, <2>5, ConcatProperties
    <3> QED
      BY <2>b, <2>3, <2>4, <3>1, ConcatProperties
  <2>7. msgs \in [1..Len(msgs) -> S]
    BY <2>6
  <2>8. Len(msgs) \in 0..(PackMax + 3)
    <3>1. \A n \in 0..3 : n \in 0..(PackMax + 3)
      BY PacketsOK
    <3> QED
      BY <2>6, <3>1
  <2>9. \E k \in 0..(PackMax + 3) : msgs \in [1..k -> S]
    BY <2>7, <2>8
  <2> QED
    BY <2>9 DEF S
<1>3. \E k \in 0..(PackMax + 3) : msgs \in [1..k -> S]
  <2>0. 1 \in 0..(PackMax + 1) /\ PackMax \in 0..(PackMax + 1)
    BY PacketsOK
  <2>1. CASE msgs \in Single(t, mac)
    <3>1. PICK src \in {"ble", "wifi_beacon", "wifi_nan"}, rssi \in RssisOf[t] :
            msgs \in SeqsUpTo(SubMessages(t, mac, src, rssi), 1)
      BY <2>1 DEF Single
    <3> QED
      BY <2>0, <3>1, <1>1
  <2>2. CASE msgs \in Pack(t, mac)
    <3>1. PICK src \in {"ble5", "wifi_beacon", "wifi_nan"}, rssi \in RssisOf[t] :
            msgs \in SeqsUpTo(SubMessages(t, mac, src, rssi), PackMax)
      BY <2>2 DEF Pack
    <3> QED
      BY <2>0, <3>1, <1>1
  <2> QED
    BY <2>1, <2>2, <1>2 DEF Packets
<1>4. PICK k \in 0..(PackMax + 3) : msgs \in [1..k -> S]
  BY <1>3
<1>5. DOMAIN msgs = 1..k /\ \A i \in 1..k : msgs[i] \in S
  BY <1>4
<1>6. 1..k \subseteq 1..(PackMax + 3)
  BY PacketsOK
<1> QED
  BY <1>5, <1>6

\* A captured packet is well formed, and names at most one drone as its own.
LEMMA Dispatched ==
  ASSUME NEW t \in Threads, NEW d \in Dispatches[t]
  PROVE  /\ d.todo \in Todos /\ d.mac \in MacsOf[t] /\ d.mac \in Macs
         /\ d.sole \in OrNone(UasIds)
         /\ \A i \in DOMAIN d.todo : d.todo[i].mac = d.mac
         /\ d.sole # None => SoleIn(d.todo, d.sole)
<1>0. PICK mac \in MacsOf[t] : \E msgs \in Packets(t, mac) :
        d = [todo |-> Routed(msgs), sole |-> SoleId(msgs), mac |-> mac]
  BY DEF Dispatches
<1>1. PICK msgs \in Packets(t, mac) :
        d = [todo |-> Routed(msgs), sole |-> SoleId(msgs), mac |-> mac]
  BY <1>0
<1>2. /\ DOMAIN msgs \subseteq 1..(PackMax + 3)
      /\ \A i \in DOMAIN msgs : msgs[i] = None \/ (msgs[i] \in Message /\ msgs[i].mac = mac)
  BY <1>1, PacketContents
<1> DEFINE I == {i \in DOMAIN msgs : msgs[i] # None}
<1>3. /\ DOMAIN d.todo = I /\ \A i \in I : d.todo[i] = msgs[i]
      /\ d.todo \in [I -> Message] /\ d.mac = mac /\ d.sole = SoleId(msgs)
  BY <1>1, <1>2 DEF Routed, Restrict
<1>4. d.todo \in Todos
  BY <1>2, <1>3 DEF Todos
<1>5. d.mac \in MacsOf[t] /\ d.mac \in Macs
  BY <1>1, <1>3, RadiosApart
<1> DEFINE ids == {i \in DOMAIN msgs : IsBasicId(msgs[i])}
<1>6. CASE \E i \in ids : ids = {i}
  <2>1. PICK i \in ids : ids = {i}
    BY <1>6
  <2>2. (CHOOSE j \in ids : TRUE) = i
    BY <2>1
  <2>3. SoleId(msgs) = msgs[i].id
    BY <1>6, <2>2 DEF SoleId
  <2>4. i \in I /\ IsBasicId(d.todo[i]) /\ d.todo[i].id = d.sole
    BY <1>3, <2>1, <2>3 DEF IsBasicId
  <2>5. \A j \in DOMAIN d.todo : IsBasicId(d.todo[j]) => j = i
    BY <1>3, <2>1
  <2>6. SoleIn(d.todo, d.sole)
    BY <1>3, <2>4, <2>5 DEF SoleIn
  <2>7. d.sole \in UasIds
    BY <1>3, <2>4, MessageFields DEF IsBasicId
  <2> QED
    BY <1>2, <1>3, <1>4, <1>5, <2>6, <2>7 DEF OrNone
<1>7. CASE ~\E i \in ids : ids = {i}
  <2>1. d.sole = None
    BY <1>3, <1>7 DEF SoleId
  <2> QED
    BY <1>2, <1>3, <1>4, <1>5, <2>1 DEF OrNone
<1> QED
  BY <1>6, <1>7

\* The parts of a packet under way.
LEMMA PacketFields ==
  ASSUME PacketOK, NEW t \in Threads, packet[t] # None
  PROVE  /\ packet[t].todo \in Todos /\ packet[t].mac \in Macs
         /\ packet[t].sole \in OrNone(UasIds) /\ packet[t].since \in Nat
BY DEF PacketOK, OrNone, PacketType

-----------------------------------------------------------------------------
(* The feeders implement the open environment of the cache.                 *)

LEMMA FeederStepRefines == [FeederNext]_feederVars => [Next]_vars
BY DEF FeederNext, FeederTick, Capture, Deliver, PacketEnd, Next, feederVars, vars

\* Whatever the radios hand over is something the cache's specification allows.
THEOREM FeedersImplementTracker == FeederSpec => Spec
<1>1. FeederInit => Init
  BY DEF FeederInit
<1> QED
  BY <1>1, FeederStepRefines, PTL DEF FeederSpec, Spec

-----------------------------------------------------------------------------
(* What each step does to the calls, the packets and the credit.            *)

\* A commit: the drone enters or stays, its stamp is the call's reading of the clock.
Stamps(t, id) ==
    /\ DOMAIN drones' = DOMAIN drones \cup {id}
    /\ drones'[id].lastSeen = call[t].now
    /\ \A u \in DOMAIN drones : u # id => drones'[u] = drones[u]
    /\ hook' = [thread |-> t, id |-> id, now |-> call[t].now]

\* An update: a Basic ID maps its address and stamps its drone, another message stamps
\* the drone of its address, or there is none and it is dropped.
LEMMA UpdateEffect ==
  ASSUME IInv, NEW t \in Threads, Update(t)
  PROVE  /\ call[t] # None /\ call' = [call EXCEPT ![t] = None] /\ clock' = clock
         /\ \/ /\ call[t].msg.kind = "basic_id"
               /\ Stamps(t, call[t].msg.id)
               /\ macToUas' = Put(macToUas, call[t].msg.mac, call[t].msg.id)
            \/ /\ call[t].msg.kind # "basic_id"
               /\ DroneForMac(call[t].msg.mac) # None
               /\ Stamps(t, DroneForMac(call[t].msg.mac))
               /\ macToUas' = macToUas
            \/ /\ call[t].msg.kind # "basic_id"
               /\ DroneForMac(call[t].msg.mac) = None
               /\ UNCHANGED <<drones, macToUas>>
<1>1. ASSUME NEW id, NEW s, Commits(t, id, s)
      PROVE  /\ call[t] # None /\ call' = [call EXCEPT ![t] = None] /\ clock' = clock
             /\ Stamps(t, id)
  <2>1. /\ call[t] # None /\ call' = [call EXCEPT ![t] = None] /\ clock' = clock
        /\ hook' = [thread |-> t, id |-> id, now |-> call[t].now]
    BY <1>1 DEF Commits, Commit
  <2>2. /\ DOMAIN drones' = DOMAIN drones \cup {id}
        /\ drones'[id].lastSeen = call[t].now
        /\ \A u \in DOMAIN drones : u # id => drones'[u] = drones[u]
    BY <1>1, CommitEffect, Zenon
  <2> QED
    BY <2>1, <2>2 DEF Stamps
<1>2. CASE UpdateBasicId(t)
  <2>1. call[t].msg.kind = "basic_id" /\ \E s : Commits(t, call[t].msg.id, s)
    BY <1>2, BasicIdCommits
  <2>2. macToUas' = Put(macToUas, call[t].msg.mac, call[t].msg.id)
    BY <1>2 DEF UpdateBasicId
  <2> QED
    BY <2>1, <2>2, <1>1, Zenon
<1>3. CASE UpdateLocation(t) \/ UpdateSystem(t) \/ UpdateSelfId(t) \/ UpdateOperatorId(t)
  <2>1. /\ DroneForMac(call[t].msg.mac) # None
        /\ \E s : Commits(t, DroneForMac(call[t].msg.mac), s)
    BY <1>3, KnownCommits, Zenon
  <2>2. call[t].msg.kind # "basic_id" /\ macToUas' = macToUas
    BY <1>3 DEF UpdateLocation, UpdateSystem, UpdateSelfId, UpdateOperatorId, UpdateKnown,
       Handling
  <2> QED
    BY <2>1, <2>2, <1>1, Zenon
<1>4. CASE DropUnmapped(t)
  BY <1>4 DEF DropUnmapped, cacheVars
<1> QED
  BY <1>2, <1>3, <1>4 DEF Update

\* A call read the clock no more than Patience ago.
LEMMA CallsRecent ==
  ASSUME FInv, NEW s \in Threads, call[s] # None
  PROVE  /\ packet[s] # None /\ call[s].msg \in Message /\ call[s].now \in Nat
         /\ call[s].msg.mac = packet[s].mac /\ packet[s].mac \in MacsOf[s]
         /\ clock <= call[s].now + Patience /\ packet[s].since <= call[s].now
<1>1. packet[s] # None /\ packet[s].since \in Nat /\ clock \in Nat
  BY PacketFields DEF FInv, FromPacket, IInv, TypeOK
<1>2. call[s].msg \in Message /\ call[s].now \in Nat
  BY CallFields DEF FInv, IInv
<1> QED
  BY <1>1, <1>2, RadiosPrompt DEF FInv, FromPacket

\* Another radio's commit takes no credit away: it maps another address, and dates the
\* drone, if it is the same one, no further back than Patience.
LEMMA CreditKeptByCommit ==
  ASSUME FInv, NEW t \in Threads, packet[t] # None, packet[t].sole # None, Credited(packet[t]),
         NEW s \in Threads, call[s] # None, NEW id, Stamps(s, id),
         packet' = packet,
         \/ macToUas' = macToUas
         \/ s # t /\ macToUas' = Put(macToUas, call[s].msg.mac, id)
  PROVE  Credited(packet[t])'
<1>1. packet[t].since \in Nat /\ packet[t].sole \in UasIds
  BY PacketFields DEF FInv, OrNone
<1>2. packet[t].since <= clock /\ clock \in Nat /\ packet[t].mac \in MacsOf[t]
  BY DEF FInv, FromPacket, IInv, TypeOK
<1>3. /\ call[s].msg.mac \in MacsOf[s] /\ call[s].now \in Nat
      /\ clock <= call[s].now + Patience
  BY CallsRecent
<1>4. packet[t].sole \in DOMAIN drones'
  BY DEF Credited, Stamps
<1>5. packet[t].since <= drones'[packet[t].sole].lastSeen + Patience
  <2>1. CASE packet[t].sole = id
    BY <2>1, <1>1, <1>2, <1>3, RadiosPrompt DEF Stamps
  <2>2. CASE packet[t].sole # id
    BY <2>2 DEF Stamps, Credited
  <2> QED
    BY <2>1, <2>2
<1>6. packet[t].mac \in DOMAIN macToUas' /\ macToUas'[packet[t].mac] = packet[t].sole
  <2>1. CASE macToUas' = macToUas
    BY <2>1 DEF Credited
  <2>2. CASE s # t /\ macToUas' = Put(macToUas, call[s].msg.mac, id)
    <3>1. call[s].msg.mac # packet[t].mac
      BY <2>2, <1>2, <1>3, RadiosApart
    <3> QED
      BY <2>2, <3>1 DEF Credited, Put
  <2> QED
    BY <2>1, <2>2
<1> QED
  BY <1>4, <1>5, <1>6 DEF Credited

\* No sweep takes a drone with a packet under way, nor the address it is credited by.
LEMMA CreditKeptBySweep ==
  ASSUME FInv, NEW t \in Threads, packet[t] # None, packet[t].sole # None, Credited(packet[t]),
         SweepEvict, packet' = packet
  PROVE  Credited(packet[t])'
<1> DEFINE u == packet[t].sole
<1>1. packet[t].since \in Nat /\ packet[t].mac \in Macs
  BY PacketFields DEF FInv
<1>2. clock \in Nat /\ clock <= packet[t].since + Patience
  BY DEF FInv, FromPacket, IInv, TypeOK
<1>3. u \in DOMAIN drones /\ drones[u].lastSeen \in Nat
  BY DEF Credited, FInv, IInv, TypeOK, DroneState
<1>4. clock - drones[u].lastSeen <= Ttl
  BY <1>1, <1>2, <1>3, RadiosPrompt, ConstantsOK DEF Credited
<1>5. /\ DOMAIN drones' = DOMAIN drones \ Stale
      /\ \A v \in DOMAIN drones' : drones'[v] = drones[v]
      /\ \A v \in Stale : clock - drones[v].lastSeen > Ttl
  BY EvictEffect DEF FInv
<1>6. u \notin Stale
  BY <1>2, <1>3, <1>4, <1>5, ConstantsOK
<1>7. u \in DOMAIN drones' /\ drones'[u] = drones[u]
  BY <1>3, <1>5, <1>6
<1>8. macToUas' = Restrict(macToUas, LiveMacs(Stale))
  BY DEF SweepEvict
<1>9. packet[t].mac \in LiveMacs(Stale)
  BY <1>3, <1>6 DEF Credited, LiveMacs
<1> QED
  BY <1>7, <1>8, <1>9 DEF Credited, Restrict

-----------------------------------------------------------------------------
(* The invariant.                                                           *)

LEMMA InitFInv == FeederInit => FInv
BY InitIInv DEF FeederInit, Init, FInv, PacketOK, FromPacket, InPhase, OrNone

\* Steps that leave calls, packets and cache alone, the clock included.
LEMMA QuietKeepsFInv ==
  ASSUME FInv, IInv', UNCHANGED <<packet, call, clock, drones, macToUas>>
  PROVE  FInv'
<1>1. PacketOK' /\ FromPacket'
  BY DEF FInv, PacketOK, FromPacket
<1>2. InPhase'
  BY DEF FInv, InPhase, Announcing, Identifying, Following, Credited
<1> QED
  BY <1>1, <1>2 DEF FInv

LEMMA TickKeepsFInv ==
  ASSUME FInv, IInv', FeederTick
  PROVE  FInv'
<1>1. /\ UNCHANGED <<packet, call, drones, macToUas>> /\ clock' = clock + 1
      /\ \A t \in Threads : packet[t] # None => clock < packet[t].since + Patience
  BY DEF FeederTick, Tick, cacheVars
<1>2. PacketOK'
  BY <1>1 DEF FInv, PacketOK
<1>3. FromPacket'
  <2>1. ASSUME NEW t \in Threads, packet[t] # None
        PROVE  packet[t].since <= clock + 1 /\ clock + 1 <= packet[t].since + Patience
    <3>1. packet[t].since \in Nat /\ clock \in Nat
      BY <2>1, PacketFields DEF FInv, IInv, TypeOK
    <3>2. packet[t].since <= clock /\ clock < packet[t].since + Patience
      BY <1>1, <2>1 DEF FInv, FromPacket
    <3> QED
      BY <3>1, <3>2, RadiosPrompt
  <2> QED
    BY <1>1, <2>1 DEF FInv, FromPacket
<1>4. InPhase'
  BY <1>1 DEF FInv, InPhase, Announcing, Identifying, Following, Credited
<1> QED
  BY <1>2, <1>3, <1>4 DEF FInv

LEMMA CaptureKeepsFInv ==
  ASSUME FInv, IInv', NEW t \in Threads, Capture(t)
  PROVE  FInv'
<1>1. PICK d \in Dispatches[t] :
        packet' = [packet EXCEPT ![t] = [todo |-> d.todo, mac |-> d.mac,
                                         sole |-> d.sole, since |-> clock]]
  BY DEF Capture
<1>2. call[t] = None /\ UNCHANGED <<call, clock, drones, macToUas>>
  BY DEF Capture, vars
<1>3. /\ d.todo \in Todos /\ d.mac \in MacsOf[t] /\ d.mac \in Macs
      /\ d.sole \in OrNone(UasIds)
      /\ \A i \in DOMAIN d.todo : d.todo[i].mac = d.mac
      /\ d.sole # None => SoleIn(d.todo, d.sole)
  BY Dispatched
<1>4. clock \in Nat /\ packet \in [Threads -> OrNone(PacketType)]
  BY DEF FInv, IInv, TypeOK, PacketOK
<1> DEFINE new == [todo |-> d.todo, mac |-> d.mac, sole |-> d.sole, since |-> clock]
<1>5. new \in PacketType
  BY <1>3, <1>4 DEF PacketType
<1>6. /\ packet'[t] = new
      /\ new.todo = d.todo /\ new.mac = d.mac /\ new.sole = d.sole /\ new.since = clock
      /\ \A s \in Threads : s # t => packet'[s] = packet[s]
  BY <1>1, <1>4
<1> HIDE DEF new
<1>7. PacketOK'
  BY <1>1, <1>4, <1>5, <1>6 DEF PacketOK, OrNone, new
<1>8. FromPacket'
  <2>1. ASSUME NEW s \in Threads, s # t
        PROVE  /\ packet'[s] = packet[s] /\ call'[s] = call[s] /\ clock' = clock
    BY <1>2, <1>6, <2>1
  <2>2. call'[t] = None /\ clock' = clock /\ clock <= clock + Patience
    BY <1>2, <1>4, RadiosPrompt
  <2> QED
    BY <1>3, <1>4, <1>6, <2>1, <2>2 DEF FInv, FromPacket
<1>9. InPhase'
  <2>1. ASSUME NEW s \in Threads, s # t, packet'[s] # None, packet'[s].sole # None
        PROVE  Announcing(s)' \/ Identifying(s)' \/ Following(s)'
    BY <1>2, <1>6, <2>1 DEF FInv, InPhase, Announcing, Identifying, Following, Credited
  <2>2. packet'[t].sole # None => Announcing(t)'
    BY <1>2, <1>3, <1>6 DEF Announcing
  <2> QED
    BY <2>1, <2>2 DEF InPhase
<1> QED
  BY <1>7, <1>8, <1>9 DEF FInv

LEMMA PacketEndKeepsFInv ==
  ASSUME FInv, IInv', NEW t \in Threads, PacketEnd(t)
  PROVE  FInv'
<1>1. /\ packet' = [packet EXCEPT ![t] = None] /\ call[t] = None
      /\ UNCHANGED <<call, clock, drones, macToUas>>
  BY DEF PacketEnd, vars
<1>2. PacketOK'
  BY <1>1 DEF FInv, PacketOK, OrNone
<1>3. packet'[t] = None /\ \A s \in Threads : s # t => packet'[s] = packet[s]
  BY <1>1 DEF FInv, PacketOK
<1>4. FromPacket'
  BY <1>1, <1>3 DEF FInv, FromPacket
<1>5. InPhase'
  BY <1>1, <1>3 DEF FInv, InPhase, Announcing, Identifying, Following, Credited
<1> QED
  BY <1>2, <1>4, <1>5 DEF FInv

LEMMA DeliverKeepsFInv ==
  ASSUME FInv, IInv', NEW t \in Threads, Deliver(t)
  PROVE  FInv'
<1>1. PICK i \in DOMAIN packet[t].todo :
        /\ \A j \in DOMAIN packet[t].todo : InOrder(packet[t].todo, i, j)
        /\ call'[t].msg = packet[t].todo[i]
        /\ packet' = [packet EXCEPT ![t].todo =
                        Restrict(packet[t].todo, DOMAIN packet[t].todo \ {i})]
  BY DEF Deliver, FInv, PacketOK
<1>2. PICK m \in OnAir(t) : call' = [call EXCEPT ![t] = [msg |-> m, now |-> clock]]
  BY DEF Deliver, Receive
<1>3. /\ packet[t] # None /\ call[t] = None /\ UNCHANGED <<clock, drones, macToUas>>
  BY DEF Deliver, Receive, cacheVars
<1>4. /\ packet[t].todo \in Todos /\ packet[t].mac \in Macs
      /\ packet[t].sole \in OrNone(UasIds) /\ packet[t].since \in Nat
  BY <1>3, PacketFields DEF FInv
<1> DEFINE todo == packet[t].todo
           rest == Restrict(todo, DOMAIN todo \ {i})
<1>5. /\ rest \in Todos /\ DOMAIN rest = DOMAIN todo \ {i}
      /\ \A j \in DOMAIN todo \ {i} : rest[j] = todo[j]
  BY <1>4, TodoRestricted
<1> HIDE DEF rest
<1>6. /\ packet' = [packet EXCEPT ![t].todo = rest]
      /\ packet \in [Threads -> OrNone(PacketType)]
  BY <1>1 DEF rest, FInv, PacketOK
<1>7. /\ packet'[t].todo = rest /\ packet'[t].mac = packet[t].mac
      /\ packet'[t].sole = packet[t].sole /\ packet'[t].since = packet[t].since
      /\ \A s \in Threads : s # t => packet'[s] = packet[s]
  BY <1>3, <1>6 DEF OrNone, PacketType
<1>8. /\ call'[t] = [msg |-> m, now |-> clock] /\ m = todo[i]
      /\ \A s \in Threads : s # t => call'[s] = call[s]
  BY <1>1, <1>2 DEF FInv, IInv, TypeOK
<1>9. PacketOK'
  BY <1>3, <1>5, <1>6 DEF PacketOK, OrNone, PacketType
<1>10. FromPacket'
  <2>1. \A j \in DOMAIN rest : rest[j].mac = packet[t].mac
    BY <1>3, <1>5 DEF FInv, FromPacket
  <2>2. call'[t].msg.mac = packet[t].mac /\ packet[t].since <= call'[t].now
    BY <1>3, <1>8 DEF FInv, FromPacket
  <2>3. ASSUME NEW s \in Threads, s # t
        PROVE  packet'[s] = packet[s] /\ call'[s] = call[s] /\ clock' = clock
    BY <1>3, <1>7, <1>8, <2>3
  <2>4. packet'[t] # None
    BY <1>3, <1>5, <1>6, <1>7, PacketsOK DEF PacketOK, OrNone, PacketType
  <2> QED
    BY <1>3, <1>7, <2>1, <2>2, <2>3, <2>4 DEF FInv, FromPacket
<1>11. InPhase'
  <2>1. ASSUME NEW s \in Threads, s # t, packet'[s] # None, packet'[s].sole # None
        PROVE  Announcing(s)' \/ Identifying(s)' \/ Following(s)'
    BY <1>3, <1>7, <1>8, <2>1 DEF FInv, InPhase, Announcing, Identifying, Following, Credited
  <2>2. ASSUME packet'[t].sole # None
        PROVE  Announcing(t)' \/ Identifying(t)' \/ Following(t)'
    <3>1. call'[t] # None /\ call'[t].msg = todo[i]
      BY <1>2, <1>4, <1>8, PacketsOK DEF OnAir, FInv, IInv, TypeOK
    <3>2. CASE Announcing(t)
      <4>1. PICK b \in DOMAIN todo :
              /\ IsBasicId(todo[b]) /\ todo[b].id = packet[t].sole
              /\ \A j \in DOMAIN todo : IsBasicId(todo[j]) => j = b
        BY <3>2 DEF Announcing, SoleIn
      <4>2. InOrder(todo, i, b)
        BY <1>1, <4>1
      <4>3. IsBasicId(todo[i])
        BY <4>1, <4>2 DEF InOrder
      <4>4. i = b
        BY <4>1, <4>3
      <4>5. NoIdIn(rest)
        BY <4>1, <4>4, <1>5 DEF NoIdIn
      <4> QED
        BY <3>1, <4>1, <4>4, <4>5, <1>7 DEF Identifying
    <3>3. CASE Identifying(t)
      BY <3>3, <1>3 DEF Identifying
    <3>4. CASE Following(t)
      <4>1. NoIdIn(rest) /\ ~IsBasicId(todo[i])
        BY <3>4, <1>5 DEF Following, NoIdIn
      <4>2. Credited(packet[t])'
        BY <3>4, <1>3, <1>7 DEF Following, Credited
      <4> QED
        BY <3>1, <4>1, <4>2, <1>7 DEF Following
    <3> QED
      BY <2>2, <1>3, <1>7, <3>2, <3>3, <3>4 DEF FInv, InPhase
  <2> QED
    BY <2>1, <2>2 DEF InPhase
<1> QED
  BY <1>9, <1>10, <1>11 DEF FInv

\* What an update does for its own packet: a Basic ID credits it, and any other message of
\* a packet with one Basic ID comes after that.
LEMMA UpdateOfOwnPacket ==
  ASSUME FInv, NEW t \in Threads, Update(t), packet[t] # None, packet[t].sole # None,
         packet' = packet
  PROVE  Stamps(t, packet[t].sole) /\ NoIdIn(packet[t].todo) /\ Credited(packet[t])'
<1>1. /\ call[t] # None /\ call[t].msg \in Message /\ call[t].now \in Nat
      /\ call[t].msg.mac = packet[t].mac /\ packet[t].since <= call[t].now
  BY UpdateEffect, CallsRecent DEF FInv
<1>2. packet[t].since \in Nat /\ packet[t].sole \in UasIds
  BY PacketFields DEF FInv, OrNone
<1>3. IsBasicId(call[t].msg) <=> call[t].msg.kind = "basic_id"
  BY <1>1, PacketsOK DEF IsBasicId
<1>4. Identifying(t) \/ Following(t)
  BY <1>1 DEF FInv, InPhase, Announcing
<1>5. CASE Identifying(t)
  <2>1. /\ Stamps(t, packet[t].sole) /\ NoIdIn(packet[t].todo)
        /\ macToUas' = Put(macToUas, packet[t].mac, packet[t].sole)
    BY <1>1, <1>3, <1>5, UpdateEffect DEF Identifying, FInv
  <2>2. packet[t].mac \in DOMAIN macToUas' /\ macToUas'[packet[t].mac] = packet[t].sole
    BY <2>1 DEF Put
  <2>3. packet[t].sole \in DOMAIN drones' /\ drones'[packet[t].sole].lastSeen = call[t].now
    BY <2>1 DEF Stamps
  <2> QED
    BY <2>1, <2>2, <2>3, <1>1, <1>2, RadiosPrompt DEF Credited
<1>6. CASE Following(t)
  <2>1. Credited(packet[t]) /\ NoIdIn(packet[t].todo) /\ call[t].msg.kind # "basic_id"
    BY <1>1, <1>3, <1>6 DEF Following
  <2>2. DroneForMac(call[t].msg.mac) = packet[t].sole
    BY <1>1, <2>1 DEF Credited, DroneForMac
  <2>3. Stamps(t, packet[t].sole) /\ macToUas' = macToUas
    BY <2>1, <2>2, UpdateEffect DEF FInv
  <2>4. Credited(packet[t])'
    BY <2>1, <2>3, <1>1, CreditKeptByCommit
  <2> QED
    BY <2>1, <2>3, <2>4
<1> QED
  BY <1>4, <1>5, <1>6

LEMMA UpdateKeepsFInv ==
  ASSUME FInv, IInv', NEW s \in Threads, Update(s), packet' = packet
  PROVE  FInv'
<1>1. call[s] # None /\ call' = [call EXCEPT ![s] = None] /\ clock' = clock
  BY UpdateEffect DEF FInv
<1>2. call'[s] = None /\ \A t \in Threads : t # s => call'[t] = call[t]
  BY <1>1 DEF FInv, IInv, TypeOK
<1>3. PacketOK' /\ FromPacket'
  BY <1>1, <1>2 DEF FInv, PacketOK, FromPacket
<1>4. InPhase'
  <2> SUFFICES ASSUME NEW t \in Threads, packet[t] # None, packet[t].sole # None
               PROVE  Announcing(t)' \/ Identifying(t)' \/ Following(t)'
    BY DEF InPhase
  <2>1. CASE t = s
    <3>1. NoIdIn(packet[t].todo) /\ Credited(packet[t])'
      BY <2>1, UpdateOfOwnPacket
    <3> QED
      BY <2>1, <3>1, <1>2 DEF Following
  <2>2. CASE t # s
    <3>1. call'[t] = call[t] /\ packet'[t] = packet[t]
      BY <2>2, <1>2
    <3>2. Announcing(t) => Announcing(t)'
      BY <3>1 DEF Announcing
    <3>3. Identifying(t) => Identifying(t)'
      BY <3>1 DEF Identifying
    <3>4. Credited(packet[t]) => Credited(packet[t])'
      <4>1. CASE UNCHANGED <<drones, macToUas>>
        BY <4>1 DEF Credited
      <4>2. ASSUME NEW id, Stamps(s, id),
                   macToUas' = macToUas \/ macToUas' = Put(macToUas, call[s].msg.mac, id)
            PROVE  Credited(packet[t]) => Credited(packet[t])'
        BY <4>2, <2>2, <1>1, CreditKeptByCommit
      <4> QED
        BY <4>1, <4>2, UpdateEffect DEF FInv
    <3>5. Following(t) => Following(t)'
      BY <3>1, <3>4 DEF Following
    <3> QED
      BY <3>2, <3>3, <3>5 DEF FInv, InPhase
  <2> QED
    BY <2>1, <2>2
<1> QED
  BY <1>3, <1>4 DEF FInv

LEMMA SweepKeepsFInv ==
  ASSUME FInv, IInv', SweepEvict, packet' = packet
  PROVE  FInv'
<1>1. UNCHANGED <<call, clock>>
  BY DEF SweepEvict
<1>2. PacketOK' /\ FromPacket'
  BY <1>1 DEF FInv, PacketOK, FromPacket
<1>3. InPhase'
  <2> SUFFICES ASSUME NEW t \in Threads, packet[t] # None, packet[t].sole # None
               PROVE  Announcing(t)' \/ Identifying(t)' \/ Following(t)'
    BY DEF InPhase
  <2>1. Announcing(t) => Announcing(t)'
    BY <1>1 DEF Announcing
  <2>2. Identifying(t) => Identifying(t)'
    BY <1>1 DEF Identifying
  <2>3. Following(t) => Following(t)'
    BY <1>1, CreditKeptBySweep DEF Following
  <2> QED
    BY <2>1, <2>2, <2>3 DEF FInv, InPhase
<1> QED
  BY <1>2, <1>3 DEF FInv

LEMMA StepFInv == FInv /\ [FeederNext]_feederVars => FInv'
<1> SUFFICES ASSUME FInv, [FeederNext]_feederVars PROVE FInv'
  OBVIOUS
<1>1. IInv'
  BY FeederStepRefines, NextKeepsIInv DEF FInv
<1>2. CASE FeederTick
  BY <1>1, <1>2, TickKeepsFInv
<1>3. ASSUME NEW t \in Threads, Capture(t) \/ Deliver(t) \/ PacketEnd(t)
      PROVE  FInv'
  BY <1>1, <1>3, CaptureKeepsFInv, DeliverKeepsFInv, PacketEndKeepsFInv
<1>4. ASSUME NEW t \in Threads, Update(t), packet' = packet
      PROVE  FInv'
  BY <1>1, <1>4, UpdateKeepsFInv
<1>5. CASE SweepEvict /\ packet' = packet
  BY <1>1, <1>5, SweepKeepsFInv
<1>6. ASSUME NEW t \in Threads, FireChange(t), packet' = packet
      PROVE  FInv'
  BY <1>1, <1>6, QuietKeepsFInv DEF FireChange, cacheVars
<1>7. ASSUME NEW u \in UasIds, FireExpire(u), packet' = packet
      PROVE  FInv'
  BY <1>1, <1>7, QuietKeepsFInv DEF FireExpire, cacheVars
<1>8. CASE (SweepCutoff \/ SweepExit \/ Stop) /\ packet' = packet
  BY <1>1, <1>8, QuietKeepsFInv DEF SweepCutoff, SweepExit, Stop, cacheVars
<1>9. CASE UNCHANGED feederVars
  BY <1>1, <1>9, QuietKeepsFInv DEF feederVars, vars
<1> QED
  BY <1>2, <1>3, <1>4, <1>5, <1>6, <1>7, <1>8, <1>9 DEF FeederNext

LEMMA FeederInvariance == FeederSpec => []FInv
BY InitFInv, StepFInv, PTL DEF FeederSpec

-----------------------------------------------------------------------------

\* Every update of a packet with one Basic ID is credited to that id, for every number of
\* radios, pack size and order, provided that a radio hands a packet over within half the
\* TTL and that no two radios share an address.
THEOREM PacksAreAttributed == FeederSpec => PackAttributed
<1> DEFINE Credits(t) ==
      packet[t] # None /\ packet[t].sole # None /\ call[t] # None /\ call'[t] = None
          => hook' # None /\ hook'.id = packet[t].sole
<1>1. ASSUME FInv, [FeederNext]_feederVars, NEW t \in Threads,
             packet[t] # None, packet[t].sole # None, call[t] # None, call'[t] = None
      PROVE  hook' # None /\ hook'.id = packet[t].sole
  <2>1. Update(t) /\ packet' = packet
    <3>1. call \in [Threads -> OrNone([msg : Message, now : Nat])]
      BY <1>1 DEF FInv, IInv, TypeOK
    <3>2. call' # call
      BY <1>1
    <3>3. ASSUME NEW s \in Threads, Deliver(s) PROVE FALSE
      <4>1. \E m : call' = [call EXCEPT ![s] = [msg |-> m, now |-> clock]] /\ m \in Message
        BY <3>3 DEF Deliver, Receive, OnAir
      <4>2. clock \in Nat
        BY <1>1 DEF FInv, IInv, TypeOK
      <4> QED
        BY <1>1, <3>1, <4>1, <4>2, PacketsOK
    <3>4. ASSUME NEW s \in Threads, Update(s), packet' = packet PROVE s = t
      <4>1. call' = [call EXCEPT ![s] = None]
        BY <1>1, <3>4, UpdateEffect DEF FInv
      <4> QED
        BY <1>1, <3>1, <4>1
    <3>5. ASSUME FeederTick PROVE call' = call
      BY <3>5 DEF FeederTick, Tick
    <3>6. ASSUME NEW s \in Threads, Capture(s) \/ PacketEnd(s) \/ FireChange(s)
          PROVE  call' = call
      BY <3>6 DEF Capture, PacketEnd, FireChange, vars
    <3>7. ASSUME SweepCutoff \/ SweepEvict \/ SweepExit \/ Stop \/ UNCHANGED feederVars
          PROVE  call' = call
      BY <3>7 DEF SweepCutoff, SweepEvict, SweepExit, Stop, feederVars, vars
    <3>8. ASSUME NEW u \in UasIds, FireExpire(u) PROVE call' = call
      BY <3>8 DEF FireExpire
    <3> QED
      BY <1>1, <3>2, <3>3, <3>4, <3>5, <3>6, <3>7, <3>8 DEF FeederNext
  <2>2. Stamps(t, packet[t].sole)
    BY <1>1, <2>1, UpdateOfOwnPacket
  <2>3. packet[t].sole \in UasIds /\ call[t].now \in Nat
    BY <1>1, PacketFields, CallsRecent DEF FInv, OrNone
  <2> QED
    BY <2>2, <2>3, PacketsOK DEF Stamps
<1>2. FInv /\ [FeederNext]_feederVars => [\A t \in Threads : Credits(t)]_feederVars
  BY <1>1
<1> QED
  BY FeederInvariance, <1>2, PTL DEF FeederSpec, PackAttributed

\* What was proved of the cache on its own holds behind the feeders: its invariants, what a
\* step of it may never do, and that nothing else of it shows than an Airspace
\* (tracker.py:225-502 behind ble_feeder.py:278-320 and wifi_feeder.py:812-941).
THEOREM CacheBehindFeeders ==
    FeederSpec =>
        /\ [](TypeOK /\ MacMapSound /\ SourcesInOrder)
        /\ [](Dated /\ OperatorLabelled /\ FlightOfPosition /\ Timely)
        /\ [](Accounting /\ DocsConsistent)
        /\ IdentityWriteOnce /\ NeverForgotten /\ EvictedOnlyWhenSilent /\ CountedOnce
        /\ DocsMoveForward /\ ImplementsAirspace
<1>1. Spec => [](TypeOK /\ MacMapSound /\ SourcesInOrder)
  BY TypeCorrect, MacMapAlwaysSound, SourcesAlwaysInOrder, PTL
<1>2. Spec => [](Dated /\ OperatorLabelled /\ FlightOfPosition /\ Timely)
  BY EntriesAlwaysDated, OperatorAlwaysLabelled, FlightAlwaysOfPosition, AlwaysTimely, PTL
<1>3. Spec => [](Accounting /\ DocsConsistent)
  BY AlwaysAccounted, DocumentsAddUp, PTL
<1>4. Spec => /\ IdentityWriteOnce /\ NeverForgotten /\ EvictedOnlyWhenSilent
              /\ CountedOnce /\ DocsMoveForward
  BY IdentityIsWriteOnce, NothingIsForgotten, EvictionIsJustified, EveryMessageCountedOnce,
     DocumentsMoveForward, PTL
<1> QED
  BY FeedersImplementTracker, TrackerImplementsAirspace, <1>1, <1>2, <1>3, <1>4, PTL

=============================================================================
