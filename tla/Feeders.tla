------------------------------- MODULE Feeders -------------------------------
(***************************************************************************)
(* The radio feeders (ble_feeder.py, wifi_feeder.py) in front of the cache. *)
(* Each radio thread decodes one packet at a time -- an advertisement, a    *)
(* beacon, a NAN frame -- into a list of sub-messages and hands them to the *)
(* cache one update_* call after another, the Basic IDs first.              *)
(* The other radio, the sweeper and the clock run in between.               *)
(*                                                                          *)
(* A sub-message is the Message it becomes, or None when _update_tracker    *)
(* calls nothing for it: Authentication, an unknown type, a pack inside a   *)
(* pack, a Location whose position was filtered out.                        *)
(***************************************************************************)
EXTENDS Tracker

CONSTANTS
    MacsOf,    \* the transmitter addresses each radio hears
    Patience,  \* the longest a radio thread takes from a packet to its last update
    PackMax    \* bound: sub-messages in a Message Pack

\* A Bluetooth address and an 802.11 address are different identities.
ASSUME RadiosApart ==
    /\ MacsOf \in [Threads -> SUBSET Macs]
    /\ \A t, s \in Threads : t # s => MacsOf[t] \cap MacsOf[s] = {}

\* A packet is a few updates, each waiting for the lock at worst; the TTL is a minute.
ASSUME RadiosPrompt == Patience \in Nat /\ 2 * Patience <= Ttl

\* What is left of a packet: its sub-messages by their places.  A French beacon has three.
Todos == UNION {[places -> Message] : places \in SUBSET (1..(PackMax + 3))}
PacketType == [todo : Todos, mac : Macs, sole : OrNone(UasIds), since : Nat]

ASSUME PacketsOK ==
    /\ PackMax \in Nat
    /\ None \notin Message
    /\ None \notin [msg : Message, now : Nat]
    /\ None \notin [thread : Threads, id : UasIds, now : Nat]
    /\ None \notin PacketType

VARIABLE
    packet     \* packet[t]: what is left to dispatch of thread t's packet, or None

feederVars == <<vars, packet>>

-----------------------------------------------------------------------------
(* Decoded packets.                                                         *)

\* The sub-messages of one packet share its address, transport and signal strength.
From(t, mac, src, rssi) == {m \in OnAir(t) : m.mac = mac /\ m.src = src /\ m.rssi = rssi}
SubMessages(t, mac, src, rssi) == From(t, mac, src, rssi) \cup {None}

SeqsUpTo(S, n) == UNION {[1..k -> S] : k \in 1..n}

\* One ODID message, over Bluetooth 4, a beacon or a NAN frame.
Single(t, mac) ==
    UNION {SeqsUpTo(SubMessages(t, mac, src, rssi), 1) :
             src \in SourceOf[t] \cap {"ble", "wifi_beacon", "wifi_nan"}, rssi \in RssisOf[t]}

\* A Message Pack, over Bluetooth 5, a beacon or a NAN frame, in any order.
Pack(t, mac) ==
    UNION {SeqsUpTo(SubMessages(t, mac, src, rssi), PackMax) :
             src \in SourceOf[t] \cap {"ble5", "wifi_beacon", "wifi_nan"}, rssi \in RssisOf[t]}

Optional(S) == {<<>>} \cup {<<x>> : x \in S}

\* A French beacon is split into a Basic ID without a UA type, a Location when it
\* has a position and a System when it has a takeoff point.  The format has no climb rate.
FrenchPart(t, mac, rssi, kind) ==
    {m \in From(t, mac, "wifi_beacon_fr", rssi) :
        /\ m.kind = kind
        /\ kind = "basic_id" => m.uaType = None
        /\ kind = "location" => m.report.flight["vspeed_mps"] = None
        /\ kind = "system" => m.op # NoOpFix /\ m.op.type = "takeoff" /\ m.opAlt = None}

French(t, mac) ==
    UNION {{<<p[1]>> \o p[2] \o p[3] :
              p \in FrenchPart(t, mac, rssi, "basic_id")
                   \X Optional(FrenchPart(t, mac, rssi, "location"))
                   \X Optional(FrenchPart(t, mac, rssi, "system"))} : rssi \in RssisOf[t]}

Packets(t, mac) == Single(t, mac) \cup Pack(t, mac) \cup French(t, mac)

-----------------------------------------------------------------------------
(* Dispatch.                                                                *)

IsBasicId(m) == m # None /\ m.kind = "basic_id"

\* What _update_tracker passes over is called for nothing.
Routed(msgs) == Restrict(msgs, {i \in DOMAIN msgs : msgs[i] # None})

\* Mutant: the sub-messages go out in the order they were packed.
AsPacked(todo, i, j) == i <= j
\* The order sorted() leaves sub-messages i and j of a packet in: Basic IDs first, the
\* rest as it was packed.
InOrder(todo, i, j) ==
    IF IsBasicId(todo[i]) = IsBasicId(todo[j]) THEN i <= j ELSE IsBasicId(todo[i])

\* Messages captured and not yet handed over.
InDispatch ==
    MapThenSumSet(LAMBDA t : IF packet[t] = None THEN 0
                             ELSE Cardinality(DOMAIN packet[t].todo), Threads)

\* The only Basic ID of a packet, or None when there is none or a choice.
SoleId(msgs) ==
    LET ids == {i \in DOMAIN msgs : IsBasicId(msgs[i])} IN
    IF \E i \in ids : ids = {i} THEN msgs[CHOOSE i \in ids : TRUE].id ELSE None

\* What each thread may have to dispatch for a packet that calls for an update at all.
\* `sole` is history: the packet's only Basic ID.
Dispatches ==
    [t \in Threads |->
        {d \in UNION {{[todo |-> Routed(msgs), sole |-> SoleId(msgs), mac |-> mac] :
                        msgs \in Packets(t, mac)} : mac \in MacsOf[t]} : DOMAIN d.todo # {}}]

\* A radio thread, back from its last packet, decodes the next one.  `since` is
\* history: when it was captured.
Capture(t) ==
    /\ packet[t] = None /\ call[t] = None /\ ~InHook(t)
    /\ clock + Patience <= RxUntil
    /\ \E d \in Dispatches[t] :
          /\ InDispatch + Cardinality(DOMAIN d.todo) <= rxLeft
          /\ packet' = [packet EXCEPT ![t] = [todo |-> d.todo, mac |-> d.mac,
                                              sole |-> d.sole, since |-> clock]]
    /\ UNCHANGED vars

\* The next sub-message reaches its update_*.
Deliver(t) ==
    /\ packet[t] # None
    /\ Receive(t)
    /\ \E i \in DOMAIN packet[t].todo :
          /\ \A j \in DOMAIN packet[t].todo : InOrder(packet[t].todo, i, j)
          /\ call'[t].msg = packet[t].todo[i]
          /\ packet' = [packet EXCEPT ![t].todo = Restrict(@, DOMAIN @ \ {i})]

\* The last update has returned: the thread waits for the next packet.
PacketEnd(t) ==
    /\ packet[t] # None /\ DOMAIN packet[t].todo = {}
    /\ call[t] = None /\ ~InHook(t)
    /\ packet' = [packet EXCEPT ![t] = None]
    /\ UNCHANGED vars

\* No packet takes longer than Patience.
FeederTick ==
    /\ \A t \in Threads : packet[t] # None => clock < packet[t].since + Patience
    /\ Tick
    /\ UNCHANGED packet

FeederInit == Init /\ packet = [t \in Threads |-> None]

FeederNext ==
    \/ FeederTick
    \/ \E t \in Threads : Capture(t) \/ Deliver(t) \/ PacketEnd(t)
    \/ /\ \/ \E t \in Threads : Update(t) \/ FireChange(t)
          \/ SweepCutoff \/ SweepEvict \/ SweepExit
          \/ \E u \in UasIds : FireExpire(u)
          \/ Stop
       /\ UNCHANGED packet

FeederSpec == FeederInit /\ [][FeederNext]_feederVars

-----------------------------------------------------------------------------
(* Properties.                                                              *)

\* Whatever the order on the air, every update of a packet with one Basic ID is
\* credited to that id -- never to the drone its address belonged to before -- and none
\* is dropped, although the sweeper and the other radio, whose late update may take the
\* drone's stamp back, run between two calls of the packet (ble_feeder.py:316-320,
\* wifi_feeder.py:841-847).
PackAttributed ==
    [][\A t \in Threads :
          packet[t] # None /\ packet[t].sole # None /\ call[t] # None /\ call'[t] = None
              => hook' # None /\ hook'.id = packet[t].sole]_feederVars

=============================================================================
