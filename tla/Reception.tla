------------------------------ MODULE Reception ------------------------------
(***************************************************************************)
(* What a transmitter sends, encoded as its standard says and cut anywhere, *)
(* and what the radios make of it.  Each step receives one transmission;    *)
(* the properties compare the outcome with the structure that was encoded,  *)
(* which the walkers of Frames never see.                                   *)
(***************************************************************************)
EXTENDS Frames, SequencesExt

CONSTANTS
    MaxElements,   \* bound: elements of a beacon
    MaxFields,     \* bound: TLVs of a French payload
    MaxPresent,    \* bound: extra present words of a radiotap header
    PackSizes, PackCounts, PackBodies, \* what packs claim, and what follows
    Latitudes, Longitudes, Speeds, Headings, Altitudes, \* what Locations say
    Sent           \* payloads that are sent over every transport

IsInt32(x) == x \in Int /\ -2147483647 - 1 <= x /\ x <= 2147483647
IsUint16(x) == x \in Int /\ 0 <= x /\ x <= 65535

ASSUME BoundsOK == MaxElements \in Nat /\ MaxFields \in Nat /\ MaxPresent \in Nat

ASSUME PacksOK ==
    /\ PackSizes \subseteq 0..255 /\ PackCounts \subseteq 0..255
    /\ \A body \in PackBodies : body \in Seq(0..255)

ASSUME LocationsOK ==
    /\ \A x \in Latitudes \cup Longitudes : IsInt32(x)
    /\ \A x \in Altitudes : IsUint16(x)
    /\ \A x \in Speeds : x \in 0..1020
    /\ \A x \in Headings : x \in 0..359

\* A message, and a Message Pack of one to nine of them.
IsSingle(p) == Len(p) = 25 /\ p[1] \div 16 # 15
IsPack(p) ==
    /\ Len(p) >= 28 /\ p[1] \div 16 = 15 /\ p[2] = 25 /\ p[3] \in 1..9
    /\ Len(p) = 3 + 25 * p[3]

ASSUME SentOK == \A p \in Sent : p \in Seq(0..255) /\ (IsSingle(p) \/ IsPack(p))

VARIABLE
    rx   \* the last transmission and what was made of it, or None

Zeros(n) == [i \in 1..n |-> 0]
Cut(b, n) == SubSeq(b, 1, n)
UpTo(S, n) == UNION {[1..k -> S] : k \in 0..n}
Joined(f, Encode(_)) == FlattenSeq([i \in DOMAIN f |-> Encode(f[i])])

\* Bytes of an int32, little-endian.
Int32Bytes(x) ==
    LET low == x % 16777216 IN
    <<low % 256, (low \div 256) % 256, low \div 65536, (x \div 16777216) % 256>>
Uint16Bytes(x) == <<x % 256, x \div 256>>

\* Messages of 25 bytes and a pack of two.
BasicId == <<2, 18>> \o <<65, 66>> \o Zeros(21)
Located(lat, lon) == <<16, 0, 90, 40, 255>> \o Int32Bytes(lat) \o Int32Bytes(lon) \o Zeros(12)
PackOf(messages) == <<240, 25, Len(messages)>> \o FlattenSeq(messages)
AnyPack == PackOf(<<Located(1, 2), BasicId>>)

Expect(path, input, output) == rx' = [path |-> path, input |-> input, output |-> output]

-----------------------------------------------------------------------------
(* Beacons: a chain of elements, cut anywhere.                              *)

Elements == {"ssid", "astm", "astm_short", "astm_other", "parrot", "parrot_single", "french"}

Info(e) ==
    CASE e = "ssid"          -> <<82, 73, 68>>
      [] e = "astm"          -> AstmOui \o <<13, 7>> \o BasicId
      [] e = "astm_short"    -> AstmOui \o <<13, 7>>
      [] e = "astm_other"    -> AstmOui \o <<14, 7>> \o BasicId
      [] e = "parrot"        -> ParrotOui \o <<1, 7>> \o AnyPack
      [] e = "parrot_single" -> ParrotOui \o <<1, 7>> \o BasicId
      [] e = "french"        -> FrdidOui \o <<1, 3, 1, 65>>

Element(e) == <<IF e = "ssid" THEN 0 ELSE 221, Len(Info(e))>> \o Info(e)
Chain(elements) == Zeros(12) \o Joined(elements, Element)

\* What is on the air as a whole: the elements that end before the cut.
Whole(elements, n) ==
    {i \in DOMAIN elements : Len(Chain(SubSeq(elements, 1, i))) <= n}

\* The first of these elements that is of a kind, as the bytes behind its header.
FirstWhole(elements, n, kinds, header) ==
    LET those == {i \in Whole(elements, n) : elements[i] \in kinds} IN
    IF those = {} THEN None ELSE Rest(Info(elements[Min(those)]), header)

ReceiveBeacon ==
    /\ rx = None
    /\ \E elements \in UpTo(Elements, MaxElements) : \E n \in 0..Len(Chain(elements)) :
          Expect("beacon", [elements |-> elements, n |-> n],
                 [rid |-> ExtractBeaconRid(Cut(Chain(elements), n)),
                  frdid |-> ExtractBeaconFrdid(Cut(Chain(elements), n))])

\* Whatever surrounds them and wherever the frame was cut, the payload found is the one of
\* the first whole ASTM element, or Parrot element with a whole pack, without its send
\* counter; a cut element is never read into, and a short or foreign one is passed over
\* (wifi_feeder.py:410-469).
BeaconFound ==
    rx # None /\ rx.path = "beacon" =>
        /\ rx.output.rid = FirstWhole(rx.input.elements, rx.input.n, {"astm", "parrot"}, 5)
        /\ rx.output.frdid = FirstWhole(rx.input.elements, rx.input.n, {"french"}, 4)

-----------------------------------------------------------------------------
(* French payloads: TLVs, cut anywhere.                                     *)

Fields == {<<1, <<1>>>>, <<2, <<65, 0, 66>>>>, <<3, <<83>>>>, <<3, <<>>>>,
           <<4, Reversed(Int32Bytes(-9000000))>>, <<4, <<0, 0>>>>, <<5, Reversed(Int32Bytes(18000000))>>,
           <<5, Reversed(Int32Bytes(18000001))>>}

Tlv(f) == <<f[1], Len(f[2])>> \o f[2]
FrenchPayload(fields) == Joined(fields, Tlv)

\* The value of a type among the first k fields: that of the last one, or <<>>.
LastOf(fields, k, t) ==
    LET those == {i \in 1..k : fields[i][1] = t} IN IF those = {} THEN <<>> ELSE fields[Max(those)][2]

\* What a payload of the first k fields says: the id, and the one position there is here.
Said(fields, k) ==
    LET serial == LastOf(fields, k, 3)
        french == LastOf(fields, k, 2)
        placed == LastOf(fields, k, 4) = Reversed(Int32Bytes(-9000000))
                  /\ LastOf(fields, k, 5) = Reversed(Int32Bytes(18000000))
    IN IF serial = <<>> /\ french = <<>> THEN None
       ELSE [id |-> IF serial # <<>> THEN <<83>> ELSE <<65>>, serial |-> serial # <<>>,
             position |-> IF placed THEN <<-9000000, 18000000>> ELSE None, takeoff |-> None]

ReceiveFrench ==
    /\ rx = None
    /\ \E fields \in UpTo(Fields, MaxFields) : \E n \in 0..Len(FrenchPayload(fields)) :
          Expect("french", [fields |-> fields, n |-> n], ParseFrdid(Cut(FrenchPayload(fields), n)))

\* A payload cut inside a field says nothing at all; any other says what its fields say, the
\* last of a type counting, the serial number before the French one, a position only when
\* both its halves are whole and in range, the poles and the antimeridian included
\* (wifi_feeder.py:472-540).
FrenchAllOrNothing ==
    rx # None /\ rx.path = "french" =>
        LET fields == rx.input.fields
            whole == {k \in 0..Len(fields) : Len(FrenchPayload(SubSeq(fields, 1, k))) = rx.input.n}
        IN rx.output = IF whole = {} THEN None ELSE Said(fields, Min(whole))

-----------------------------------------------------------------------------
(* NAN action frames: attributes around a descriptor, cut anywhere.         *)

Bits(S) ==
    LET bit(k, mask) == IF k \in S THEN mask ELSE 0 IN
    bit(0, 1) + bit(1, 2) + bit(2, 4) + bit(3, 8) + bit(4, 16) + bit(5, 32) + bit(6, 64)

\* A descriptor whose control byte announces the optional fields in S, bit 4 the info.
Descriptor(S, service) ==
    LET field(k, b) == IF k \in S THEN b ELSE <<>> IN
    service \o <<1, 0, Bits(S)>> \o field(6, <<9, 9>>) \o field(2, <<2, 16, 4>>)
        \o field(3, <<1, 16>>) \o field(4, <<26, 7>> \o BasicId)

Attribute(id, b) == <<id>> \o Uint16Bytes(Len(b)) \o b
OtherService == <<1, 2, 3, 4, 5, 6>>

\* A frame in one of the two layouts, perhaps with another attribute or another
\* service's descriptor before the descriptor.
NanHead(wide) == <<4, 9>> \o NanOui \o <<19>> \o (IF wide THEN <<0>> ELSE <<>>)
NanBefore(kind) ==
    CASE kind = "none" -> <<>>
      [] kind = "master" -> Attribute(0, <<1, 2>>)
      [] kind = "service" -> Attribute(3, Descriptor({4}, OtherService))
NanBody(f) == NanHead(f.wide) \o NanBefore(f.before) \o Attribute(3, Descriptor(f.bits, OdidService))

ReceiveNan ==
    /\ rx = None
    /\ \E f \in [wide : BOOLEAN, before : {"none", "master", "service"}, bits : SUBSET {2, 3, 4, 6}] :
          \E n \in 0..Len(NanBody(f)) + 1 :
              Expect("nan", [frame |-> f, n |-> n],
                     LET body == Cut(NanBody(f) \o <<0>>, n) IN
                     IF IsNanAction(body) THEN ExtractNanOdid(body) ELSE None)

\* In either layout, with nothing, a master indication or another service's descriptor
\* in front, and whichever optional fields the descriptor has, the payload is the service
\* info without its counter, if there is one and the descriptor is there as a whole
\* (wifi_feeder.py:543-643).  Behind these the service id lies within the first 64 bytes,
\* where _is_nan_action looks for it; behind a longer attribute the frame is not walked.
NanFound ==
    rx # None /\ rx.path = "nan" =>
        rx.output = IF 4 \in rx.input.frame.bits /\ rx.input.n >= Len(NanBody(rx.input.frame))
                    THEN BasicId ELSE None

-----------------------------------------------------------------------------
(* Message Packs: any size and count on the air, cut anywhere.              *)

PackBytes(p) == Cut(<<240, p.size, p.count>> \o p.body, p.n)

ReceivePack ==
    /\ rx = None
    /\ \E size \in PackSizes, count \in PackCounts, body \in PackBodies : \E n \in 0..Len(body) + 3 :
          LET p == [size |-> size, count |-> count, body |-> body, n |-> n] IN
          Expect("pack", p, ParseMessagePack(PackBytes(p)))

\* What the size and the count claim, the messages cut from a pack are as long as it says,
\* one behind the other, and as many as are there: none is read beyond the payload.
PackInBounds ==
    rx # None /\ rx.path = "pack" =>
        LET p == rx.input  out == rx.output IN
        /\ \A i \in DOMAIN out : Len(out[i]) = p.size
        /\ p.n >= 3 => IsPrefix(<<240, p.size, p.count>> \o FlattenSeq(out), PackBytes(p))
        /\ Len(out) < p.count => p.n < 3 + (Len(out) + 1) * p.size

-----------------------------------------------------------------------------
(* Locations.                                                               *)

\* The standard's encoding of a speed in quarters of a metre per second.
SpeedBytes(v) == IF v <= 255 THEN [mult |-> 0, byte |-> v] ELSE [mult |-> 1, byte |-> (v - 255) \div 3]

LocationBytes(l) ==
    LET speed == SpeedBytes(l.speed) IN
    <<16, speed.mult + (IF l.heading >= 180 THEN 2 ELSE 0), l.heading % 180, speed.byte, 255>>
        \o Int32Bytes(l.lat) \o Int32Bytes(l.lon) \o Zeros(2)
        \o Uint16Bytes(l.alt) \o Uint16Bytes(0) \o Zeros(6)

ReceiveLocation ==
    /\ rx = None
    /\ \E l \in [lat : Latitudes, lon : Longitudes, speed : Speeds, heading : Headings, alt : Altitudes] :
          Expect("location", l, ParseLocation(LocationBytes(l)))

OnGlobe(l) == Within(l.lat, 900000000) /\ Within(l.lon, 1800000000)

AsSent(l, out) ==
    /\ out.lat = l.lat /\ out.lon = l.lon /\ out.heading = l.heading
    /\ l.speed - out.speed \in 0..(IF l.speed <= 255 THEN 0 ELSE 2)
    /\ out.alt = (IF l.alt = 0 THEN None ELSE l.alt - 2000) /\ out.height = None

\* A position is reported as it was sent when it is on the globe and not at all otherwise;
\* its heading comes back whole, its speed within the step of its range, and an altitude
\* that was not sent stays unknown (wifi_feeder.py:152-209).
LocationAsSent ==
    rx # None /\ rx.path = "location" =>
        IF OnGlobe(rx.input) THEN rx.output # None /\ AsSent(rx.input, rx.output)
                             ELSE rx.output = None

-----------------------------------------------------------------------------
(* Radiotap headers: any fields before the signal, cut anywhere.            *)

Level == 200
Padding(at, align) == Zeros((align - (at % align)) % align)

\* The fields b, which begin at `at`, and behind them field `bit` of a driver that writes S.
Put(S, at, b, bit, align, size) ==
    IF bit \in S THEN b \o Padding(at + Len(b), align) \o [i \in 1..size |-> 100 + bit] ELSE b

TapFields(S, at) ==
    LET timer == Put(S, at, <<>>, 0, 8, 8)
        flags == Put(S, at, timer, 1, 1, 1)
        rate == Put(S, at, flags, 2, 1, 1)
        channel == Put(S, at, rate, 3, 2, 4)
    IN Put(S, at, channel, 4, 1, 2)

\* The last extra word has the bit of the signal set and no word behind it.
Present(S, extra) ==
    <<Bits(S), 0, 0, IF extra = 0 THEN 0 ELSE 128>>
        \o FlattenSeq([i \in 1..extra |-> <<32, 0, 0, IF i = extra THEN 0 ELSE 128>>])

TapBytes(S, extra) ==
    LET head == <<0, 0, 0, 0>> \o Present(S, extra)
        before == head \o TapFields(S, Len(head)) IN
    before \o (IF 5 \in S THEN <<Level>> ELSE <<>>)

ReceiveTap ==
    /\ rx = None
    /\ \E S \in SUBSET (0..5) : \E extra \in 0..MaxPresent : \E n \in 0..Len(TapBytes(S, extra)) :
          Expect("radiotap", [fields |-> S, extra |-> extra, n |-> n],
                 ParseRadiotap(Cut(TapBytes(S, extra), n)).rssi)

\* The level is found behind every combination of fields, their padding and a chain of
\* present words, and is unknown when it is not there or cut off (wifi_feeder.py:323-375).
LevelFound ==
    rx # None /\ rx.path = "radiotap" =>
        LET whole == Len(TapBytes(rx.input.fields, rx.input.extra)) IN
        rx.output = IF 5 \in rx.input.fields /\ rx.input.n = whole THEN Level - 256 ELSE None

-----------------------------------------------------------------------------
(* One message over every transport.                                        *)

Address == <<2, 0, 0, 0, 0, 17>>
Tap == <<0, 0, 9, 0, 32, 0, 0, 0, Level>>
Frame(control, body) == Tap \o <<control>> \o Zeros(9) \o Address \o Zeros(8) \o body
Controls == {128, 208, 64, 8, 132}

BeaconBody(payload) ==
    Zeros(12) \o <<0, 1, 65, 221, 5 + Len(payload)>> \o AstmOui \o <<13, 7>> \o payload
ActionBody(payload) ==
    NanHead(FALSE) \o Attribute(3, OdidService \o <<1, 0, 16, 1 + Len(payload), 7>> \o payload)

ReceiveSent ==
    /\ rx = None
    /\ \E payload \in Sent : \E control \in Controls : \E legacy \in {<<>>, <<13>>, <<13, 7>>} :
          Expect("sent", [payload |-> payload, control |-> control, legacy |-> legacy],
                 [beacon |-> OnPacket(Frame(control, BeaconBody(payload))),
                  action |-> OnPacket(Frame(control, ActionBody(payload))),
                  ble |-> OnAdvertisement(legacy \o payload)])

\* The same payload is dispatched as the same messages whether it came in a beacon, a NAN
\* frame or an advertisement, under the transmitter's address, level and the transport it
\* came by -- and by no frame that is not one of these, but that a NAN body under a beacon's
\* header is walked for elements, of which the first reaches beyond 139 bytes of payload
\* (wifi_feeder.py:812-941, ble_feeder.py:278-320).  Both feeders decode what they have
\* extracted with a copy of the same decoders, which is modelled once: this is about what
\* each transport extracts.
TransportsAgree ==
    rx # None /\ rx.path = "sent" =>
        LET pack == IsPack(rx.input.payload)
            sent == Messages(rx.input.payload)
            Credited(out, control, src) ==
                IF rx.input.control \in {8, 132} THEN out = None
                ELSE /\ out.mac = Address /\ out.rssi = Level - 256
                     /\ out.heard = IF rx.input.control = control
                                    THEN [src |-> src, what |-> sent] ELSE None
        IN /\ sent # <<>>
           /\ Credited(rx.output.beacon, 128, "wifi_beacon")
           /\ rx.input.control # 128 \/ Len(rx.input.payload) < 140 =>
                 Credited(rx.output.action, 208, "wifi_nan")
           /\ Len(rx.input.legacy) = 2 \/ ~pack =>
                 rx.output.ble = [src |-> IF pack THEN "ble5" ELSE "ble", what |-> sent]

-----------------------------------------------------------------------------

Init == rx = None
Next ==
    \/ ReceiveBeacon \/ ReceiveFrench \/ ReceiveNan \/ ReceivePack
    \/ ReceiveLocation \/ ReceiveTap \/ ReceiveSent

Spec == Init /\ [][Next]_rx

=============================================================================
