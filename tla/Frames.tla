------------------------------- MODULE Frames -------------------------------
(***************************************************************************)
(* What the radios make of the bytes they receive: the frame and element    *)
(* walkers of wifi_feeder.py, extract_rid_payload of ble_feeder.py, and the *)
(* decoders both share in shape.  A byte string is a sequence of 0..255;    *)
(* coordinates stay in the 1e-7 degrees of the wire, speeds in quarters of  *)
(* a metre per second and altitudes in half metres, so that nothing is      *)
(* rounded.  Every length below comes off the air.                          *)
(***************************************************************************)
EXTENDS Integers, Sequences, FiniteSetsExt

CONSTANT None

\* What a Location says.
Location == [lat : Int, lon : Int, speed : Int, heading : Int, climb : Int,
             alt : Int \cup {None}, height : Int \cup {None}]

\* What the other messages say, a message of any type, and what a payload is decoded to.
Identity == [idType : Int, uaType : Int, id : Seq(Int)]
System == [op : [lat : Int, lon : Int, type : Int] \cup {None}, alt : Int \cup {None}]
Note == [text : Seq(Int)]
Message == [type : Int, fields : Identity \cup Location \cup System \cup Note \cup {None}]
Decoded == Message \cup [type : Int, fields : Seq(Message \cup {None})]

ASSUME NoneIsNoData ==
    None \notin Int /\ None \notin Seq(Int) /\ None \notin Location /\ None \notin Decoded

AstmOui == <<250, 11, 188>>
ParrotOui == <<144, 58, 230>>
FrdidOui == <<106, 92, 53>>
NanOui == <<80, 111, 154>>
OdidService == <<136, 105, 25, 157, 146, 9>>

\* Python's b[i], b[i:j] and b[i:].
Byte(b, i) == b[i + 1]
Slice(b, i, j) == SubSeq(b, i + 1, IF j < Len(b) THEN j ELSE Len(b))
Rest(b, i) == SubSeq(b, i + 1, Len(b))

\* x & mask, for a power of two.
Bit(x, mask) == (x \div mask) % 2 = 1
Uint16(b, i) == Byte(b, i) + 256 * Byte(b, i + 1)
Signed(x) == IF x < 128 THEN x ELSE x - 256
Int32(b, i) ==
    Byte(b, i) + 256 * Byte(b, i + 1) + 65536 * Byte(b, i + 2) + 16777216 * Signed(Byte(b, i + 3))
Reversed(b) == [i \in DOMAIN b |-> b[Len(b) + 1 - i]]

-----------------------------------------------------------------------------
(* The walkers.                                                             *)

\* The values the offset of a walk takes, where end[o] is the end of an item that begins at
\* o: the walk stops at an item that overruns.
Offsets(end, from) ==
    LET visited[o \in DOMAIN end] ==
            {o} \cup IF end[o] \in DOMAIN end THEN visited[end[o]] ELSE {}
    IN IF from \in DOMAIN end THEN visited[from] ELSE {}

\* Where the items begin that are there as a whole.
Items(end, from) == {o \in Offsets(end, from) : end[o] \in DOMAIN end}

\* Type and length in a byte each.
ElementEnds(b) ==
    [o \in 0..Len(b) |-> IF o + 2 > Len(b) THEN Len(b) + 1 ELSE o + 2 + Byte(b, o + 1)]
Value(b, o) == Slice(b, o + 2, o + 2 + Byte(b, o + 1))

\* Type in a byte, length in two.
AttributeEnds(b) ==
    [o \in 0..Len(b) |-> IF o + 3 > Len(b) THEN Len(b) + 1 ELSE o + 3 + Uint16(b, o + 1)]
AttributeValue(b, o) == Slice(b, o + 3, o + 3 + Uint16(b, o + 1))

-----------------------------------------------------------------------------
(* Beacons.                                                                 *)

\* Mutant: an element that overruns the body is taken as far as it goes.
VendorElementsCut(body) ==
    {o \in Offsets(ElementEnds(body), 12) : o + 2 <= Len(body) /\ Byte(body, o) = 221}
\* The vendor elements of a beacon, up to the first element that overruns the body.
VendorElements(body) == {o \in Items(ElementEnds(body), 12) : Byte(body, o) = 221}

IsMessagePack(b) ==
    /\ Len(b) >= 3 /\ Byte(b, 0) \div 16 = 15 /\ Byte(b, 1) = 25
    /\ Byte(b, 2) \in 1..9 /\ Len(b) >= 3 + Byte(b, 2) * 25

CarriesRid(info) ==
    /\ Len(info) >= 6
    /\ \/ Slice(info, 0, 3) = AstmOui /\ Byte(info, 3) = 13
       \/ Slice(info, 0, 3) = ParrotOui /\ IsMessagePack(Rest(info, 5))

CarriesFrdid(info) == Len(info) > 4 /\ Slice(info, 0, 3) = FrdidOui /\ Byte(info, 3) = 1

ExtractBeaconRid(body) ==
    LET those == {o \in VendorElements(body) : CarriesRid(Value(body, o))} IN
    IF those = {} THEN None ELSE Rest(Value(body, Min(those)), 5)

ExtractBeaconFrdid(body) ==
    LET those == {o \in VendorElements(body) : CarriesFrdid(Value(body, o))} IN
    IF those = {} THEN None ELSE Rest(Value(body, Min(those)), 4)

-----------------------------------------------------------------------------
(* The French TLVs.                                                         *)

\* Mutant: the last field may overrun the payload.
TiledCut(b) == TRUE
\* Whether fields fill the payload to its last byte.
Tiled(b) == Len(b) \in Offsets(ElementEnds(b), 0)

\* The fields of the payload, the last of each type.
Tlvs(b) ==
    LET begins(t) == {o \in Items(ElementEnds(b), 0) : Byte(b, o) = t} IN
    [t \in {Byte(b, o) : o \in Items(ElementEnds(b), 0)} |-> Value(b, Max(begins(t)))]

\* Text ends at the first NUL; what decode and strip do with odd bytes is left out.
Text(fields, t) ==
    IF t \notin DOMAIN fields THEN <<>>
    ELSE LET nuls == {i \in DOMAIN fields[t] : fields[t][i] = 0} IN
         IF nuls = {} THEN fields[t] ELSE SubSeq(fields[t], 1, Min(nuls) - 1)

\* A big-endian int32, when the field has its size.
Coordinate(fields, t) ==
    IF t \in DOMAIN fields /\ Len(fields[t]) = 4 THEN Int32(Reversed(fields[t]), 0) ELSE None

Within(x, limit) == x # None /\ -limit <= x /\ x <= limit

Point(fields, lat, lon) ==
    LET at == <<Coordinate(fields, lat), Coordinate(fields, lon)>> IN
    IF Within(at[1], 9000000) /\ Within(at[2], 18000000) THEN at ELSE None

\* The id _on_frdid reports, the serial number before the French one, and the two points.
ParseFrdid(b) ==
    LET fields == Tlvs(b) IN
    IF ~Tiled(b) \/ (Text(fields, 2) = <<>> /\ Text(fields, 3) = <<>>) THEN None
    ELSE [id |-> IF Text(fields, 3) # <<>> THEN Text(fields, 3) ELSE Text(fields, 2),
          serial |-> Text(fields, 3) # <<>>,
          position |-> Point(fields, 4, 5), takeoff |-> Point(fields, 8, 9)]

-----------------------------------------------------------------------------
(* NAN action frames.                                                       *)

IsNanAction(body) ==
    /\ Len(body) >= 6
    /\ Byte(body, 0) = 4 /\ Slice(body, 2, 5) = NanOui /\ Byte(body, 5) = 19
    /\ \E i \in 0..58 : Slice(body, i, i + 6) = OdidService

\* Behind an optional field: past the end when the field itself is.
Past(sda, at, present) ==
    IF present /\ at < Len(sda) THEN at + 1 + Byte(sda, at) ELSE at

\* Mutant: the binding bitmap is not passed over.
ServiceInfoUnbound(sda) ==
    Past(sda, Past(sda, 9, Bit(Byte(sda, 8), 4)), Bit(Byte(sda, 8), 8))
\* Where the service info of a descriptor is.
ServiceInfoAt(sda) ==
    LET bitmap == IF Bit(Byte(sda, 8), 64) THEN 11 ELSE 9 IN
    Past(sda, Past(sda, bitmap, Bit(Byte(sda, 8), 4)), Bit(Byte(sda, 8), 8))

\* Whether a descriptor has an ODID service info, with a counter and a byte at least.
CarriesOdid(sda) ==
    /\ Len(sda) >= 9 /\ Slice(sda, 0, 6) = OdidService /\ Bit(Byte(sda, 8), 16)
    /\ LET at == ServiceInfoAt(sda) IN
       at < Len(sda) /\ Byte(sda, at) >= 2 /\ at + 1 + Byte(sda, at) <= Len(sda)

ServiceInfo(sda) ==
    LET at == ServiceInfoAt(sda) IN Slice(sda, at + 2, at + 1 + Byte(sda, at))

\* The ODID descriptors among the attributes from an offset on.
OdidDescriptors(body, from) ==
    {o \in Items(AttributeEnds(body), from) :
        Byte(body, o) = 3 /\ CarriesOdid(AttributeValue(body, o))}

ExtractNanOdid(body) ==
    LET those == IF OdidDescriptors(body, 6) # {} THEN OdidDescriptors(body, 6)
                                                  ELSE OdidDescriptors(body, 7)
    IN IF those = {} THEN None ELSE ServiceInfo(AttributeValue(body, Min(those)))

-----------------------------------------------------------------------------
(* Messages.                                                                *)

Trimmed(b) ==
    LET ends == {i \in DOMAIN b : b[i] # 0} IN SubSeq(b, 1, IF ends = {} THEN 0 ELSE Max(ends))

Altitude(b, i) == IF Uint16(b, i) = 0 THEN None ELSE Uint16(b, i) - 2000

ParseBasicId(b) ==
    IF Len(b) < 25 THEN None
    ELSE [idType |-> Byte(b, 1) \div 16, uaType |-> Byte(b, 1) % 16, id |-> Trimmed(Slice(b, 2, 22))]

\* Mutant: the second speed range starts at zero.
SpeedUnshifted(b) == IF Bit(Byte(b, 1), 1) THEN 3 * Byte(b, 3) ELSE Byte(b, 3)
Speed(b) == IF Bit(Byte(b, 1), 1) THEN 3 * Byte(b, 3) + 255 ELSE Byte(b, 3)

ParseLocation(b) ==
    IF Len(b) < 25 \/ ~Within(Int32(b, 5), 900000000) \/ ~Within(Int32(b, 9), 1800000000) THEN None
    ELSE [lat |-> Int32(b, 5), lon |-> Int32(b, 9), speed |-> Speed(b),
          heading |-> Byte(b, 2) + (IF Bit(Byte(b, 1), 2) THEN 180 ELSE 0),
          climb |-> Signed(Byte(b, 4)), alt |-> Altitude(b, 15), height |-> Altitude(b, 17)]

ParseSystem(b) ==
    IF Len(b) < 20 THEN None
    ELSE [op |-> IF Within(Int32(b, 2), 900000000) /\ Within(Int32(b, 6), 1800000000)
                 THEN [lat |-> Int32(b, 2), lon |-> Int32(b, 6), type |-> Byte(b, 1) % 4]
                 ELSE None,
          alt |-> Altitude(b, 18)]

ParseOperatorId(b) == IF Len(b) < 22 THEN None ELSE [text |-> Trimmed(Slice(b, 2, 22))]
ParseSelfId(b) == IF Len(b) < 25 THEN None ELSE [text |-> Trimmed(Slice(b, 2, 25))]

\* Mutant: a message that is cut off is kept.
ParsePackCut(b) ==
    IF Len(b) < 3 THEN <<>>
    ELSE [i \in 1..Byte(b, 2) |-> Slice(b, 3 + (i - 1) * Byte(b, 1), 3 + i * Byte(b, 1))]
\* The messages of a pack that are there as a whole; none is after one that is not.
ParseMessagePack(b) ==
    IF Len(b) < 3 THEN <<>>
    ELSE LET whole == {i \in 1..Byte(b, 2) : 3 + i * Byte(b, 1) <= Len(b)} IN
         [i \in whole |-> Slice(b, 3 + (i - 1) * Byte(b, 1), 3 + i * Byte(b, 1))]

\* One message; what a pack inside a pack holds is decoded too, and never looked at.
DecodeMessage(b) ==
    IF Len(b) < 2 THEN None
    ELSE LET type == Byte(b, 0) \div 16 IN
         [type |-> type,
          fields |-> CASE type = 0 -> ParseBasicId(b)
                       [] type = 1 -> ParseLocation(b)
                       [] type = 3 -> ParseSelfId(b)
                       [] type = 4 -> ParseSystem(b)
                       [] type = 5 -> ParseOperatorId(b)
                       [] OTHER -> None]

\* A message, or those of a pack, which are dropped when their size is too short for one.
DecodeRid(b) ==
    IF Len(b) < 2 \/ Byte(b, 0) \div 16 # 15 THEN DecodeMessage(b)
    ELSE LET sub == ParseMessagePack(b) IN
         [type |-> 15,
          fields |-> IF Byte(b, 1) < 2 THEN <<>> ELSE [i \in DOMAIN sub |-> DecodeMessage(sub[i])]]

\* The messages the feeders dispatch for an ODID payload.
Messages(payload) ==
    LET decoded == DecodeRid(payload) IN
    IF decoded = None THEN <<>> ELSE IF decoded.type = 15 THEN decoded.fields ELSE <<decoded>>

-----------------------------------------------------------------------------
(* Frames and advertisements.                                               *)

\* Mutant: one extra word is passed over, whatever it says.
AfterPresentFirst(b) == IF Byte(b, 7) >= 128 THEN 12 ELSE 8
\* Behind the chain of present words, the last of which does not announce another.
AfterPresent(b) ==
    LET ends == {o \in 8..Len(b) : o % 4 = 0 /\ Byte(b, o - 1) < 128} IN
    IF ends = {} THEN None ELSE Min(ends)

\* Behind a field of the first present word, aligned, if it is there.
Behind(b, mask, align, size, at) ==
    IF Bit(Byte(b, 4), mask) THEN ((at + align - 1) \div align) * align + size ELSE at

\* Where the signal is: behind the timer, flags, rate, channel and hopping fields.
SignalAt(b, first) ==
    Behind(b, 16, 1, 2, Behind(b, 8, 2, 4, Behind(b, 4, 1, 1, Behind(b, 2, 1, 1,
        Behind(b, 1, 8, 8, first)))))

ParseRadiotap(b) ==
    IF Len(b) < 8 THEN [len |-> Len(b), rssi |-> None]
    ELSE LET first == AfterPresent(b)
             at == SignalAt(b, first) IN
         [len |-> Uint16(b, 2),
          rssi |-> IF first = None THEN None
                   ELSE IF Bit(Byte(b, 4), 32) /\ at < Len(b) THEN Signed(Byte(b, at)) ELSE None]

IsManagement(frame) == Len(frame) >= 24 /\ (Byte(frame, 0) \div 4) % 4 = 0

\* What a beacon, a NAN action frame and any other frame carry.
OnBeacon(body) ==
    LET rid == ExtractBeaconRid(body)  frdid == ExtractBeaconFrdid(body) IN
    IF rid # None THEN [src |-> "wifi_beacon", what |-> Messages(rid)]
    ELSE IF frdid # None THEN [src |-> "wifi_beacon_fr", what |-> ParseFrdid(frdid)]
    ELSE None

OnAction(body) ==
    IF IsNanAction(body) /\ ExtractNanOdid(body) # None
    THEN [src |-> "wifi_nan", what |-> Messages(ExtractNanOdid(body))]
    ELSE None

\* _on_packet: what is dispatched for a frame, the address it is credited to, its level.
OnPacket(data) ==
    LET tap == ParseRadiotap(data)
        frame == Rest(data, tap.len)
        subtype == Byte(frame, 0) \div 16
    IN IF tap.len >= Len(data) \/ ~IsManagement(frame) THEN None
       ELSE [mac |-> Slice(frame, 10, 16), rssi |-> tap.rssi,
             heard |-> CASE subtype = 8  -> OnBeacon(Rest(frame, 24))
                         [] subtype = 13 -> OnAction(Rest(frame, 24))
                         [] OTHER        -> None]

\* Mutant: the counter of a pack is not stripped.
ExtractWithCounter(data) ==
    CASE Len(data) \in {26, 27} /\ Byte(data, 0) = 13 -> Rest(data, Len(data) - 25)
      [] Len(data) = 25 -> data
      [] Len(data) > 27 /\ Byte(data, 0) = 13 -> Rest(data, 1)
      [] OTHER -> None
\* extract_rid_payload, and what on_advertisement dispatches.
ExtractRidPayload(data) ==
    CASE Len(data) \in {26, 27} /\ Byte(data, 0) = 13 -> Rest(data, Len(data) - 25)
      [] Len(data) = 25 -> data
      [] Len(data) > 27 /\ Byte(data, 0) = 13 -> Rest(data, 2)
      [] OTHER -> None

OnAdvertisement(data) ==
    LET payload == ExtractRidPayload(data) IN
    IF payload = None \/ DecodeRid(payload) = None THEN None
    ELSE [src |-> IF DecodeRid(payload).type = 15 THEN "ble5" ELSE "ble", what |-> Messages(payload)]

=============================================================================
