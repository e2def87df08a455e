\* ODID packs over BLE and French beacons over Wi-Fi for two drones.
SPECIFICATION FeederSpec
CONSTANTS
    ble = ble  wifi = wifi  m1 = m1  m2 = m2  u1 = u1  u2 = u2
    None = None
    Threads = {ble, wifi}
    SourceOf <- RadioSources
    RssisOf <- SignalOf
    MacsOf <- OneMacEach
    Readers = {}
    Macs = {m1, m2}
    UasIds = {u1, u2}
    IdTypes = {"serial"}
    UaTypes = {"rotor", "glider"}
    Reports <- TwoReports
    OpFixes <- TwoOpFixes
    OpAlts = {}
    SelfIds = {"survey"}
    OperatorIds = {}
    Kinds = {"basic_id", "location", "system", "self_id", "operator_id"}
    PackMax = 2
    Patience = 1
    Ttl = 2
    MaxTime = 5
    RxUntil = 2
    MaxMessages = 3
    MayStop = FALSE
INVARIANTS TypeOK Dated OperatorLabelled FlightOfPosition
PROPERTIES IdentityWriteOnce NeverForgotten PackAttributed
CHECK_DEADLOCK FALSE
