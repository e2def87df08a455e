\* Two radios race on two drones and two MACs while the sweeper evicts.
SPECIFICATION Spec
CONSTANTS
    ble = ble  wifi = wifi  m1 = m1  m2 = m2  u1 = u1  u2 = u2
    None = None
    Threads = {ble, wifi}
    SourceOf <- TwoRadios
    RssisOf <- Measured
    Readers = {}
    Macs = {m1, m2}
    UasIds = {u1, u2}
    IdTypes = {"serial"}
    UaTypes = {}
    Reports <- OneReport
    OpFixes = {}
    OpAlts = {}
    SelfIds = {}
    OperatorIds = {}
    Kinds = {"basic_id", "location"}
    Ttl = 1
    MaxTime = 4
    RxUntil = 2
    MaxMessages = 4
    MayStop = FALSE
SYMMETRY Symmetry
INVARIANTS MacMapSound SourcesInOrder Accounting Timely
PROPERTIES CountedOnce EvictedOnlyWhenSilent ImplementsAirspace
