\* Every structure up to the bounds, encoded, cut anywhere, and received once.
SPECIFICATION Spec
CONSTANTS
    None = None
    MaxElements = 3
    MaxFields = 3
    MaxPresent = 2
    PackSizes = {0, 2, 25}
    PackCounts = {0, 1, 2, 255}
    PackBodies <- MCPackBodies
    Latitudes <- MCLatitudes
    Longitudes <- MCLongitudes
    Speeds = {0, 255, 256, 258, 1020}
    Headings = {0, 179, 180, 359}
    Altitudes = {0, 1, 2000, 65535}
    Sent <- MCSent
INVARIANTS BeaconFound FrenchAllOrNothing NanFound PackInBounds LocationAsSent LevelFound TransportsAgree
CHECK_DEADLOCK FALSE
