------------------------------ MODULE MCFeeders ------------------------------
(* Instances of Feeders for TLC: a BLE and a Wi-Fi radio, one address each.  *)
EXTENDS Feeders

CONSTANTS ble, wifi, m1, m2, u1, u2

RadioSources ==
    [t \in {ble, wifi} |-> IF t = ble THEN {"ble5"} ELSE {"wifi_beacon_fr"}]
OneMacEach == [t \in {ble, wifi} |-> IF t = ble THEN {m1} ELSE {m2}]

\* A driver of the Wi-Fi radio that reports no signal strength.
SignalOf == [t \in {ble, wifi} |-> IF t = ble THEN {"near"} ELSE {None}]

\* A complete Location, and one whose altitude is the "unknown" sentinel, from a
\* transmitter that sends no climb rate.
TwoReports ==
    {[pos |-> "here", flight |-> [f \in FlightFields |-> "known"]],
     [pos |-> "there", flight |-> [f \in FlightFields |->
                          IF f \in {"alt_geo_m", "vspeed_mps"} THEN None ELSE "known"]]}

\* A takeoff point and a live operator position, each with its type.
TwoOpFixes == {[pos |-> "home", type |-> "takeoff"], [pos |-> "pilot", type |-> "live_gnss"]}
=============================================================================
