------------------------------ MODULE MCTracker ------------------------------
(* Instances of Tracker for TLC: two radios, two MACs, two drones, and only  *)
(* the message types and fields the run's question needs.                    *)
EXTENDS Tracker

CONSTANTS ble, wifi, m1, m2, u1, u2

TwoRadios == [t \in {ble, wifi} |-> IF t = ble THEN {"ble"} ELSE {"wifi_beacon"}]
BleTwice  == [t \in {ble} |-> {"ble", "ble5"}]

\* A Location with everything in it, and the signal of every message measured.
OneReport == {[pos |-> "here", flight |-> [f \in FlightFields |-> "known"]]}
Measured == [t \in Threads |-> {"near"}]

\* A takeoff point and a live operator position, each with its type.
TwoOpFixes == {[pos |-> "home", type |-> "takeoff"], [pos |-> "pilot", type |-> "live_gnss"]}

Symmetry == Permutations({m1, m2}) \cup Permutations({u1, u2})
=============================================================================
