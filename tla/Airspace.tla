------------------------------- MODULE Airspace -------------------------------
(***************************************************************************)
(* What the drone cache promises the sinks and the feed (FEED.md, producer  *)
(* obligations 1 and 5), without threads, locks, messages or MAC addresses: *)
(* a drone is present from the moment it is heard until it has been silent  *)
(* for longer than the TTL, and each time it goes its departure is notified *)
(* exactly once, one batch of departures before the next.                   *)
(***************************************************************************)
EXTENDS Integers

CONSTANTS UasIds, Ttl

VARIABLES
    clock,   \* time
    heard,   \* when each drone that is present was last heard
    owed     \* drones that have gone and whose departure is not yet notified

vars == <<clock, heard, owed>>

Init == clock = 0 /\ heard = [u \in {} |-> 0] /\ owed = {}

Tick == clock' = clock + 1 /\ UNCHANGED <<heard, owed>>

\* A drone is heard, and enters if it was not there.  The time it was heard may
\* lie in the past: hearing a drone and recording it are not one moment.
Hear(u) ==
    /\ \E at \in 0..clock :
          heard' = [v \in DOMAIN heard \cup {u} |-> IF v = u THEN at ELSE heard[v]]
    /\ UNCHANGED <<clock, owed>>

Evict(gone) ==
    /\ owed = {}
    /\ \A u \in gone : clock - heard[u] > Ttl
    /\ heard' = [u \in DOMAIN heard \ gone |-> heard[u]]
    /\ owed' = gone
    /\ UNCHANGED clock

Notify(u) ==
    /\ u \in owed
    /\ owed' = owed \ {u}
    /\ UNCHANGED <<clock, heard>>

Next ==
    \/ Tick
    \/ \E u \in UasIds : Hear(u) \/ Notify(u)
    \/ \E gone \in SUBSET DOMAIN heard : Evict(gone)

Spec == Init /\ [][Next]_vars
=============================================================================
