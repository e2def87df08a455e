------------------------------ MODULE Lifecycle ------------------------------
(***************************************************************************)
(* The process and its two radios: dump3411.py main(), the Wi-Fi thread     *)
(* that puts its adapter into monitor mode and gives it back, the BLE       *)
(* thread that scans under a retry loop, and the supervisor that starts the *)
(* process again after a failure (dump3411.service).  The radios share the  *)
(* rfkill switch; the main thread exits a fixed time after it has told the  *)
(* Wi-Fi thread to stop, and daemon threads die with the process.           *)
(***************************************************************************)
EXTENDS Integers

CONSTANTS
    LoopTime,     \* the longest the capture loop takes from one look at the stop flag to the next
    RestoreTime,  \* the longest restore_managed_mode() takes
    Grace,        \* what main() sleeps before it exits
    DelayMin, DelayMax,  \* RETRY_DELAY_MIN, RETRY_DELAY_MAX
    MayReset,     \* whether the Bluetooth controller may be reset under a scan
    MaxFaults     \* bound: things that go wrong in a behaviour

\* The receive timeout is 1 s, three commands give the adapter back, the sleep is 1.5 s.
ASSUME GraceIsEnough ==
    /\ LoopTime \in Nat /\ RestoreTime \in Nat /\ Grace \in Nat
    /\ LoopTime + RestoreTime < Grace

ASSUME BoundsOK ==
    /\ DelayMin \in Nat /\ DelayMax \in Nat /\ MaxFaults \in Nat
    /\ DelayMin <= DelayMax /\ MayReset \in BOOLEAN

VARIABLES
    main,      \* what the main thread is at, or how the process ended
    mainLeft,  \* what is left of the sleep before the exit
    wifi,      \* what the Wi-Fi thread is at
    wifiLeft,  \* what it may still take for that
    adapter,   \* the Wi-Fi adapter: plugged in, mode, link
    captured,  \* history: the capture loop was entered in this process
    covered,   \* history: it had been entered when the process was told to stop
    ble,       \* what the BLE thread is at
    delay,     \* its retry delay
    controller,\* the Bluetooth controller: "blocked" by rfkill, "powering" up, "ready"
    hearing,   \* whether the controller runs a scan for this process
    faults     \* things that may still go wrong (a bound)

mainVars == <<main, mainLeft>>
wifiVars == <<wifi, wifiLeft, captured>>
bleVars  == <<ble, delay, hearing>>
vars == <<mainVars, wifiVars, adapter, covered, bleVars, controller, faults>>

Alive == main \in {"starting", "connecting", "serving", "stopping", "sleeping"}

Managed == [plugged |-> TRUE, mode |-> "managed", up |-> TRUE]

\* set_monitor_mode() and the socket, one command after the other; and the way back.
Setup == {"check", "down", "monitor", "up", "open"}
\* Mutant: the type is set on a link that is up.
AfterSetupUp ==
    [check |-> "monitor", down |-> "monitor", monitor |-> "up", up |-> "open", open |-> "receiving"]
AfterSetup ==
    [check |-> "down", down |-> "monitor", monitor |-> "up", up |-> "open", open |-> "receiving"]
GivingBack == {"give_down", "give_managed", "give_up"}
AfterGiving == [give_down |-> "give_managed", give_managed |-> "give_up", give_up |-> "dead"]

\* Whether a command can succeed: the adapter is there, and the type of a link that is
\* up cannot be set.
Works(step, a) == a.plugged /\ (step \in {"monitor", "give_managed"} => ~a.up)

\* What a command makes of the adapter.
Commanded(step, a) ==
    IF ~Works(step, a) THEN a
    ELSE [plugged |-> TRUE,
          mode |-> IF step = "monitor" THEN "monitor"
                   ELSE IF step = "give_managed" THEN "managed" ELSE a.mode,
          up |-> (a.up /\ step \notin {"down", "give_down"}) \/ step \in {"up", "give_up"}]

Init ==
    /\ main = "starting" /\ mainLeft = 0
    /\ wifi = "off" /\ wifiLeft = 0 /\ captured = FALSE /\ covered = FALSE
    /\ adapter = Managed
    /\ ble = "off" /\ delay = DelayMin /\ hearing = FALSE
    /\ controller \in {"blocked", "ready"}
    /\ faults = MaxFaults

-----------------------------------------------------------------------------
(* The main thread and the supervisor.                                      *)

\* The process is gone and its threads with it; the controller drops the scan.
ProcessEnds(how) ==
    /\ main' = how /\ mainLeft' = 0
    /\ wifi' = "off" /\ wifiLeft' = 0
    /\ ble' = "off" /\ delay' = DelayMin /\ hearing' = FALSE
    /\ UNCHANGED <<adapter, controller, captured, covered>>

StartThreads ==
    /\ main = "starting" /\ wifi = "off"
    /\ wifi' = "check" /\ ble' = "starting"
    /\ UNCHANGED <<mainVars, wifiLeft, captured, adapter, covered, delay, hearing, controller, faults>>

\* make_server binds the port.
Bind ==
    /\ main = "starting" /\ wifi # "off"
    /\ main' = "connecting"
    /\ UNCHANGED <<mainLeft, wifiVars, adapter, covered, bleVars, controller, faults>>

\* The port is taken: nothing catches the OSError, the radios have been started.
BindFails ==
    /\ main = "starting" /\ wifi # "off" /\ faults > 0
    /\ faults' = faults - 1
    /\ ProcessEnds("crashed")

\* publisher.start() has connected, or given up, and the signal handlers are set.
Serve ==
    /\ main = "connecting"
    /\ main' = "serving"
    /\ UNCHANGED <<mainLeft, wifiVars, adapter, covered, bleVars, controller, faults>>

\* SIGTERM or SIGINT is handled; a signal that comes before its handler is set, a
\* SIGKILL or a power cut ends the process at once.
Terminate ==
    /\ faults > 0 /\ faults' = faults - 1
    /\ \/ main = "serving" /\ main' = "stopping"
          /\ UNCHANGED <<mainLeft, wifiVars, adapter, covered, bleVars, controller>>
       \/ Alive /\ ProcessEnds("killed")

\* The `finally` of main(): wifi.stop(), the sinks, and a sleep.
StopAll ==
    /\ main = "stopping"
    /\ main' = "sleeping" /\ mainLeft' = Grace
    /\ covered' = captured
    /\ UNCHANGED <<wifiVars, adapter, bleVars, controller, faults>>

\* Mutant: the process does not wait for its daemon threads.
ExitAtOnce == main = "sleeping" /\ ProcessEnds("exited") /\ UNCHANGED faults
Exit ==
    /\ main = "sleeping" /\ mainLeft = 0
    /\ ProcessEnds("exited") /\ UNCHANGED faults

\* systemd restarts what crashed; what was stopped is started by hand.
Start ==
    /\ main = "crashed" \/ (main \in {"exited", "killed"} /\ faults > 0)
    /\ faults' = IF main = "crashed" THEN faults ELSE faults - 1
    /\ main' = "starting"
    /\ captured' = FALSE /\ covered' = FALSE
    /\ UNCHANGED <<mainLeft, wifi, wifiLeft, adapter, bleVars, controller>>

-----------------------------------------------------------------------------
(* The Wi-Fi thread.                                                        *)

\* The next command of set_monitor_mode() succeeds, or the socket opens.
SetupStep ==
    /\ wifi \in Setup
    /\ wifi = "check" \/ Works(wifi, adapter)
    /\ adapter' = Commanded(wifi, adapter)
    /\ wifi' = AfterSetup[wifi]
    /\ wifiLeft' = IF wifi = "open" THEN LoopTime ELSE 0
    /\ captured' = (wifi = "open")
    /\ controller' = IF wifi = "check" /\ controller = "blocked" THEN "powering" ELSE controller
    /\ UNCHANGED <<mainVars, covered, bleVars, faults>>

\* The adapter carries the default route, or a command returns an error (check=True):
\* the exception is outside the try, and the thread ends with the adapter as it is.
SetupFails ==
    /\ wifi \in Setup
    /\ \/ wifi # "check" /\ ~Works(wifi, adapter) /\ UNCHANGED faults
       \/ faults > 0 /\ faults' = faults - 1
    /\ wifi' = "dead"
    /\ UNCHANGED <<mainVars, wifiLeft, captured, adapter, covered, bleVars, controller>>

\* recv() returns a frame or times out, and the loop looks at the stop flag.
Received ==
    /\ wifi = "receiving" /\ adapter.plugged
    /\ IF main = "sleeping"
       THEN wifi' = "give_down" /\ wifiLeft' = RestoreTime
       ELSE wifi' = wifi /\ wifiLeft' = LoopTime
    /\ UNCHANGED <<mainVars, captured, adapter, covered, bleVars, controller, faults>>

\* Mutant: an error of the socket ends the thread without the `finally`.
ReceiveDies ==
    /\ wifi = "receiving"
    /\ \/ ~adapter.plugged /\ UNCHANGED faults
       \/ faults > 0 /\ faults' = faults - 1
    /\ wifi' = "dead"
    /\ UNCHANGED <<mainVars, wifiLeft, captured, adapter, covered, bleVars, controller>>
\* recv() raises: the adapter is gone, or somebody took the link down.
ReceiveFails ==
    /\ wifi = "receiving"
    /\ \/ ~adapter.plugged /\ UNCHANGED faults
       \/ faults > 0 /\ faults' = faults - 1
    /\ wifi' = "give_down" /\ wifiLeft' = RestoreTime
    /\ UNCHANGED <<mainVars, captured, adapter, covered, bleVars, controller>>

\* The next command of restore_managed_mode(), which does not look at the result.
GiveBack ==
    /\ wifi \in GivingBack
    /\ adapter' = Commanded(wifi, adapter)
    /\ wifi' = AfterGiving[wifi]
    /\ UNCHANGED <<mainVars, wifiLeft, captured, covered, bleVars, controller, faults>>

\* The USB adapter is pulled out, and comes back as the kernel sets it up, but not
\* before recv() has noticed that it went.
Unplug ==
    /\ adapter.plugged /\ faults > 0 /\ faults' = faults - 1
    /\ adapter' = [adapter EXCEPT !.plugged = FALSE]
    /\ UNCHANGED <<mainVars, wifiVars, covered, bleVars, controller>>
Plug ==
    /\ ~adapter.plugged /\ wifi # "receiving"
    /\ adapter' = Managed
    /\ UNCHANGED <<mainVars, wifiVars, covered, bleVars, controller, faults>>

\* A unit of time passes: no thread takes longer than it may.
Timed == wifi \in {"receiving"} \cup GivingBack
Floor(n) == IF n > 0 THEN n - 1 ELSE 0
Tick ==
    /\ Timed => wifiLeft > 0
    /\ wifiLeft' = Floor(wifiLeft) /\ mainLeft' = Floor(mainLeft)
    /\ UNCHANGED <<main, wifi, captured, adapter, covered, bleVars, controller, faults>>

-----------------------------------------------------------------------------
(* The BLE thread.                                                          *)

\* The scanner comes up: only now does the delay start from the minimum again.
ScanStarts ==
    /\ ble = "starting" /\ controller = "ready"
    /\ ble' = "scanning" /\ hearing' = TRUE /\ delay' = DelayMin
    /\ UNCHANGED <<mainVars, wifiVars, adapter, covered, controller, faults>>

\* Mutant: the exception escapes run(), and the thread is over.
ScanEscapes ==
    /\ ble = "starting" /\ controller # "ready"
    /\ ble' = "dead"
    /\ UNCHANGED <<mainVars, wifiVars, adapter, covered, delay, hearing, controller, faults>>
\* BlueZ raises, NotReady most often: wait, then build another scanner.
ScanFails ==
    /\ ble = "starting"
    /\ \/ controller # "ready" /\ UNCHANGED faults
       \/ faults > 0 /\ faults' = faults - 1
    /\ ble' = "waiting"
    /\ UNCHANGED <<mainVars, wifiVars, adapter, covered, delay, hearing, controller>>

Smaller(a, b) == IF a < b THEN a ELSE b
\* Mutant: the delay is not capped.
RetryUncapped ==
    /\ ble = "waiting"
    /\ ble' = "starting" /\ delay' = delay * 2
    /\ UNCHANGED <<mainVars, wifiVars, adapter, covered, hearing, controller, faults>>
Retry ==
    /\ ble = "waiting"
    /\ ble' = "starting" /\ delay' = Smaller(delay * 2, DelayMax)
    /\ UNCHANGED <<mainVars, wifiVars, adapter, covered, hearing, controller, faults>>

PoweredUp ==
    /\ controller = "powering"
    /\ controller' = "ready"
    /\ UNCHANGED <<mainVars, wifiVars, adapter, covered, bleVars, faults>>

\* The controller or bluetoothd is restarted: the scan is gone and nothing raises.
Reset ==
    /\ controller = "ready" /\ faults > 0 /\ faults' = faults - 1
    /\ ble = "scanning" => MayReset
    /\ controller' = "powering" /\ hearing' = FALSE
    /\ UNCHANGED <<mainVars, wifiVars, adapter, covered, ble, delay>>

-----------------------------------------------------------------------------

Next ==
    \/ StartThreads \/ Bind \/ BindFails \/ Serve \/ Terminate \/ StopAll \/ Exit \/ Start
    \/ SetupStep \/ SetupFails \/ Received \/ ReceiveFails \/ GiveBack \/ Unplug \/ Plug
    \/ Tick
    \/ ScanStarts \/ ScanFails \/ Retry \/ PoweredUp \/ Reset

Spec == Init /\ [][Next]_vars

\* Threads go on with what they do, time passes, the supervisor restarts what crashed,
\* a controller that powers up gets there.  Nobody has to plug the adapter in.
Fairness ==
    /\ WF_vars(StartThreads) /\ WF_vars(Bind) /\ WF_vars(Serve)
    /\ WF_vars(StopAll) /\ WF_vars(Exit) /\ WF_vars(main = "crashed" /\ Start)
    /\ WF_vars(SetupStep) /\ WF_vars(Received) /\ WF_vars(GiveBack) /\ WF_vars(Tick)
    /\ WF_vars(~adapter.plugged /\ ReceiveFails)
    /\ WF_vars(ScanStarts) /\ WF_vars(Retry) /\ WF_vars(PoweredUp)

FairSpec == Spec /\ Fairness

-----------------------------------------------------------------------------
(* Properties.                                                              *)

\* Every variable keeps its type; the retry delay stays within its bounds.
TypeOK ==
    /\ main \in {"starting", "connecting", "serving", "stopping", "sleeping",
                 "exited", "crashed", "killed"}
    /\ mainLeft \in Nat /\ wifiLeft \in Nat /\ faults \in Nat
    /\ wifi \in Setup \cup GivingBack \cup {"off", "receiving", "dead"}
    /\ adapter \in [plugged : BOOLEAN, mode : {"managed", "monitor"}, up : BOOLEAN]
    /\ captured \in BOOLEAN /\ covered \in BOOLEAN /\ hearing \in BOOLEAN
    /\ ble \in {"off", "starting", "scanning", "waiting"}
    /\ delay \in DelayMin..DelayMax
    /\ controller \in {"blocked", "powering", "ready"}

GivenBackNow == adapter.plugged => adapter = Managed

\* A process that exits after a stop that found the capture loop running leaves the
\* adapter as it found it, although main() never joins the Wi-Fi thread and only sleeps
\* (dump3411.py:280-283, dump3411.service:15 "Wifi shutdown handler restores the
\* adapter to managed mode"); a stop during the setup is not covered.
RestoredOnStop == main = "exited" /\ covered => GivenBackNow

\* The Wi-Fi thread never ends with a captured adapter in monitor mode: whatever ends
\* the loop -- the stop flag, an OSError, a vanished adapter -- passes the `finally`
\* (wifi_feeder.py:1065-1078).
GivenBackByThread == wifi = "dead" /\ captured => GivenBackNow

\* In whatever state an earlier process -- crashed, killed, stopped during its setup --
\* left the adapter, the next one captures with it when nothing more goes wrong.
CapturesAgain ==
    main = "starting" /\ wifi = "off" /\ faults = 0 /\ adapter.plugged ~> captured

\* A process that goes on serving, next to a controller that is ready for good, ends up
\* scanning for good: no failed start is the end of Bluetooth (ble_feeder.py:409-434).
\* CHANGELOG.md:34 claims as much of adapter resets and bluetoothd restarts.
ScannerRecovers == <>[](main = "serving" /\ controller = "ready") => <>[]hearing

=============================================================================
