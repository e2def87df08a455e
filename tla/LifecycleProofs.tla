--------------------------- MODULE LifecycleProofs ---------------------------
(***************************************************************************)
(* Why a stop gives the adapter back although main() only sleeps: once the  *)
(* capture loop was entered, what is left of the sleep always exceeds what  *)
(* the Wi-Fi thread may still take, command by command.                     *)
(***************************************************************************)
EXTENDS Lifecycle, TLAPS

\* The thread is where `captured` says.
Placed ==
    /\ captured /\ Alive => wifi \in {"receiving", "dead"} \cup GivingBack
    /\ wifi \in Setup => ~captured
    /\ ~Alive => wifi = "off"

\* The clock of the thread, and that of the process that waits for it.
Timing ==
    /\ wifi = "receiving" => wifiLeft <= LoopTime
    /\ wifi \in GivingBack => wifiLeft <= RestoreTime
    /\ main = "sleeping" /\ covered =>
        /\ captured
        /\ wifi = "receiving" => wifiLeft + RestoreTime < mainLeft
        /\ wifi \in GivingBack => wifiLeft < mainLeft

\* How far the adapter is on its way back.
OnTheWay ==
    /\ wifi = "give_managed" => (adapter.plugged => ~adapter.up \/ adapter = Managed)
    /\ wifi = "give_up" => (adapter.plugged => adapter.mode = "managed")

Inv == TypeOK /\ Placed /\ Timing /\ OnTheWay /\ GivenBackByThread /\ RestoredOnStop

LEMMA Delays ==
    /\ DelayMin \in DelayMin..DelayMax
    /\ \A d \in DelayMin..DelayMax : Smaller(d * 2, DelayMax) \in DelayMin..DelayMax
BY BoundsOK DEF Smaller

LEMMA InitInv == Init => Inv
<1> SUFFICES ASSUME Init PROVE Inv
  OBVIOUS
<1> USE GraceIsEnough, BoundsOK, Delays
<1> USE DEF Init, Setup, GivingBack, Alive, Managed
<1>1. adapter \in [plugged : BOOLEAN, mode : {"managed", "monitor"}, up : BOOLEAN]
  OBVIOUS
<1>2. delay \in DelayMin..DelayMax
  BY Delays DEF Init
<1>3. TypeOK
  BY <1>1, <1>2 DEF TypeOK
<1>4. Placed /\ Timing /\ OnTheWay
  BY DEF Placed, Timing, OnTheWay
<1>5. GivenBackByThread /\ RestoredOnStop
  BY DEF GivenBackByThread, RestoredOnStop, GivenBackNow
<1> QED
  BY <1>3, <1>4, <1>5 DEF Inv

LEMMA StepInv == Inv /\ [Next]_vars => Inv'
<1> SUFFICES ASSUME Inv, [Next]_vars PROVE Inv'
  OBVIOUS
<1> USE GraceIsEnough, BoundsOK
<1> USE DEF Inv, TypeOK, Placed, Timing, OnTheWay, GivenBackByThread, RestoredOnStop,
            GivenBackNow, Managed, Alive, Setup, GivingBack,
            mainVars, wifiVars, bleVars
<1>1. CASE StartThreads
  <2>1. TypeOK'
    BY <1>1 DEF StartThreads
  <2>2. Placed'
    BY <1>1 DEF StartThreads
  <2>3. Timing'
    BY <1>1 DEF StartThreads
  <2>4. OnTheWay'
    BY <1>1 DEF StartThreads
  <2>5. GivenBackByThread'
    BY <1>1 DEF StartThreads
  <2>6. RestoredOnStop'
    BY <1>1 DEF StartThreads
  <2> QED
    BY <2>1, <2>2, <2>3, <2>4, <2>5, <2>6
<1>2. CASE Bind
  <2>1. TypeOK'
    BY <1>2 DEF Bind
  <2>2. Placed'
    BY <1>2 DEF Bind
  <2>3. Timing'
    BY <1>2 DEF Bind
  <2>4. OnTheWay'
    BY <1>2 DEF Bind
  <2>5. GivenBackByThread'
    BY <1>2 DEF Bind
  <2>6. RestoredOnStop'
    BY <1>2 DEF Bind
  <2> QED
    BY <2>1, <2>2, <2>3, <2>4, <2>5, <2>6
<1>3. CASE Serve
  <2>1. TypeOK'
    BY <1>3 DEF Serve
  <2>2. Placed'
    BY <1>3 DEF Serve
  <2>3. Timing'
    BY <1>3 DEF Serve
  <2>4. OnTheWay'
    BY <1>3 DEF Serve
  <2>5. GivenBackByThread'
    BY <1>3 DEF Serve
  <2>6. RestoredOnStop'
    BY <1>3 DEF Serve
  <2> QED
    BY <2>1, <2>2, <2>3, <2>4, <2>5, <2>6
<1>4. CASE BindFails
  <2>1. TypeOK'
    <3>1. main' \in {"starting", "connecting", "serving", "stopping", "sleeping",
                   "exited", "crashed", "killed"}
      BY <1>4 DEF BindFails, ProcessEnds
    <3>2. mainLeft' \in Nat /\ wifiLeft' \in Nat /\ faults' \in Nat
      BY <1>4 DEF BindFails, ProcessEnds
    <3>3. wifi' \in Setup \cup GivingBack \cup {"off", "receiving", "dead"}
      BY <1>4 DEF BindFails, ProcessEnds
    <3>4. adapter' \in [plugged : BOOLEAN, mode : {"managed", "monitor"}, up : BOOLEAN]
      BY <1>4 DEF BindFails, ProcessEnds
    <3>5. captured' \in BOOLEAN /\ covered' \in BOOLEAN /\ hearing' \in BOOLEAN
      BY <1>4 DEF BindFails, ProcessEnds
    <3>6. ble' \in {"off", "starting", "scanning", "waiting"}
      BY <1>4 DEF BindFails, ProcessEnds
    <3>7. delay' \in DelayMin..DelayMax
      BY <1>4, Delays DEF BindFails, ProcessEnds
    <3>8. controller' \in {"blocked", "powering", "ready"}
      BY <1>4 DEF BindFails, ProcessEnds
    <3> QED
      BY <3>1, <3>2, <3>3, <3>4, <3>5, <3>6, <3>7, <3>8
  <2>2. Placed'
    BY <1>4 DEF BindFails, ProcessEnds
  <2>3. Timing'
    BY <1>4 DEF BindFails, ProcessEnds
  <2>4. OnTheWay'
    BY <1>4 DEF BindFails, ProcessEnds
  <2>5. GivenBackByThread'
    BY <1>4 DEF BindFails, ProcessEnds
  <2>6. RestoredOnStop'
    BY <1>4 DEF BindFails, ProcessEnds
  <2> QED
    BY <2>1, <2>2, <2>3, <2>4, <2>5, <2>6
<1>5. CASE Terminate
  <2>1. TypeOK'
    <3>1. main' \in {"starting", "connecting", "serving", "stopping", "sleeping",
                   "exited", "crashed", "killed"}
      BY <1>5 DEF Terminate, ProcessEnds
    <3>2. mainLeft' \in Nat /\ wifiLeft' \in Nat /\ faults' \in Nat
      BY <1>5 DEF Terminate, ProcessEnds
    <3>3. wifi' \in Setup \cup GivingBack \cup {"off", "receiving", "dead"}
      BY <1>5 DEF Terminate, ProcessEnds
    <3>4. adapter' \in [plugged : BOOLEAN, mode : {"managed", "monitor"}, up : BOOLEAN]
      BY <1>5 DEF Terminate, ProcessEnds
    <3>5. captured' \in BOOLEAN /\ covered' \in BOOLEAN /\ hearing' \in BOOLEAN
      BY <1>5 DEF Terminate, ProcessEnds
    <3>6. ble' \in {"off", "starting", "scanning", "waiting"}
      BY <1>5 DEF Terminate, ProcessEnds
    <3>7. delay' \in DelayMin..DelayMax
      BY <1>5, Delays DEF Terminate, ProcessEnds
    <3>8. controller' \in {"blocked", "powering", "ready"}
      BY <1>5 DEF Terminate, ProcessEnds
    <3> QED
      BY <3>1, <3>2, <3>3, <3>4, <3>5, <3>6, <3>7, <3>8
  <2>2. Placed'
    BY <1>5 DEF Terminate, ProcessEnds
  <2>3. Timing'
    BY <1>5 DEF Terminate, ProcessEnds
  <2>4. OnTheWay'
    BY <1>5 DEF Terminate, ProcessEnds
  <2>5. GivenBackByThread'
    BY <1>5 DEF Terminate, ProcessEnds
  <2>6. RestoredOnStop'
    BY <1>5 DEF Terminate, ProcessEnds
  <2> QED
    BY <2>1, <2>2, <2>3, <2>4, <2>5, <2>6
<1>6. CASE StopAll
  <2>1. TypeOK'
    BY <1>6 DEF StopAll
  <2>2. Placed'
    BY <1>6 DEF StopAll
  <2>3. Timing'
    BY <1>6 DEF StopAll
  <2>4. OnTheWay'
    BY <1>6 DEF StopAll
  <2>5. GivenBackByThread'
    BY <1>6 DEF StopAll
  <2>6. RestoredOnStop'
    BY <1>6 DEF StopAll
  <2> QED
    BY <2>1, <2>2, <2>3, <2>4, <2>5, <2>6
<1>7. CASE Exit
  <2>1. TypeOK'
    <3>1. main' \in {"starting", "connecting", "serving", "stopping", "sleeping",
                   "exited", "crashed", "killed"}
      BY <1>7 DEF Exit, ProcessEnds
    <3>2. mainLeft' \in Nat /\ wifiLeft' \in Nat /\ faults' \in Nat
      BY <1>7 DEF Exit, ProcessEnds
    <3>3. wifi' \in Setup \cup GivingBack \cup {"off", "receiving", "dead"}
      BY <1>7 DEF Exit, ProcessEnds
    <3>4. adapter' \in [plugged : BOOLEAN, mode : {"managed", "monitor"}, up : BOOLEAN]
      BY <1>7 DEF Exit, ProcessEnds
    <3>5. captured' \in BOOLEAN /\ covered' \in BOOLEAN /\ hearing' \in BOOLEAN
      BY <1>7 DEF Exit, ProcessEnds
    <3>6. ble' \in {"off", "starting", "scanning", "waiting"}
      BY <1>7 DEF Exit, ProcessEnds
    <3>7. delay' \in DelayMin..DelayMax
      BY <1>7, Delays DEF Exit, ProcessEnds
    <3>8. controller' \in {"blocked", "powering", "ready"}
      BY <1>7 DEF Exit, ProcessEnds
    <3> QED
      BY <3>1, <3>2, <3>3, <3>4, <3>5, <3>6, <3>7, <3>8
  <2>2. Placed'
    BY <1>7 DEF Exit, ProcessEnds
  <2>3. Timing'
    BY <1>7 DEF Exit, ProcessEnds
  <2>4. OnTheWay'
    BY <1>7 DEF Exit, ProcessEnds
  <2>5. GivenBackByThread'
    BY <1>7 DEF Exit, ProcessEnds
  <2>6. RestoredOnStop'
    BY <1>7 DEF Exit, ProcessEnds
  <2> QED
    BY <2>1, <2>2, <2>3, <2>4, <2>5, <2>6
<1>8. CASE Start
  <2>1. TypeOK'
    <3>1. main' \in {"starting", "connecting", "serving", "stopping", "sleeping",
                   "exited", "crashed", "killed"}
      BY <1>8 DEF Start
    <3>2. mainLeft' \in Nat /\ wifiLeft' \in Nat /\ faults' \in Nat
      BY <1>8 DEF Start
    <3>3. wifi' \in Setup \cup GivingBack \cup {"off", "receiving", "dead"}
      BY <1>8 DEF Start
    <3>4. adapter' \in [plugged : BOOLEAN, mode : {"managed", "monitor"}, up : BOOLEAN]
      BY <1>8 DEF Start
    <3>5. captured' \in BOOLEAN /\ covered' \in BOOLEAN /\ hearing' \in BOOLEAN
      BY <1>8 DEF Start
    <3>6. ble' \in {"off", "starting", "scanning", "waiting"}
      BY <1>8 DEF Start
    <3>7. delay' \in DelayMin..DelayMax
      BY <1>8, Delays DEF Start
    <3>8. controller' \in {"blocked", "powering", "ready"}
      BY <1>8 DEF Start
    <3> QED
      BY <3>1, <3>2, <3>3, <3>4, <3>5, <3>6, <3>7, <3>8
  <2>2. Placed'
    BY <1>8 DEF Start
  <2>3. Timing'
    BY <1>8 DEF Start
  <2>4. OnTheWay'
    BY <1>8 DEF Start
  <2>5. GivenBackByThread'
    BY <1>8 DEF Start
  <2>6. RestoredOnStop'
    BY <1>8 DEF Start
  <2> QED
    BY <2>1, <2>2, <2>3, <2>4, <2>5, <2>6
<1>9. CASE SetupStep
  <2>1. TypeOK'
    BY <1>9 DEF SetupStep, AfterSetup, Commanded, Works
  <2>2. Placed'
    BY <1>9 DEF SetupStep, AfterSetup, Commanded, Works
  <2>3. Timing'
    BY <1>9 DEF SetupStep, AfterSetup, Commanded, Works
  <2>4. OnTheWay'
    BY <1>9 DEF SetupStep, AfterSetup, Commanded, Works
  <2>5. GivenBackByThread'
    BY <1>9 DEF SetupStep, AfterSetup, Commanded, Works
  <2>6. RestoredOnStop'
    BY <1>9 DEF SetupStep, AfterSetup, Commanded, Works
  <2> QED
    BY <2>1, <2>2, <2>3, <2>4, <2>5, <2>6
<1>10. CASE SetupFails
  <2>1. TypeOK'
    BY <1>10 DEF SetupFails, Works
  <2>2. Placed'
    BY <1>10 DEF SetupFails, Works
  <2>3. Timing'
    BY <1>10 DEF SetupFails, Works
  <2>4. OnTheWay'
    BY <1>10 DEF SetupFails, Works
  <2>5. GivenBackByThread'
    BY <1>10 DEF SetupFails, Works
  <2>6. RestoredOnStop'
    BY <1>10 DEF SetupFails, Works
  <2> QED
    BY <2>1, <2>2, <2>3, <2>4, <2>5, <2>6
<1>11. CASE Received
  <2>1. TypeOK'
    BY <1>11 DEF Received
  <2>2. Placed'
    BY <1>11 DEF Received
  <2>3. Timing'
    BY <1>11 DEF Received
  <2>4. OnTheWay'
    BY <1>11 DEF Received
  <2>5. GivenBackByThread'
    BY <1>11 DEF Received
  <2>6. RestoredOnStop'
    BY <1>11 DEF Received
  <2> QED
    BY <2>1, <2>2, <2>3, <2>4, <2>5, <2>6
<1>12. CASE ReceiveFails
  <2>1. TypeOK'
    BY <1>12 DEF ReceiveFails
  <2>2. Placed'
    BY <1>12 DEF ReceiveFails
  <2>3. Timing'
    BY <1>12 DEF ReceiveFails
  <2>4. OnTheWay'
    BY <1>12 DEF ReceiveFails
  <2>5. GivenBackByThread'
    BY <1>12 DEF ReceiveFails
  <2>6. RestoredOnStop'
    BY <1>12 DEF ReceiveFails
  <2> QED
    BY <2>1, <2>2, <2>3, <2>4, <2>5, <2>6
<1>13. CASE GiveBack
  <2>1. TypeOK'
    <3>1. main' \in {"starting", "connecting", "serving", "stopping", "sleeping",
                   "exited", "crashed", "killed"}
      BY <1>13 DEF GiveBack, AfterGiving, Commanded, Works
    <3>2. mainLeft' \in Nat /\ wifiLeft' \in Nat /\ faults' \in Nat
      BY <1>13 DEF GiveBack, AfterGiving, Commanded, Works
    <3>3. wifi' \in Setup \cup GivingBack \cup {"off", "receiving", "dead"}
      BY <1>13 DEF GiveBack, AfterGiving, Commanded, Works
    <3>4. adapter' \in [plugged : BOOLEAN, mode : {"managed", "monitor"}, up : BOOLEAN]
      BY <1>13 DEF GiveBack, AfterGiving, Commanded, Works
    <3>5. captured' \in BOOLEAN /\ covered' \in BOOLEAN /\ hearing' \in BOOLEAN
      BY <1>13 DEF GiveBack, AfterGiving, Commanded, Works
    <3>6. ble' \in {"off", "starting", "scanning", "waiting"}
      BY <1>13 DEF GiveBack, AfterGiving, Commanded, Works
    <3>7. delay' \in DelayMin..DelayMax
      BY <1>13, Delays DEF GiveBack, AfterGiving, Commanded, Works
    <3>8. controller' \in {"blocked", "powering", "ready"}
      BY <1>13 DEF GiveBack, AfterGiving, Commanded, Works
    <3> QED
      BY <3>1, <3>2, <3>3, <3>4, <3>5, <3>6, <3>7, <3>8
  <2>2. Placed'
    BY <1>13 DEF GiveBack, AfterGiving, Commanded, Works
  <2>3. Timing'
    BY <1>13 DEF GiveBack, AfterGiving, Commanded, Works
  <2>4. OnTheWay'
    <3>1. CASE wifi = "give_down"
      BY <1>13, <3>1 DEF GiveBack, AfterGiving, Commanded, Works
    <3>2. CASE wifi = "give_managed"
      BY <1>13, <3>2 DEF GiveBack, AfterGiving, Commanded, Works
    <3>3. CASE wifi = "give_up"
      BY <1>13, <3>3 DEF GiveBack, AfterGiving, Commanded, Works
    <3> QED
      BY <1>13, <3>1, <3>2, <3>3 DEF GiveBack
  <2>5. GivenBackByThread'
    <3>1. CASE wifi = "give_up"
      <4>1. adapter.plugged => adapter' = Managed
        BY <1>13, <3>1 DEF GiveBack, Commanded, Works
      <4>2. ~adapter.plugged => adapter' = adapter
        BY <1>13, <3>1 DEF GiveBack, Commanded, Works
      <4> QED
        BY <4>1, <4>2
    <3>2. CASE wifi # "give_up"
      BY <1>13, <3>2 DEF GiveBack, AfterGiving
    <3> QED
      BY <3>1, <3>2
  <2>6. RestoredOnStop'
    BY <1>13 DEF GiveBack, AfterGiving, Commanded, Works
  <2> QED
    BY <2>1, <2>2, <2>3, <2>4, <2>5, <2>6
<1>14. CASE Unplug
  <2>1. TypeOK'
    <3>1. main' \in {"starting", "connecting", "serving", "stopping", "sleeping",
                   "exited", "crashed", "killed"}
      BY <1>14 DEF Unplug
    <3>2. mainLeft' \in Nat /\ wifiLeft' \in Nat /\ faults' \in Nat
      BY <1>14 DEF Unplug
    <3>3. wifi' \in Setup \cup GivingBack \cup {"off", "receiving", "dead"}
      BY <1>14 DEF Unplug
    <3>4. adapter' \in [plugged : BOOLEAN, mode : {"managed", "monitor"}, up : BOOLEAN]
      BY <1>14 DEF Unplug
    <3>5. captured' \in BOOLEAN /\ covered' \in BOOLEAN /\ hearing' \in BOOLEAN
      BY <1>14 DEF Unplug
    <3>6. ble' \in {"off", "starting", "scanning", "waiting"}
      BY <1>14 DEF Unplug
    <3>7. delay' \in DelayMin..DelayMax
      BY <1>14, Delays DEF Unplug
    <3>8. controller' \in {"blocked", "powering", "ready"}
      BY <1>14 DEF Unplug
    <3> QED
      BY <3>1, <3>2, <3>3, <3>4, <3>5, <3>6, <3>7, <3>8
  <2>2. Placed'
    BY <1>14 DEF Unplug
  <2>3. Timing'
    BY <1>14 DEF Unplug
  <2>4. OnTheWay'
    BY <1>14 DEF Unplug
  <2>5. GivenBackByThread'
    BY <1>14 DEF Unplug
  <2>6. RestoredOnStop'
    BY <1>14 DEF Unplug
  <2> QED
    BY <2>1, <2>2, <2>3, <2>4, <2>5, <2>6
<1>15. CASE Plug
  <2>1. TypeOK'
    <3>1. main' \in {"starting", "connecting", "serving", "stopping", "sleeping",
                   "exited", "crashed", "killed"}
      BY <1>15 DEF Plug
    <3>2. mainLeft' \in Nat /\ wifiLeft' \in Nat /\ faults' \in Nat
      BY <1>15 DEF Plug
    <3>3. wifi' \in Setup \cup GivingBack \cup {"off", "receiving", "dead"}
      BY <1>15 DEF Plug
    <3>4. adapter' \in [plugged : BOOLEAN, mode : {"managed", "monitor"}, up : BOOLEAN]
      BY <1>15 DEF Plug
    <3>5. captured' \in BOOLEAN /\ covered' \in BOOLEAN /\ hearing' \in BOOLEAN
      BY <1>15 DEF Plug
    <3>6. ble' \in {"off", "starting", "scanning", "waiting"}
      BY <1>15 DEF Plug
    <3>7. delay' \in DelayMin..DelayMax
      BY <1>15, Delays DEF Plug
    <3>8. controller' \in {"blocked", "powering", "ready"}
      BY <1>15 DEF Plug
    <3> QED
      BY <3>1, <3>2, <3>3, <3>4, <3>5, <3>6, <3>7, <3>8
  <2>2. Placed'
    BY <1>15 DEF Plug
  <2>3. Timing'
    BY <1>15 DEF Plug
  <2>4. OnTheWay'
    BY <1>15 DEF Plug
  <2>5. GivenBackByThread'
    BY <1>15 DEF Plug
  <2>6. RestoredOnStop'
    BY <1>15 DEF Plug
  <2> QED
    BY <2>1, <2>2, <2>3, <2>4, <2>5, <2>6
<1>16. CASE Tick
  <2>1. TypeOK'
    BY <1>16 DEF Tick, Timed, Floor
  <2>2. Placed'
    BY <1>16 DEF Tick, Timed, Floor
  <2>3. Timing'
    BY <1>16 DEF Tick, Timed, Floor
  <2>4. OnTheWay'
    BY <1>16 DEF Tick, Timed, Floor
  <2>5. GivenBackByThread'
    BY <1>16 DEF Tick, Timed, Floor
  <2>6. RestoredOnStop'
    BY <1>16 DEF Tick, Timed, Floor
  <2> QED
    BY <2>1, <2>2, <2>3, <2>4, <2>5, <2>6
<1>17. CASE ScanStarts
  <2>1. TypeOK'
    <3>1. main' \in {"starting", "connecting", "serving", "stopping", "sleeping",
                   "exited", "crashed", "killed"}
      BY <1>17 DEF ScanStarts
    <3>2. mainLeft' \in Nat /\ wifiLeft' \in Nat /\ faults' \in Nat
      BY <1>17 DEF ScanStarts
    <3>3. wifi' \in Setup \cup GivingBack \cup {"off", "receiving", "dead"}
      BY <1>17 DEF ScanStarts
    <3>4. adapter' \in [plugged : BOOLEAN, mode : {"managed", "monitor"}, up : BOOLEAN]
      BY <1>17 DEF ScanStarts
    <3>5. captured' \in BOOLEAN /\ covered' \in BOOLEAN /\ hearing' \in BOOLEAN
      BY <1>17 DEF ScanStarts
    <3>6. ble' \in {"off", "starting", "scanning", "waiting"}
      BY <1>17 DEF ScanStarts
    <3>7. delay' \in DelayMin..DelayMax
      BY <1>17, Delays DEF ScanStarts
    <3>8. controller' \in {"blocked", "powering", "ready"}
      BY <1>17 DEF ScanStarts
    <3> QED
      BY <3>1, <3>2, <3>3, <3>4, <3>5, <3>6, <3>7, <3>8
  <2>2. Placed'
    BY <1>17 DEF ScanStarts
  <2>3. Timing'
    BY <1>17 DEF ScanStarts
  <2>4. OnTheWay'
    BY <1>17 DEF ScanStarts
  <2>5. GivenBackByThread'
    BY <1>17 DEF ScanStarts
  <2>6. RestoredOnStop'
    BY <1>17 DEF ScanStarts
  <2> QED
    BY <2>1, <2>2, <2>3, <2>4, <2>5, <2>6
<1>18. CASE ScanFails
  <2>1. TypeOK'
    <3>1. main' \in {"starting", "connecting", "serving", "stopping", "sleeping",
                   "exited", "crashed", "killed"}
      BY <1>18 DEF ScanFails
    <3>2. mainLeft' \in Nat /\ wifiLeft' \in Nat /\ faults' \in Nat
      BY <1>18 DEF ScanFails
    <3>3. wifi' \in Setup \cup GivingBack \cup {"off", "receiving", "dead"}
      BY <1>18 DEF ScanFails
    <3>4. adapter' \in [plugged : BOOLEAN, mode : {"managed", "monitor"}, up : BOOLEAN]
      BY <1>18 DEF ScanFails
    <3>5. captured' \in BOOLEAN /\ covered' \in BOOLEAN /\ hearing' \in BOOLEAN
      BY <1>18 DEF ScanFails
    <3>6. ble' \in {"off", "starting", "scanning", "waiting"}
      BY <1>18 DEF ScanFails
    <3>7. delay' \in DelayMin..DelayMax
      BY <1>18, Delays DEF ScanFails
    <3>8. controller' \in {"blocked", "powering", "ready"}
      BY <1>18 DEF ScanFails
    <3> QED
      BY <3>1, <3>2, <3>3, <3>4, <3>5, <3>6, <3>7, <3>8
  <2>2. Placed'
    BY <1>18 DEF ScanFails
  <2>3. Timing'
    BY <1>18 DEF ScanFails
  <2>4. OnTheWay'
    BY <1>18 DEF ScanFails
  <2>5. GivenBackByThread'
    BY <1>18 DEF ScanFails
  <2>6. RestoredOnStop'
    BY <1>18 DEF ScanFails
  <2> QED
    BY <2>1, <2>2, <2>3, <2>4, <2>5, <2>6
<1>19. CASE Retry
  <2>1. TypeOK'
    <3>1. main' \in {"starting", "connecting", "serving", "stopping", "sleeping",
                   "exited", "crashed", "killed"}
      BY <1>19 DEF Retry
    <3>2. mainLeft' \in Nat /\ wifiLeft' \in Nat /\ faults' \in Nat
      BY <1>19 DEF Retry
    <3>3. wifi' \in Setup \cup GivingBack \cup {"off", "receiving", "dead"}
      BY <1>19 DEF Retry
    <3>4. adapter' \in [plugged : BOOLEAN, mode : {"managed", "monitor"}, up : BOOLEAN]
      BY <1>19 DEF Retry
    <3>5. captured' \in BOOLEAN /\ covered' \in BOOLEAN /\ hearing' \in BOOLEAN
      BY <1>19 DEF Retry
    <3>6. ble' \in {"off", "starting", "scanning", "waiting"}
      BY <1>19 DEF Retry
    <3>7. delay' \in DelayMin..DelayMax
      BY <1>19, Delays DEF Retry
    <3>8. controller' \in {"blocked", "powering", "ready"}
      BY <1>19 DEF Retry
    <3> QED
      BY <3>1, <3>2, <3>3, <3>4, <3>5, <3>6, <3>7, <3>8
  <2>2. Placed'
    BY <1>19 DEF Retry
  <2>3. Timing'
    BY <1>19 DEF Retry
  <2>4. OnTheWay'
    BY <1>19 DEF Retry
  <2>5. GivenBackByThread'
    BY <1>19 DEF Retry
  <2>6. RestoredOnStop'
    BY <1>19 DEF Retry
  <2> QED
    BY <2>1, <2>2, <2>3, <2>4, <2>5, <2>6
<1>20. CASE PoweredUp
  <2>1. TypeOK'
    <3>1. main' \in {"starting", "connecting", "serving", "stopping", "sleeping",
                   "exited", "crashed", "killed"}
      BY <1>20 DEF PoweredUp
    <3>2. mainLeft' \in Nat /\ wifiLeft' \in Nat /\ faults' \in Nat
      BY <1>20 DEF PoweredUp
    <3>3. wifi' \in Setup \cup GivingBack \cup {"off", "receiving", "dead"}
      BY <1>20 DEF PoweredUp
    <3>4. adapter' \in [plugged : BOOLEAN, mode : {"managed", "monitor"}, up : BOOLEAN]
      BY <1>20 DEF PoweredUp
    <3>5. captured' \in BOOLEAN /\ covered' \in BOOLEAN /\ hearing' \in BOOLEAN
      BY <1>20 DEF PoweredUp
    <3>6. ble' \in {"off", "starting", "scanning", "waiting"}
      BY <1>20 DEF PoweredUp
    <3>7. delay' \in DelayMin..DelayMax
      BY <1>20, Delays DEF PoweredUp
    <3>8. controller' \in {"blocked", "powering", "ready"}
      BY <1>20 DEF PoweredUp
    <3> QED
      BY <3>1, <3>2, <3>3, <3>4, <3>5, <3>6, <3>7, <3>8
  <2>2. Placed'
    BY <1>20 DEF PoweredUp
  <2>3. Timing'
    BY <1>20 DEF PoweredUp
  <2>4. OnTheWay'
    BY <1>20 DEF PoweredUp
  <2>5. GivenBackByThread'
    BY <1>20 DEF PoweredUp
  <2>6. RestoredOnStop'
    BY <1>20 DEF PoweredUp
  <2> QED
    BY <2>1, <2>2, <2>3, <2>4, <2>5, <2>6
<1>21. CASE Reset
  <2>1. TypeOK'
    <3>1. main' \in {"starting", "connecting", "serving", "stopping", "sleeping",
                   "exited", "crashed", "killed"}
      BY <1>21 DEF Reset
    <3>2. mainLeft' \in Nat /\ wifiLeft' \in Nat /\ faults' \in Nat
      BY <1>21 DEF Reset
    <3>3. wifi' \in Setup \cup GivingBack \cup {"off", "receiving", "dead"}
      BY <1>21 DEF Reset
    <3>4. adapter' \in [plugged : BOOLEAN, mode : {"managed", "monitor"}, up : BOOLEAN]
      BY <1>21 DEF Reset
    <3>5. captured' \in BOOLEAN /\ covered' \in BOOLEAN /\ hearing' \in BOOLEAN
      BY <1>21 DEF Reset
    <3>6. ble' \in {"off", "starting", "scanning", "waiting"}
      BY <1>21 DEF Reset
    <3>7. delay' \in DelayMin..DelayMax
      BY <1>21, Delays DEF Reset
    <3>8. controller' \in {"blocked", "powering", "ready"}
      BY <1>21 DEF Reset
    <3> QED
      BY <3>1, <3>2, <3>3, <3>4, <3>5, <3>6, <3>7, <3>8
  <2>2. Placed'
    BY <1>21 DEF Reset
  <2>3. Timing'
    BY <1>21 DEF Reset
  <2>4. OnTheWay'
    BY <1>21 DEF Reset
  <2>5. GivenBackByThread'
    BY <1>21 DEF Reset
  <2>6. RestoredOnStop'
    BY <1>21 DEF Reset
  <2> QED
    BY <2>1, <2>2, <2>3, <2>4, <2>5, <2>6
<1>22. CASE UNCHANGED vars
  <2>1. TypeOK'
    BY <1>22 DEF vars
  <2>2. Placed'
    BY <1>22 DEF vars
  <2>3. Timing'
    BY <1>22 DEF vars
  <2>4. OnTheWay'
    BY <1>22 DEF vars
  <2>5. GivenBackByThread'
    BY <1>22 DEF vars
  <2>6. RestoredOnStop'
    BY <1>22 DEF vars
  <2> QED
    BY <2>1, <2>2, <2>3, <2>4, <2>5, <2>6
<1> QED
  BY <1>1, <1>2, <1>3, <1>4, <1>5, <1>6, <1>7, <1>8, <1>9, <1>10, <1>11, <1>12, <1>13, <1>14, <1>15, <1>16, <1>17, <1>18, <1>19, <1>20, <1>21, <1>22 DEF Next

THEOREM Invariance == Spec => []Inv
BY InitInv, StepInv, PTL DEF Spec

\* However the main thread, the Wi-Fi thread and the clock take turns, a process that exits
\* after a stop that found the capture loop running has given its adapter back, for every
\* receive timeout and every restore that fit in the sleep.
THEOREM AdapterRestored == Spec => []RestoredOnStop
<1>1. Inv => RestoredOnStop
  BY DEF Inv
<1> QED
  BY Invariance, <1>1, PTL

\* The capture thread never ends with an adapter it has captured in monitor mode.
THEOREM AdapterGivenBack == Spec => []GivenBackByThread
<1>1. Inv => GivenBackByThread
  BY DEF Inv
<1> QED
  BY Invariance, <1>1, PTL

\* Type correctness, and with it the bounds of the BLE retry delay.
THEOREM LifecycleTypes == Spec => []TypeOK
<1>1. Inv => TypeOK
  BY DEF Inv
<1> QED
  BY Invariance, <1>1, PTL

=============================================================================
