# A verification model of dump3411

dump3411 listens for drone Remote ID broadcasts (ASTM F3411) on Bluetooth and Wi-Fi,
keeps one in-memory cache of the drones it hears, and serves that cache as a JSON feed
with a dashboard page, over MQTT and into a SQLite log.  Two radio threads, a sweeper, an
MQTT publisher thread, a cleanup thread and HTTP threads share three locks, timestamps of
several ages and two sets of hooks; the radios have to put an adapter into monitor mode and
give it back, and to survive a controller that is not ready; and what they receive is
parsed by walkers over lengths that come off the air.  This directory models that in TLA+,
checks it with TLC and proves its safety properties with TLAPS.

## 1. The system

| Component | State | Operations | Talks to |
|---|---|---|---|
| **Drone cache**, `tracker.py` | drones by UAS id, MAC map, message counters, per-transport counters, stop flag; one lock | `update_basic_id/location/system/self_id/operator_id`, `snapshot`, `health`, `_sweep_once`, `stop` | called by the radios, HTTP and MQTT status threads; calls the change hook *with* the lock held and the expiry hook *without* it |
| **MQTT publisher**, `mqtt_publisher.py` | latest row per drone, last publish per drone, bounded event queue, the broker's retained topics | hooks `on_drone_change/expire`; publisher thread (flush, drain); status thread; `start`, `stop` | hooks run on radio and sweeper threads; publishes to the broker |
| **Detection log**, `history.py` | SQLite table, last write per drone, stats cache; a write lock and a stats lock | hook `on_drone_change`; cleanup thread (age, size); `stats`, read queries; `stop` | hook runs on radio threads under the cache lock |
| **Orchestrator**, `dump3411.py`, `dump3411.service` | threads, signal handlers | start, callback fan-out, shutdown, restart by systemd | everything |
| **BLE feeder**, `ble_feeder.py` | scanner, retry delay | `run` with backoff, `on_advertisement`: decode, sort a pack, update the cache | cache, BlueZ |
| **Wi-Fi feeder**, `wifi_feeder.py` | socket, adapter mode, channel list | `run`, `ChannelHopper`, frame walkers, `_on_packet` | cache, `ip`/`iw`/`rfkill` |
| **Decoders and walkers** in both feeders | none | one message or frame at a time | |
| **Feed server and dashboard**, `feed_server.py` | none in the server; page state in the browser | GET handlers; poll chain, unit switch, recent detections | `snapshot`, `health`, history queries |
| **Version resolver, install files** | none | | |

### What is hard in each, and what makes it correct

* **Cache.**  Every operation reads the clock *before* it takes the lock, so operations
  commit in an order that need not be the order of their timestamps; the sweeper's cutoff
  and a reader's `now` are stale by the time they are used.  Messages other than Basic ID
  find their drone only through the MAC map, which eviction must clean in the same critical
  section.  Updates are partial, over five message types.  Correct means: no drone is
  evicted early and every silent one eventually; each eviction is notified exactly once;
  the map never dangles; identity is write-once; a Location replaces all flight data, so that
  none of it is left beside a later position, while the operator block, the operator id and
  the Self-ID are never wiped by a message that lacks them; nothing is undated or labelled
  with another message's type; all counters agree.
* **Dispatch of a packet.**  A pack is a list of updates, each taking the lock anew; the
  sweeper and the other radio run in between, and the other radio's late commit may take the
  drone's stamp back.  Correct means: everything in a packet goes to the drone it names.
* **MQTT publisher.**  Debounced rows, an event queue with a cap, an expiry that is queued
  outside the cache lock, a final flush on another thread, and a broker that remembers what
  the process forgets.  Correct means: what is retained is the airspace, eventually.
* **Detection log.**  A hook that waits for a lock while it holds another, prunings whose
  decision is older than their DELETE, failing inserts, a connection closed under its
  users, a cached count.  Correct means: rows are stamped a window apart, young rows are kept, old rows go,
  counts are fresh.
* **Process and radios.**  The adapter is changed before the `try` that gives it back; main
  does not join the thread that gives it back but sleeps; the server may fail to bind after
  the radios have started; signals may come before their handler; the Wi-Fi thread's
  `rfkill` takes the Bluetooth controller away just when the scanner starts.  Correct means:
  the adapter is given back on the paths that promise it, any state it is left in is one the
  next process can capture with, and the scanner comes back.
* **Walkers and decoders.**  They must stay in bounds and advance whatever the lengths say,
  and still find what is behind a foreign, an empty or an optional field.
* **Dashboard.**  `/status` and the feed are two cuts of the cache, two ticks may overlap,
  requests get lost.  Correct means: the screen converges, and only goes back when it
  renders a tick that had been overtaken.

`PROJECT.json` lists the hazards line by line, with the property that covers each, and
the components that are not modelled with the reason.

## 2. The modules

| Module | What it is |
|---|---|
| `Airspace` | Abstract specification: a drone is present from when it is heard until it has been silent for longer than the TTL, and each departure is notified exactly once. No threads, locks, messages or MACs. |
| `Tracker` | The cache as the code runs it; implements `Airspace` (`ImplementsAirspace`). |
| `Feeders` | The radio threads in front of `Tracker`: packets dispatched one update at a time. Extends `Tracker`, and implements it (`FeedersImplementTracker`). |
| `MqttPublisher` | The MQTT sink, driven by `Airspace` (its `Air` instance) rather than by the detailed cache. |
| `History` | The detection log, driven by change hooks. |
| `Dashboard` | The page and the handlers it talks to, over a cache that is `Airspace`. |
| `Lifecycle` | The process, its Wi-Fi and BLE threads, the adapter, the controller and the supervisor. |
| `Frames` | The walkers and decoders as operators over byte strings. |
| `Reception` | Transmissions encoded as their standards say, cut anywhere, and received by `Frames`. |
| `MCTracker`, `MCFeeders`, `MCMqtt`, `MCHistory`, `MCDashboard`, `MCReception` | Instances for TLC; one `.cfg` per run. `Lifecycle` needs none. |
| `TrackerProofs`, `AccountingProofs`, `FeedersProofs`, `MqttProofs`, `HistoryProofs`, `LifecycleProofs`, `DashboardProofs`, `ReceptionProofs` | Theorems and their TLAPS proofs. |

    Reception -> Frames            Feeders -> Tracker -> Airspace <- MqttPublisher
    Lifecycle                                                     <- Dashboard
    History

`MqttPublisher` and `Dashboard` may stand on `Airspace` because `TrackerImplementsAirspace`
proves that the cache shows the outside nothing else.  `MqttPublisher` adds what the
refinement hides and the sink depends on: the change hook holds the cache lock, so nothing
is heard or evicted while it runs.  `Dashboard` adds the message total and the newest
transport stamp, which `/status` shows and the abstraction has not.

### Tracker

* State: `drones`, `macToUas`, `messagesTotal`, `bySource` are `_drones`, `_mac_to_uas`,
  `_messages_total`, `_by_source`.  `call[t]` is thread *t* between `now = self._clock()`
  and `with self._lock`; `reading[r]` and `cutoff` are the same window of a reader and of
  the sweeper.  `hook # None` means that the lock is held and the change hook runs: every
  other critical section waits (`LockFree`).  `expiring` is the sweeper's `stale` list less
  the hooks already run.
* Actions: `Receive` reads the clock; `UpdateBasicId`, `UpdateLocation`, `UpdateSystem`,
  `UpdateSelfId`, `UpdateOperatorId`, `DropUnmapped` are the critical sections, `FireChange`
  the end of the hook; `SweepCutoff`, `SweepEvict`, `FireExpire`, `SweepExit` are the
  sweeper; `SnapshotClock/Copy`, `HealthClock/Copy` the readers; `Stop`.
* Data: positions, texts and types are members of small sets.  What a Location carries is a
  member of `Reports`: a position, without which it is no Location, and the five
  `FlightFields` (altitude, height, speed, heading, climb), any of which may be `None`: the
  decoders leave out a value that is the wire's "unknown", and a French beacon has no climb.
  `Located` assigns them all, so a known one may become unknown, as it may in the code; the
  signal strength of an entry is that of its latest message, `None` included (`Heard`).  A
  blank Self-ID or operator id and a filtered coordinate are `None`.  Unit conversion and rounding are left out, ages
  (`now - stamp`) are kept.  A System message carries a coordinate with its location type
  or neither, as both parsers produce it.

### Feeders

* `packet[t]` is what radio thread *t* still has to dispatch: a function from places in the
  packet to messages, its address, and two history fields, the packet's only Basic ID
  (`sole`) and the time of its capture (`since`).
* `Capture` is the decoding of an advertisement or frame: a single message, a Message Pack in
  any order, or a French beacon, over a transport of that radio (`Single`, `Pack`, `French`),
  all of whose sub-messages have one address and one signal strength.
  `Deliver` hands the next sub-message to its `update_*`, Basic IDs first and the rest as
  packed (`InOrder`, the stable `sorted` of both feeders), after what `_update_tracker` passes
  over has been left out (`Routed`).  `PacketEnd` is the return of the callback.
* Two assumptions: the radios' addresses are different identities (`RadiosApart`), and a
  packet is dispatched within half the TTL (`RadiosPrompt`; `FeederTick` enforces it).  The
  TTL is a minute and a packet is at most some ten lock acquisitions.  Half, because a
  commit of the other radio that is as late may take the stamp back by as much.

### MqttPublisher

* State: `latest`, `lastPub`, `events` are `_latest`, `_last_pub`, `_events`; `pc`, `now`,
  `ready`, `expired` the program counters and locals of the publisher thread (`"pub"`) and
  of `stop()` (`"main"`); `retained` is the broker.  A row is the number of the update it
  was made from, which is all that "newer" and "last" need.  `orphans` is a history
  variable: topics whose clear was dropped or forgotten.
* Actions: `ChangeLatest`, `ChangeEvent` are the two halves of `on_drone_change`; `Expire` is
  `on_drone_expire`; `FlushClock`, `Collect`, `PublishState`, `FlushEnd` are `_flush_pending`,
  by either thread; `DrainOne`, `ExpireClear`, `ExpireForget`, `ExpireUndebounce`,
  `DrainEnd` are `_drain_events` and `_handle_event`, one step per shared access; `Stop`,
  `PubExit`, `Restart`.

### History

* State: `table` holds rows, each with its own time (`ts`, the second clock reading of
  `on_drone_change`) and, as history, with the debounce stamp it was written under (`stamp`, the
  first one); `file` is the size of
  the main database file in rows, which `Checkpoint` raises and nothing lowers (auto-vacuum
  is off and `VACUUM` is never run: deleted rows leave pages that later rows reuse).
  `writer` is the row of a hook that has its stamp, not yet dated or waiting for the write
  lock; `cleaner`, `cutoff` and `lock`
  the cleanup thread; `stats`, `cached`, `served` the shared count.  SQLite itself is
  external: one statement is atomic.
* Actions: `Debounced`, `StampWrite`, `DateRow`, `Insert`, `InsertFails`; `AgeCutoff`, `AgeLock`,
  `AgeDelete`, `SizeCheck`, `TrimLock`, `TrimDelete`, `CleanerExit`; `StatsFromCache`,
  `StatsBegin`, `StatsCount`, `StatsDone`; `Stop`, `Close`.  The monotonic and the wall clock
  are one clock here, that nobody steps.

### Dashboard

* `tick[s]` is a `tick()` under way: the poll chain's or that of a unit button, with the two
  documents of `Promise.all` as they arrive; `page` is the pill, the total and the live
  drones on the screen; `recent` the table of recent detections, its throttle and its badges.
  `since` and `fresh` are history: when the tick began, and whether another was rendered
  since.
* Actions: `TickBegin`; `AnswerStatus` and `AnswerFeed`, each a handler thread's critical
  section with a clock reading that may be older; `Render`, the rest of `tick()`; `TickFails`,
  the `catch`; `LoadRecent`, `ThrottleOver`.  A load of the recent table is taken to come back
  within the 30 s of its throttle.

### Lifecycle

* `main` follows `main()` from the start of the threads over the bind, the blocking MQTT
  connect and `serve_forever` to the `finally` and its sleep, or records how the process
  ended; `wifi` is at one command of `set_monitor_mode()`, at the socket, in the capture
  loop, at one command of `restore_managed_mode()`, or dead; `adapter` is what the commands
  make of it (the type of a link that is up cannot be set); `ble` is the retry loop, `delay`
  its delay, `controller` the Bluetooth controller and `hearing` whether it scans for us.
  `captured` and `covered` are history.
* Faults, bounded by `MaxFaults`: the port is taken (`BindFails`), signals, handled or before
  their handler, kills (`Terminate`), commands and the socket fail (`SetupFails`,
  `ReceiveFails`), the adapter is pulled out (`Unplug`), a scanner fails to start
  (`ScanFails`), the controller is reset (`Reset`).
* Time is counted where the code relies on it: the loop looks at the stop flag within
  `LoopTime` (the 1 s of the socket), the restore takes `RestoreTime`, main sleeps `Grace`
  (1.5 s).  `GraceIsEnough` assumes `LoopTime + RestoreTime < Grace`: that three short
  commands take less than half a second is the code's assumption, and here it is a named one.

### Frames and Reception

* `Frames` translates each walker and decoder: Python's slices become `Slice`, `Rest`,
  `Byte`; an early `return None` becomes `None`.  A loop over items is the set of the offsets
  it visits (`Offsets`, a recursive function over where each item ends), of which `Items` keeps
  those that are there as a whole; a `return` inside it is the `Min` of the offsets that
  qualify, a dictionary entry that a later field overwrites the `Max`.
  Coordinates stay in the integers of the wire (1e-7 or 1e-5 degrees), so the range checks
  are exact; speeds are quarters of a metre per second, altitudes half metres.  The BLE and
  Wi-Fi copies of the decoders are modelled once: a difference between the two would not show.
* `IsNanAction` looks for the service id in the first 64 bytes, as the code does; the
  attributes of `NanBefore` are short enough for it, and `NanFound` speaks of these.
* `Reception` is the reference: `Chain`, `FrenchPayload`, `NanBody`, `PackBytes`,
  `LocationBytes`, `TapBytes` encode structures forwards, as a transmitter or a driver does;
  every action cuts the bytes anywhere and receives them.  The properties say what must be
  found from the structure and the cut alone.  How many elements, fields and present words
  there may be, what packs and Locations claim and which payloads are `Sent` are constants.
* One transmission is not what it is under another header: the body of a NAN frame in a
  beacon's frame is walked for elements, and the first of them, which begins inside the
  service id, is 146 bytes long.  With a payload of less than 140 bytes it overruns and
  nothing is found; `TransportsAgree` says no more of a longer one, whose payload bytes would
  be taken for elements.

## 3. The runs

| Run | Shows | States |
|---|---|---|
| `Tracker_cache` | two radios, two MACs, two drones, sweeps: `MacMapSound`, `SourcesInOrder`, `Accounting`, `Timely`, `CountedOnce`, `EvictedOnlyWhenSilent`, and the refinement of `Airspace` | 1.42M |
| `Tracker_reads` | a client that alternates freely between feed and `/status`: `DocsConsistent`, `DocsMoveForward`; and `EventuallyEmpty` under fairness | 707k |
| `Feeders` | packs over BLE and French beacons over Wi-Fi, all five message types: `PackAttributed`, and for the cache behind them `TypeOK`, `Dated`, `OperatorLabelled`, `FlightOfPosition`, `IdentityWriteOnce`, `NeverForgotten` | 1.21M |
| `Dashboard` | `PageMovesForward`; `PageConverges` under fairness, with a failing request | 854k |
| `Mqtt_live` | a short queue, stop and restart: `TypeOK`, `ClearComing`; `ClearedUnlessLost`, `EventuallyShown` under fairness | 519k |
| `History_log` | failing inserts, stop, stats: `TypeOK`, `SpacedWrites`, `StatsFresh`, `KeptWhileYoung`; `EventuallyPruned` under fairness | 2.39M |
| `Lifecycle` | five faults in any order: `TypeOK`, `RestoredOnStop`, `GivenBackByThread`; `CapturesAgain`, `ScannerRecovers` under fairness | 55k |
| `Frames` | `BeaconFound`, `FrenchAllOrNothing`, `NanFound`, `PackInBounds`, `LocationAsSent`, `LevelFound`, `TransportsAgree` | 55k |
| `Mqtt_reappear` | **violation** of `LiveTopicKept`: a drone is back before its expiry was drained | |
| `Mqtt_stop_race` | **violation** of `LatestWins`: `stop()` flushes during a flush | |
| `History_rotation` | **violation** of `RotatesOnlyWhenOver`: once over its cap the file never shrinks | |
| `Ble_reset` | **violation** of `ScannerRecovers`: a controller is reset under a running scan | |

The violations are statements of the repository's documents that the code does not keep;
`PROJECT.json` quotes each and says how the counterexample goes.  `Lifecycle` checks
`ScannerRecovers` with `MayReset = FALSE`, where the controller fails only a scanner that is
starting, which is what the retry loop handles; `Ble_reset` is the same specification with
`MayReset = TRUE`.  That no exception reaches the sleeping coroutine then is the model's
reading of the scanner library, and the code has no other check that the scan goes on.

Some smaller disagreements need no run, since one reading of the model shows them:

* `tracker.py:257, 387`: clock readings are older than the lock they wait for, so `last_seen`
  may go back by the time one radio waited for the other, and a reader may be served a
  negative age (FEED.md:119 "Seconds since ...").  `Timely`, `EvictionIsJustified` and
  `PacksAreAttributed` say what holds nevertheless.
  No property looks at ages: `DocsConsistent` and `DocsMoveForward` are about the counts in the
  documents, which are copied under the lock.
* `history.py:174, 182`: a row's time is read after the debounce stamp, so two rows of one drone
  may be dated closer together than the debounce (README.md:193 "per-drone min write spacing").
  The stamps are a window apart; `SpacedWrites` says so, and that the times follow them.
* `mqtt_publisher.py:201`: the queue drops the newest event, line 102 says "drop-oldest".
* `mqtt_publisher.py:205`: an expiry that meets a full queue is dropped without a word, and
  its topic stays, although CHANGELOG.md:69 says "Empty payload on TTL eviction so
  subscribers see the removal".  `orphans` records it, and `ClearedUnlessLost` names it as
  the exception it is.
* `mqtt_publisher.py:133`: a restarted publisher has forgotten the topics it left (`orphans`).
* `history.py:201`: the change hook waits for the cleanup thread's DELETE with the cache lock
  held, `tracker.py:191` asks for hooks that do not block.
* `dump3411.py:245, 254`: a failed bind, or a signal during the MQTT connect, ends the process
  with the adapter in monitor mode; `dump3411.service:15` promises the restore to a shutdown
  handler only.  `RestoredOnStop` speaks of stops that found the capture loop running.

### Bounds, and why they are enough

* `MaxTime` stops the clock, `RxUntil` the transmitters.  In the runs with a liveness
  property there is room between the two for the last drone to age past the TTL and for
  every debounce window or retention to elapse.  `Mqtt_live` makes the last debounce window
  wait for a change hook that is running, so that no row is left behind by the bound itself.
  `Feeders` has room for a commit of each radio as late as `Patience` allows, and a sweep.
* `MaxMessages` (2 to 4), `MaxRows` (3) and `MaxChanges` (2 in `History_log`, 3 in
  `History_rotation`) bound behaviours.  Four
  messages of two radios suffice for: identity, position, eviction and identity again; two
  calls pending at once on one drone; a re-mapped MAC.  Three, in `Feeders`, for a pack of
  two and a late Basic ID of the other radio on the same drone.  Three rows suffice for
  shown, evicted and back; two changes for a row, or a failed one, and the next, dated on either
  side of a tick; two messages and two ticks for a page that is overtaken.
* Two drones and two MACs are the least that can be confused; each property speaks of one
  drone or MAC, or of a pair.  The runs with one drone (`Mqtt_live`, `History_log`,
  `Dashboard`, `Tracker_reads`) check properties that speak of each drone by itself, of
  sinks that treat drones independently, and that are proved for any number where they are
  safety.  `SYMMETRY` is declared only in `Tracker_cache`, which has no liveness property.
* `Ttl` is 0 or 1 (2 in `Feeders`, twice `Patience`): a drone that was heard less than a tick
  ago stays, one heard earlier may go; larger values only lengthen the wait.  `Debounce`,
  `Retention` and `StatsTtl` are 1 or 2 for the same reason.
* `QueueMax` is 2 in `Mqtt_live`, so that it fills with three updates and yet an expiry can
  stand behind a detection; 6 in the two violations, where nothing shall be lost.
* `FileCap` is 1 row, so that the rotation is reached with two.  `Boot` is 2, the
  debounce window after zero, which is what `_last_write.get(uas_id, 0.0)` compares with: the
  first row is written at once, and a second one fits before the radio falls silent.
* `MaxFaults` is 5 in `Lifecycle`: a crash during the set-up, a kill, a start by hand, an
  unplugged adapter and a stop fit into one behaviour.  `DelayMax` is two doublings away.
* `Feeders` has two Locations (one complete, one without altitude and climb), a radio that
  reports signal strengths and one that does not, two UA types, and one id type:
  `IdentityWriteOnce` of the id type is left to `IdentityIsWriteOnce`, which has any number.
* `Frames`: three elements or TLVs (one found, one passed over, one cut), two extra radiotap
  words, every subset of the optional fields, every cut, both sides of every boundary of a
  coordinate, a heading, a speed range and an altitude; messages of four types and packs of
  two, three and nine.  Section 4 removes these bounds.

Deadlock checking is off where the program may stop or the bounded air falls silent; in
`Tracker_cache`, `Mqtt_reappear` and `History_rotation` it is on, since some thread can
always go on.

### Fairness

`FairSpec` and `FairDashSpec` assume weak fairness of time, of the threads' own steps and of
the sweeper's, publisher's and cleanup thread's loops: each is a daemon thread whose waits
have timeouts, and the locks are held for bounded work.  Nothing makes a transmitter send, a
reader ask, anybody stop or press a button.  `Mqtt_live` needs strong fairness of `DrainOne`:
the 50 ms budget of a drain may be spent before it took anything, but the thread comes back
to the queue again and again and does not find its budget spent every time.  In `Tracker` a
lock is taken fairly enough: `WF(Update(t))` suffices because the change hook always ends and
messages are finite.  In `Lifecycle` the threads proceed, systemd restarts what crashed and a
controller that powers up gets there; a socket error is only fair when the adapter is gone,
and nobody has to plug it in.  In `Dashboard` the server answers and the page's timers go
off.

## 4. What is proved

TLAPS checks every proof to its leaves.  Every invariant and every action property that a
passing run checks is a theorem.  The assumptions are those named in the modules:

* bounds and durations are naturals and `None` is not a value (`ConstantsOK`, `NoneIsNoValue`,
  `PacketsOK`, `BoundsOK`, `NoneIsNoData`), an operator fix is a coordinate with its type
  (`OpFixesOK`) and a Location has a position (`ReportsOK`);
* the radios have addresses of their own and dispatch a packet within half the TTL
  (`RadiosApart`, `RadiosPrompt`);
* a round of the capture loop and the restore fit into main's sleep (`GraceIsEnough`);
* what is transmitted can be encoded: a pack claims bytes (`PacksOK`), a Location int32
  coordinates, a heading below 360, a speed up to the last step of its range and a uint16
  altitude (`LocationsOK`), and a payload sent over every transport is a message of 25 bytes or
  a pack of one to nine, of any content (`SentOK`).

Nothing bounds the number of threads, drones, MACs, readers, ticks or events, the size of a
packet, or the number of elements, fields and present words in a transmission.

**TrackerProofs.** `IInv` is the conjunction of `TypeOK`, `MacMapSound`, `SourcesInOrder`,
`Dated`, `OperatorLabelled`, `FlightOfPosition` and `Timely`. It is inductive because the five
updates share one critical section (`CommitKeepsIInv`) and differ only in the entry they start
it from: a new one (`NewEntry`) or an old one with something learnt (`Learnt`). `Timely` is
what makes it work for eviction: stamps, pending clock readings and the cutoff all lie in the
past, so `lastSeen < cutoff` at the DELETE still means a silence longer than the TTL.
`SourcesInOrder` rests on a lemma about moving an element to the front of a sequence
(`TouchSources`), proved from the definition of `RemoveFirst`. From `IInv` follow the
invariants themselves, the action properties `IdentityIsWriteOnce`, `NothingIsForgotten` (of
the fields that only a value replaces: `KeptFields`), `EvictionIsJustified`,
`EveryMessageCountedOnce`, `DocumentsMoveForward`, and `TrackerImplementsAirspace`, step by
step: `Tick`, an update as `Hear`, an eviction as `Evict`, an expiry hook as `Notify`,
everything else as a stutter.

**AccountingProofs.**  `AlwaysAccounted` and `DocumentsAddUp` speak of sums over drones and over
transports.  The sums are the community modules' fold over a function, of which the library
proves nothing; the module proves that it does not depend on the order (`SumsInAnyOrder`) and
what the argument needs, how a sum changes with one term (`SumOneOut`, `SumOneSet`) and that a
part sums up to no more than the whole (`SumOfPart`).  Then `AddsUp` is inductive: an update
moves the total, its drone's count and its transport's counter by one each, an eviction takes
the counts of its drones and nothing from the totals, and a document copied under the lock
adds up as the cache does (`CopiesAddUp`).

**FeedersProofs.** `FeedersImplementTracker`: a `Deliver` is a `Receive`, capturing and
finishing a packet are stutters; so all that was proved of the cache holds behind the feeders,
the refinement of `Airspace` included (`CacheBehindFeeders`). `PacksAreAttributed` is the
point of the module. Its invariant follows the packet: until its Basic ID is committed it is
the first to go (`InPhase`); from then on the packet's address is mapped to it, since no other
thread hears that address, and its drone stays cached, since every stamp it can have, a late
one of the other radio included, is younger than twice `Patience`, hence than the TTL
(`FromPacket`).

**MqttProofs.**  `ClearAlwaysComing`: as long as the program runs, whatever is or can still be
shown of a drone that is not in the cache has a clear behind it, except the clears that were
dropped at a full queue or forgotten in a restart (`orphans`).  It is not inductive
alone: it needs that the publisher thread does one thing at a time (`Sequential`) and that
the change hook only runs for a drone that is in the cache (`HookInside`).  `TypeCorrect`
includes the cap of the event queue.

**HistoryProofs.** `WritesAlwaysSpaced` by the invariants that no row is stamped later than
the last stamp of its drone (`Stamped`), that no row is dated in the future (`Dated`), and
that the row that is not inserted yet comes after every row of its drone (`Newest`).
`YoungRowsAreKept` by `Pending`: what the cleanup thread read before it had the lock still
holds when it deletes, since time only grows and the file never shrinks. `StatsAlwaysFresh`:
what a refresh counts is no older than its own start, which dates it.

**LifecycleProofs.**  `AdapterRestored` is an argument about time: once main sleeps, the rest
of its sleep exceeds what is left of the loop's round plus the restore (`OnTheWay`,
`Timing`), so the sleep cannot end before the thread has gone through its three commands;
each finds the adapter as the one before left it (`Placed`).  `AdapterGivenBack` uses
the same invariant without the clock.

**DashboardProofs.**  `PageForward`: a total in a document lies between the one on the page
when its tick began and the cache's (`NotBehind`, `NotAhead`), as long as nothing was
rendered in between.

**ReceptionProofs.**  A transmission is one step, so each theorem is one about operators: what
the walker makes of the bytes is what the encoding put there.  They rest on three layers.

* *Strings in a row.*  Where each of a sequence of byte strings sits in their concatenation
  (`FlatLaidOut`), by induction over the number of strings.  The prover cannot instantiate an
  induction rule with an operator, so the induction is that of the least counterexample
  (`LeastCounterexample`), over the set of the numbers for which the statement holds.
* *Walks.*  The offsets a walk visits are a recursive function over offsets, which exists
  (`WalkExists`): what can be reached is what every set closed under the step holds.  If
  the ends are `Laid` at the offsets of a row, the walk visits just these, and keeps those of the
  items that end by the cut (`WalkVisits`, `WalkItems`).  For elements, TLVs and attributes this
  gives `ElementsKept` and `AttributesKept`, with `ElementRead` and `AttributeRead` for what is
  there.
* *Numbers.*  Little-endian bytes of 16, 24 and 32 bits, two's complement, the bits of a control
  byte and the two ranges of a speed are taken apart and put together again (`Int32Back`,
  `Uint16Back`, `BitsBack`, `SpeedBack`).

`BeaconsAreFound`, `FrenchIsAllOrNothing`, `NanIsFound`, `PacksStayInBounds`,
`LocationsAreAsSent` and `LevelsAreFound` follow.  In `NanIsFound` there is one thing more: the
attributes are walked from one offset and, if nothing is found, from the other; `NothingAmiss`
shows that the wrong walk finds nothing, since the header it reads announces more bytes than
the frame has.  `TransportsAlwaysAgree` puts the parts together for any payload: the frame's
address and level, the vendor element or the service descriptor around it, the application code
and counter before it, and that the decoders make a message of it at all (`PayloadRead`).

Only model-checked: the liveness properties, which with their fairness are beyond the prover
(`EventuallyEmpty`, `PageConverges`, `ClearedUnlessLost`, `EventuallyShown`, `EventuallyPruned`,
`CapturesAgain`, `ScannerRecovers`).

## 5. What is not modelled

* The numbers: unit conversion, rounding to floats, JSON and HTML; of single messages the
  height type, the flight area, the French altitude, speed and course, odd bytes in texts.
* MQTT: the online and status topics, the last will, reconnects and failing publishes, whose
  order is paho's and the broker's; two ids that share a topic.
* History: the read queries, one SQL statement each; a wall clock that is stepped.
* The channel hopper (one thread, one list), the NetworkManager file, the heartbeats.
* The map page and the history handlers, which read once.
* The version resolver and the install scripts: no state.

## 6. What could follow

1. `MqttPresence`: `online`/`status`, last will, reconnects and lost publishes, once paho's
   ordering of queued messages and the connect callback is pinned down by a test.
2. History's read queries, three of which make one map document from three cuts.

## 7. Running the checks

    tlc -config Tracker_cache.cfg MCTracker      # Feeders: MCFeeders, Mqtt_*: MCMqtt,
                                                 # History_*: MCHistory, Dashboard: MCDashboard
    tlc -config Lifecycle.cfg Lifecycle          # also Ble_reset.cfg
    tlc -config Frames.cfg MCReception
    tlapm TrackerProofs.tla                      # and the other seven *Proofs modules
