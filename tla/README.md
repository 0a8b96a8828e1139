# dsme in TLA+

dsme, the Device State Management Entity of Sailfish OS, decides whether the
device is up, acting dead (charging while "off"), shutting down or rebooting. It
feeds the hardware watchdogs, watches processes, wakes programs up and supervises
temperature and battery. This directory holds TLA+ modules of its core, the TLC
configurations that check them and TLAPS proofs.

Run `tlc -workers 2 -config X.cfg M` and `tlapm M.tla` in this directory.
`PROJECT.json` lists components, runs, mutants, the map from definitions to
source lines, findings, hazards and theorems.

## 1. Inventory

### Processes and threads

* **dsme-wdd** (`dsme/dsme-wdd.c`, `dsme-wdd-wd.c`): a real-time process that
  kicks the hardware watchdogs every 12 s and exchanges pings and pongs with its
  child over two pipes. It ends when the child ends or stops answering; systemd
  then restarts the pair.
* **dsme-server** (`dsme/dsme-server.c`, `mainloop.c`, `modulebase.c`): one
  thread with a glib main loop and plugins that talk by messages. Every iteration
  handles the message queue until it is empty, then dispatches ready sources
  (timers, sockets, D-Bus). A second thread only writes the log (`logging.c`).

### Components

| component | state it keeps | operations | correct when |
|---|---|---|---|
| `state.c` | 12 state bits, charger, battery level, current state, 6 timers | 14 message handlers, 6 timer callbacks, 1 D-Bus signal, init, fini | the state follows the priorities of the bits; going down is final; emergency calls and blockers hold; critical conditions win |
| `modulebase.c` | message queue, handler list, loaded modules | broadcast, queue, handle, load, unload | FIFO; each message reaches every handler; nothing is handled by an unloaded module |
| `mainloop.c`, `dsme-server.c` | NOT_STARTED/RUNNING/STOPPED | run, quit, signals, socket read | quitting is noticed; queued messages are handled before plugins go |
| `runlevel.c`, `malf.c` | none | order init; run enter_malf | nothing goes down that was not warned, unless forced |
| `emergencycalltracker.c` | `emergency_call_started` | call state signal | agrees with `state.c` |
| `dbusproxy.c` | `dsme_state`, tracker of blockers | D-Bus methods, indications | what it answers follows `state.c`; a block ends with its client |
| `dsme_dbus.c` | connection, bindings, trackers, tracked clients, pending owner queries | connect, disconnect, bind, add/remove client, owner reply, name dropped | living clients stay tracked, dead ones do not |
| `dsme-wdd.c`, `heartbeat.c` | `run`, ping count, abnormal exit, wakelock, watchdog files | mainloop, signals, kill_and_wait, ping/pong | watchdogs fed while it runs, a hung server is replaced, a survivor stays guarded |
| `processwd.c`, `dsmesock.c` | processes, ping counts, kill timers, connections | create, delete, pong, wake-up, close, kill timeout | only the unresponsive are killed, and they are |
| `iphb.c` | clients with time windows, timer, RTC alarm, wakelocks; time difference, saved time, power-up alarm | wait, wake up, cancel, resume; start, end, timed's reports | each client is woken inside its window, also from suspend; the time and the alarm survive restarts |
| `logging.c` | ring buffer, counters, eventfd, thread, rules and their cache | queue, write, stop, close | no entry is lost unnoticed or overwritten while it is read |
| `thermalmanager.c`, `thermalobject.c`, `thermalsensor_generic.c` | per sensor status, pending request, time of transition, booked wake-up | configure, poll, answer, report | the worst sensor decides; no sensor is forgotten; a glitch is not believed |
| `batterytracker.c` | level, charger, battery status, alarm, pending calls, two timers | signals, replies, owner changes, rethink | knows what MCE knows; an empty battery requests a shutdown, charging takes it back |
| `alarmtracker.c` | alarm time, saved copy, alarm state, timer | report, evaluate, save, restore | `state.c` knows of a near alarm; the file is whole |
| `usbtracker.c` | mode, run state of usb_moded, wait timer, calls | signals, replies, owner changes, timeout | `state.c` knows of a mounted file system, and of its end |
| `dbusautoconnector.c` | socket watch, retry timer, connection state | inotify, retry, connect | dsme gets to the bus when there is one |
| `pwrkeymonitor.c`, `diskmonitor.c` | a timer and a few flags each | input events, files | not modelled |
| others (`validatorlistener`, `powerontimer`, `bootreasonlogger`, feedback, loaders, tools, `getbootstate`) | little or none | I/O | not modelled |

### Interactions

Trackers broadcast `SET_*` messages; `state.c` answers with `SAVE_DATA_IND`,
`STATE_CHANGE_IND`, `STATE_REQ_DENIED_IND`, `BATTERY_EMPTY_IND`, `SHUTDOWN`,
`CHANGE_RUNLEVEL` and `ENTER_MALF`, which `dbusproxy.c`, `runlevel.c` and `malf.c`
handle. D-Bus clients reach `state.c` through `dbusproxy.c`, socket clients through
`dsmesock.c`. `processwd.c`, the thermal manager and `alarmtracker.c` ask `iphb.c` for
wake-ups. `thermalmanager.c` and `batterytracker.c` send what `state.c` decides on.
MCE, timed, usb_moded, dbus-daemon and the kernel are the partners outside.

### What is hard

Nothing is concurrent inside dsme-server except the log thread, but a message is
handled later than it was sent: timers read state that other handlers changed,
copies of state follow through the queue, a client may die between any two steps
of its tracking. A service that a plug-in follows may restart at any time, and its
name owner, signals and replies overtake each other. The device suspends whenever
no wakelock is held. dsme may crash between two writes to files or to the rtc.
The log thread shares a ring buffer without a lock. dsme-wdd has signals between any two instructions and a time
budget. `hazards` in `PROJECT.json` lists these places with their lines.

## 2. The modules

| module | models | kind |
|---|---|---|
| `State` | `state.c` and the part of `mainloop.c`/`timers.c` it depends on | component |
| `StateProperties` | its type invariant, invariants and temporal properties | properties |
| `PowerControl` | `State` composed with the message queue, `dbusproxy.c`, `emergencycalltracker.c`, `runlevel.c`, `malf.c` | composition |
| `PowerControlProofs` | the proofs of `State` and of `PowerControl`, which build on them | proofs |
| `DbusProxy` | shutdown blockers: `dbusproxy.c`, trackers of `dsme_dbus.c`, the bus, the flag of `state.c` | component |
| `DbusProxyProofs` | its proofs | proofs |
| `Wdd` | `dsme-wdd.c`, `dsme-wdd-wd.c`, `heartbeat.c`, hardware watchdogs, systemd | component |
| `ProcessWd` | `processwd.c`, client sockets, queue | component |
| `WatchdogProofs` | the proofs of `Wdd` and of `ProcessWd`, side by side | proofs |
| `Iphb` | the clients, timers, alarms and wakelocks of `iphb.c`, suspend and resume | component |
| `IphbProofs` | its proofs | proofs |
| `LogChannel` | what `logging.c` promises: a bounded channel that counts its losses | abstract specification |
| `Logging` | `logging.c`, both threads; implements `LogChannel` | component, refinement |
| `LoggingProofs` | its proofs, the safety part of the refinement included | proofs |
| `Thermal` | `thermalsensor_generic.c`, `thermalobject.c`, `thermalmanager.c`, `thermalflagger.c` | component |
| `ThermalProofs` | its proofs | proofs |
| `Battery` | `batterytracker.c`, MCE | component |
| `BatteryProofs` | its proofs | proofs |
| `UsbTracker` | `usbtracker.c`, usb_moded | component |
| `AlarmTracker` | `alarmtracker.c`, its file, timed | component |
| `SystemTime` | the time keeping of `iphb.c`, rtc, files, power off and on | component |
| `DbusManager` | `dbusautoconnector.c`, connection and bindings of `dsme_dbus.c`, dbus-daemon | component |
| `SinglePlugin` | the four above side by side, one in each behaviour | composition for one run |
| `SinglePluginProofs` | the proofs of the four | proofs |
| `MC...` | small instances | instances |

Each module keeps, next to some definition, its mutants: plausible bugs of that
definition (`\* Mutant: ...`) that break the property `PROJECT.json` names.
No specification uses them.

**State.** The statics of `state.c` are the variables; a C function that changes
them is an operator from a record of the statics (`Now`) to its next value, and
`Commit` makes the result of a handler the next state. A boolean static is
membership in `bits`; a running timer is membership in `timers` and may fire at
any time, so delays are abstract and `USER_TIMER_MIN/MAX_TIMEOUT` are not told
apart. `sent` is what the last handler broadcast; `init_told` is history. `Env`
is what the code asks the system: whether glib fails to create a timer (one per
handler) and whether `need_to_use_reboot()` finds a parameter file. The build
option, the home encryption and R&D mode are constants. `Inputs` bounds which
messages the environment sends in a run; the proofs hold for every value.
Level triggers with the same code (TELINIT, `*_REQ`) share the action `Request`.

**PowerControl** splits an iteration of the main loop into its two phases.
`Dispatch` steps run a timer callback or queue a message; `HandleMessage` takes the
head of the queue; `StateHandler` selects the action of `State`. `MaxQueue`
bounds how many messages one round of dispatches queues. A lost D-Bus connection
is not modelled here: MCE and the proxy are connected throughout.

**DbusProxy** has two FIFO channels between dsme and the bus daemon. A query is
answered when the bus gets to it; `dbus_pending_call_cancel` turns a query or a
reply in flight into one nobody waits for. Unique bus names are never reused.
A GetNameOwner may fail for a living client (timeout, out of memory); the code
takes that for its death and the history variable `misjudged` remembers it.
dbus-daemon may drop the connection at any time (`ConnectionLost`): part of what it sent
still arrives, and the trackers stay, since only DBUS_DISCONNECT flushes them. So
`NoDeadBlocker` is a promise about a connection that lasts, or that dsme closes itself:
a client that is tracked when the connection is lost blocks shutdown, and with it the
reboot that the loss asks for, until a DBUS_DISCONNECT. Without that restriction the
property is false, and `findings` tells what it means. `BlockedIffTracked` rests on the
count changing by one or to zero, since the handler looks for 0 and 1 only.

**Wdd** counts seconds. The daemon is at one of the places where time passes or a
signal matters (`pc`): before the test of `run`, between it and `nanosleep()`, in
the sleep, in the two waits of `kill_and_wait()`. A signal outside the sleep only
clears `run`, as in the code. The hardware watchdogs reset the device after
`Period` seconds without a kick, also when dsme-wdd is gone. dsme-server may hang
(and recover), get stuck in the kernel, exit or crash. A restart begins with a new
dsme-server; one that an earlier dsme-wdd could not kill is no longer followed.

**ProcessWd** follows a message from the client's `write()` through the socket and
the queue to the handler. A process is identified with its pid and connection.
`kill()` of SIGKILL makes a process silent at once; its socket hangs up later.
iphb is one wake-up for every `WAIT`.

**Iphb** counts ticks, `TPS` to a second, because the code compares `struct timeval`s
but programs alarms in whole seconds. The heartbeat and the main loop timer stand
still in suspend; the alarm (timerfd, android alarm device or rtc) does not. The
device suspends whenever the set `wakelocks` is empty. `clientlist_wakeup_clients_now()`
is one step when it is called by the check itself. The heartbeat and the timer take a time
stamp (`tv_now`) and give up the wakelock of the check first; the rest is then
`FinishScan`, from that stamp, and the device may suspend in between. What the code does
after that is what the model does: clients that became due meanwhile are skipped, and
the timer and the alarm are late by the time suspended. `lag` is the age of the stamp
behind the alarm, by which `AlarmCovers` allows it to be late; `unguarded` lasts until a
scan with a current stamp. Other callbacks (WAIT, timed's signals, input from files) are
one step with regard to suspend. `dev` is the rtc file, the
needs that keep it open, the alarm and the cached previous alarm. `Guarded` names what
stands between a client and oversleeping; where the code leaves a gap, `unguarded`
remembers it and `WokenInTime` excludes it. The gaps: the cached alarm is not
programmed anew after the need for it was dropped, a suspend in the middle of a scan,
the android alarm has no event of its own, a
timerfd is not set while the rtc cannot be opened, and a report of timed has the alarm
computed without a scan. The last one matters (`Stranded`) in the second before a
client is due and after: the alarm is then taken away, and when an earlier suspend
delayed the main loop timer and the heartbeat, nothing is left to come in time.

**Logging** has a program counter for each thread, so that formatting, counting and
notifying on the one side, and reading the eventfd, checking, writing and counting on
the other, interleave freely. Counters wrap at `COUNT_MODULUS`. A write to the eventfd,
starting the thread, and the thread itself may fail. `Channel` maps the ring to the
queue of `LogChannel`: the entries between the counters, less the one written but not
counted yet; the skipped messages to `unreported`; the promise ends (`up`) with the
thread. Fairness is part of what is implemented: what was queued is written.

**Thermal** parses configuration lines (`Keyword`, per key word what its arguments
set), registers the valid sensors at DBUS_CONNECTED and follows each object's chain:
request, answer from an idle callback, report, next wake-up. Time is in units of the
poll delay during a transition; a wake-up comes any time up to the end of its window.
A meta sensor is read when the sensors that it matches have answered. Meta sensors
depend on file sensors only. The history fields `seen`, `hot` and `dropped` support
the properties. `hot` counts while the file of a sensor gives a FATAL temperature within
`IGNORE_TEMP_BELOW .. IGNORE_TEMP_ABOVE`: others are never believed. `Patience` is the
longest poll delay of the configuration, the transition delay and one more poll. It is a
bound for an awake device: only the polls of a transition ask to be resumed for.

**Battery**, **UsbTracker** share a pattern: what the partner and the bus daemon
send arrives in order in `inbox`, calls are pending in `pc` or `calls` until a reply or
an error. The reply of a cancelled call is a message nobody waits for in `Battery` and
is taken out in `UsbTracker`. The partner starts, changes and
dies at any time, `MaxEvents`/`UsbEvents` times. The four values of MCE go through one
operator each for signal, reply and assignment, as the code repeats them. Excluded from
the properties, and named in their comments: a query that failed, and a partner
that was thought to be running when a new connection was made (`remembered`, `unseen`).

**AlarmTracker** takes a save apart into open, write and rename, with a crash or a
failure after each; the WAKEUP that begins it does not resume a suspended device.
**SystemTime** has two clocks, the files and the power-up alarm;
`real` is the true time. A device is described by whether the rtc can be set, the kernel
reads it, and the home is encrypted. `TimeKept` holds over regular ends, crashes and power
losses as long as `known` does. `known` ends where the code loses the time: the user
sets it before the first update interrupt, or on an rtc that cannot be set while nobody
noticed (`Unprobed`: that is tried only with a difference in the file or an rtc below the
minimum), or just before dsme dies (`unwritten`: only a difference is written while dsme
runs); dsme dies after the time was set back behind `saved_time`; the kernel takes the time
from an rtc that is ahead of it; and the rtc itself loses power. Each is needed: without
any one of them the run finds `TimeKept` violated.
**DbusManager** keeps what is bound in dsme and what the bus has of it apart.
These have no shared state with each other in dsme except messages to `state.c`;
`SinglePlugin` chooses one of them per behaviour.

## 3. Runs

| run | states | question |
|---|---|---|
| `state_indirect` | 984 k | the policy of the shipped build against all reports and requests |
| `state_direct` | 45 k | the build with direct switching, failing timers, all senders, malf boots, unloading: liveness |
| `power_control` | 1.2 M | copies of state behind the queue, warning before init is told |
| `dbus_proxy` | 529 k | blockers that come, go and die, a connection that is closed or lost; liveness |
| `wdd` | 428 k | the real periods (20 s, 12 s, 8 s, 3 s, 5 pings); liveness |
| `process_wd` | 91 k | one client, its socket, failing timers; liveness |
| `iphb` | 2.8 M | clients are woken in time over suspend, with every kind of alarm |
| `logging` | 510 k | the ring buffer between the threads; refinement of `LogChannel` with its fairness |
| `thermal` | 162 k | polling, transitions and reports of four sensors |
| `battery` | 609 k | MCE that restarts and answers late; liveness |
| `single_plugin` | 380 k | usb_moded, the alarm file, time over restarts, dbus-daemon; liveness |
| `state_thermal_emergency` | violation | a thermal shutdown is lost to an emergency call |

The violation run states what a document says. `findings` has more of the kind,
met while modelling, that no run is spent on: each quotes the comment or document and
tells what the code does instead. Where a property of a passing run excludes such a
case, its comment says so.

The type invariants (`TypeOK`, `PTypeOK`) are there for the proofs; the runs are spent
on the other properties.

### Bounds, and why they are enough

* `state_indirect` and `state_direct` have no bound but the constants: the state
  of `state.c` is finite. Battery levels 2 and 3 lie on both sides of the
  threshold, and the initial -1 is the third. The runs share the build options and
  the inputs between them so that each stays small; senders only matter for the
  privilege tests, which `state_direct` covers.
* `state_direct` leaves out `$BOOTSTATE` SHUTDOWN: with a timer that fails before
  the main loop runs, `dsme_main_loop_quit()` does nothing and
  `CriticalShutdownHappens` is false. `g_timeout_add()` failing at boot is not worth
  a finding.
* `MaxQueue = 2` in `power_control` lets two sources of an iteration race, which
  is what the ordering properties are about; the answers of handlers are not
  bounded.
* Two clients in `dbus_proxy` tell "the last blocker" from "a blocker"; two
  messages each way let a reply overtake a second call. The bound on dsme's side
  delays reading, it never drops a message.
* `wdd` uses the real constants. One signal may arrive at any step; more only
  repeat the interrupted sleep. Pipes hold two bytes: dsme-wdd reads all of them.
* `process_wd` has one process: entries interact only through `ping_all()`,
  which treats each alone. A queue of three lets CREATE, DELETE and a wake-up, or
  a PONG and the wake-up it races, be queued at once. Ping counts are bounded by
  `MAXPING + 1`: above it nothing is compared any more.

* `iphb`: an external client and a module are enough for a wake-up of one to reset or
  delay that of the other, and for must_wake to wake one early; the requests are a
  cancellation, a slot and two windows. Requests come in the first two ticks, and
  the bound of eight ticks is past every maxtime, heartbeat and alarm that follows,
  and long enough for a suspend that delays the timer, a resume and a report of timed.
  `IphbProofs` covers every bound.
* `logging`: a ring of four wraps twice in seven messages and counters modulo eight
  wrap too; `LOW_MARK` is 3, so that the hysteresis is used.
* `thermal`: one core heats up, cools down, breaks and is turned off, the other is
  cold: LOW and FATAL meet. Windows of two units and the delay of two make a
  transition take several readings. Lines before any name, in the
  first and in the second file, and a sensor whose limits do not ascend exercise the
  configuration.
* `battery`: charger and level decide about the shutdown; the other two values take
  the same path. Five events let MCE start, change, restart and be asked again.
* `single_plugin`: four or five events of the partner each; alarm times before, at and
  after the snooze limit; five devices; two plug-ins bind and unload.

Deadlock is not checked where the system stops: after `module_fini()` (`State`,
`PowerControl`, `ProcessWd`), after a watchdog reset (`Wdd`), after `dsme_log_close()`
(`Logging`), and where a bound on time or events ends a behaviour (`Iphb`, `Battery`,
`SinglePlugin`). `DbusProxy` and `Thermal` never stop, and there it is checked.

### Fairness

* `State`: running timers fire while the main loop runs, plugins are loaded and
  the main loop started. Nothing is assumed of reporters.
* `DbusProxy`: the bus and the main loop of dsme handle what was sent. Clients may
  stay for ever, and nothing is assumed of libdbus ending calls after a loss.
* `Wdd`: dsme-wdd is SCHED_FIFO and never starved, time passes, systemd restarts
  (`Restart=always`), SIGKILL ends a process that is not stuck in the kernel.
* `ProcessWd`: the queue and the timers are served. The wake-up of iphb has strong
  fairness: in the model it is disabled while the bounded queue is full, in dsme
  the queue is not bounded, so a busy client cannot keep it out.

* `Logging`: both threads are scheduled and the backend returns. No fairness for
  the callers of `dsme_log()`.
* `Battery`, `UsbTracker`: the main loop delivers what has arrived and runs its timers,
  and every pending call gets a reply or an error (libdbus times calls out). Nothing is
  assumed of MCE and usb_moded.
* `DbusManager`: the queue, the watch and the timer are served. That dbus-daemon accepts
  connections is a premise of `BusReached`.
* `Iphb`, `Thermal`, `AlarmTracker`, `SystemTime` state safety with bounds on time
  (`WokenInTime`, and `OverheatReported` of an awake device) and need no fairness: a step that is due must
  happen before time goes on.

## 4. Proofs

Constants are arbitrary but for the named assumptions of their modules, the bounds on
clients, messages, events and time included. Each proof module names an inductive
invariant, has lemmas about the operators and the data (queues, counters, sets of
times), one step per action of `Next`, and theorems that follow from the invariant.

| module | theorems about properties of runs | inductive invariant |
|---|---|---|
| `PowerControlProofs`, the policy | `TimersMatch`, `CallHoldsRunlevel`, `DownIsFinal`, `CallFreezesState`, `BlockHoldsState` | `Inv` |
| `PowerControlProofs`, with the queue | `ProxyInStep`, `TrackerInStep`, `DataSavedFirst` | `PInv` |
| `DbusProxyProofs` | `BlockersAgree`, `LivingBlockersKept` | `TrackerInv`, `LiveInv` |
| `WatchdogProofs`, dsme-wdd | `KickedInTime`, `SurvivorIsGuarded`, `VerdictIsDue` | `KickBudget`, `VerdictInv` |
| `WatchdogProofs`, processes | `NobodyEscapes`, `OnlyUnresponsiveAborted` | `TableInv` |
| `IphbProofs` | `CheckAlwaysLocked`, `AlarmAlwaysCovers`, `WokenInTimeAlways` | `IInv` |
| `LoggingProofs` | `NoTornEntryAlways`, `FlushedOnCloseAlways`, and `ImplementsChannelSafety` | `RingInv` |
| `ThermalProofs` | `PollsStayAlive`, `WorstIsReported`, `OverheatIsReported`, `NoGlitchBelieved` | `TInv` |
| `BatteryProofs` | `DecisionIsCurrent`, `MceIsTracked` | `BInv` |
| `SinglePluginProofs` | `AlarmFileSurvives`, `AlarmsAnnounced`, `AlarmStartsDevice`, `TimeIsKept`, `MountIsTracked`, `BusStaysInStep` | `SInv` |

* The policy alone, in `PowerControlProofs`, from `StateAssumption`. `Inv` is `TypeOK`,
  `RunlevelTimerMatchesState`, `EmergencyHoldsRunlevel` and `InitToldDown`. None of
  them is inductive alone: `delayed_shutdown_fn()` sends whatever the current
  state is, so `InitToldDown` needs that its timer implies a state that goes down,
  and a timer that is started in a handler must not meet an emergency call, which
  `select_state()` guarantees only because it returns the current state. The
  argument goes through lemmas about the operators (`change_state`,
  `start_delayed_shutdown_timer`, `try_to_change_state`, ...): each takes a record
  that satisfies the invariant to one that does, and one step per action of `Next`
  applies them. The action properties use the same lemmas: no function but
  the handlers of the reports touches the bits that hold or force a state.
* The policy behind the queue, from `StateAssumption` and `PowerControlAssumption`. "The last
  message of a type, or else the copy" does not survive a step as a formula; `Lands`
  says the same with quantifiers over positions, and appending to and taking from the
  queue preserve it. `Clean` says what the handlers of `state.c` may have broadcast
  since one began in a given state. For `SaveBeforeDown` the invariant is about
  positions in the queue: before each SHUTDOWN there is a SAVE_DATA_IND, or one was
  handled (`Orders`).
* `DbusProxyProofs`, from `DbusAssumption`. `BlockersAgree`: the tracker reports
  only the counts 0 and 1, so the proof needs that the count changes by one or to
  zero, that is `client_cnt = Cardinality(lut)` (`TrackerInv`), and that messages
  carry clients (`QueuesOK`). `LivingBlockersKept`: what is on its way to dsme says of
  nobody who lives and was not misjudged that he is gone (`ObituariesTrue`).
* dsme-wdd, in `WatchdogProofs`, from `WddAssumption` (an interval, and both waits together, are
  shorter than the watchdog period). `KickBudget` bounds the time since the last
  kick plus what remains of the sleep or wait. `SurvivorIsGuarded` is inductive as it
  stands. `VerdictInv`: each counted ping stands for an interval of silence, unless
  a pong waits in the pipe.
* The process watchdog, in `WatchdogProofs`, from `ProcessWdAssumption`. `TableInv`: kill timers belong to
  processes in the table, and the ping count is never ahead of the pings without an
  answer.
* `IphbProofs`, from `IphbAssumption` (lengths are positive, times natural). `IInv` has
  the windows in order, the alarm of the rtc ahead or off, the cached previous alarm
  programmed or gone off (`PrevOK`), the locks, and for each client that wants to be
  resumed what will come for it: a check, a timer or heartbeat in time, or an alarm less
  than a second after its maxtime (`WakeOK`), which needs that an alarm from an old time
  stamp counts as a gap (`StampOK`). That the scans find a first client needs that
  a set of numbers has a least member, which follows from the well-foundedness of
  strict inclusion on finite sets (`MinExists`). The first attempt failed: with six
  ticks the run passed, but `WokenInTime` was not true without `Stranded`, the gap
  that section 2 describes.
* `LoggingProofs`, from `LoggingAssumption` (the counters wrap at a multiple of the
  ring size). `RingInv`: the tokens in the eventfd and in the hand of the worker never
  outnumber the entries between the counters, the ring is never more than full, and the
  entry that is written is not yet counted. Lemmas of modular arithmetic turn that
  into different slots. `ImplementsChannelSafety` maps each step of either thread to a
  step of `LogChannel` or a stutter.
* `ThermalProofs`, from `LinesAssumption` (what the parsers of the arguments leave in a
  line of the configuration) and `ThermalAssumption` (meta sensors are about file sensors),
  for any lines in any order, any limits and delays, and any numbers in the files.
  `ConfigurationRead` first: each sensor is listed once and has a configuration. Then, an
  unregistered object is as it was created (`Shape`); a status that is next has been shown
  by every reading as long as it is followed (`Followed`, which gives `NoGlitch`); a sensor
  that is overheated is so by its file and by the reading on its way (`HotFile`,
  `HotReading`), and until it is believed a poll is booked in time for `Patience` (`Due`);
  a request of a file sensor has its answer on its way (`Asked`); a meta sensor has a
  wake-up, a sensor it waits for, or was cancelled (`Alive`); the report is the worst
  status, or nothing was read since the objects were registered (`Told`). The invariant
  is about the record that the operators take, so each operator has one lemma, from
  the sensor up to `thermal_object_request_update()`, with what may be unfinished while
  it runs. The lines are read (`FoldLeft`) and the sensors registered (`RegisterAll`) one
  after the other; that both end in order takes no induction theorem: the stages that are
  out of order would be a set of numbers with a least member, which has a predecessor in
  order (`Descent`). That a
  maximum of delays or of temperatures exists (`MaxExists`) follows as in `IphbProofs`.
* `BatteryProofs`, from `BatteryAssumption`. `TracksMce` speaks of an empty inbox only; the
  invariant says what the messages in it add up to (`RunsAfter`, `GoneAfter`, `Queried`,
  `Told`): the last of them tells the truth, or a call is pending that will.
* `SinglePluginProofs`, from `AlarmAssumption` and `TimeAssumption` (nobody sets the time
  before that of the build). One invariant for each plug-in: what a save has done
  so far and the timer that ends when an alarm comes within a snooze (`AlarmInv`); the
  files and the rtc against the true time (`TimeInv`), where `KeptOK` says what the next
  start will make of them after an end or a death now (`LeftOK`, `WrittenOK`); what the inbox adds up to
  (`UsbInv`, as for the battery); and the bus against the bindings (`BusInv`).

Only model-checked: liveness (`CriticalShutdownHappens`, `NoDeadBlocker`,
`HungServerReplaced`, `HungProcessRemoved`, `EmptyBatteryReported`, `MountForgotten`,
`BusReached` and the fairness of `ImplementsChannel`), which is out of the prover's
reach.

## 5. Plan

Modelled: the state policy with its message queue, dsme-wdd, the log threads, and the
plug-ins that keep state over several messages with a partner, as far as section 6 and
`components` do not say otherwise. Every safety property and every action
property of the passing runs is proved. What is left: the plug-ins of section 6, should
they grow a protocol, and lemmas that two modules share (queues, the least member of a
set) in a module of their own.

## 6. Not modelled

* I/O without a protocol (see `components`): power-on time statistics, boot reasons,
  disk space, vibra and shutdown feedback, module loaders, boot settings, the command
  line tools and the boot state probe; `pwrkeymonitor.c`, which is not built by default.
* `modulebase.c`: the sorted handler list and loading while running; in
  `dsme_dbus.c` introspection, message building and the check of a signal's sender; in
  `iphb.c` the statistics request and the name of mce.
* Texts and log levels beyond the rules, the lengths of delays in the state policy,
  allocation failures other than timers, pid reuse and reuse of a connection's address
  in `processwd.c`, the second dsme-server that a failed `execv()` in `malf.c` leaves
  behind.
