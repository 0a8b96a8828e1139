-------------------------------- MODULE Iphb --------------------------------
(***************************************************************************)
(* The IP heartbeat service, modules/iphb.c: clients ask to be woken up in *)
(* a window of time, and are woken together where their windows overlap.   *)
(*                                                                         *)
(* Three things can bring dsme to the moment a client is due: the          *)
(* heartbeat of the watchdog process, a timer of the main loop (both stand *)
(* still while the device is suspended) and a wake-up alarm in the         *)
(* hardware.  The device may suspend whenever no wakelock is held, so what *)
(* has to be done before that is done under one.                           *)
(*                                                                         *)
(* Time is counted in ticks, TPS to the second: the code compares struct   *)
(* timevals, but programs the alarm in whole seconds.  The time stamps of  *)
(* the C code are ticks here, delays are seconds as there.                 *)
(***************************************************************************)
EXTENDS Integers, Sequences, FiniteSets, FiniteSetsExt

CONSTANTS
  Externals,          \* clients that come over the libiphb socket
  Internals,          \* dsme modules that send DSM_MSGTYPE_WAIT
  Requests,           \* their wait requests: [mintime, maxtime, wakeup]
  InternalRequests,   \* the wait requests of modules
  PowerupTimes,       \* alarm times timed may report, in seconds; 0 is none
  ResumeTimes,
  Interfaces,         \* the wake-up interfaces the kernel may have
  TPS,                \* ticks per second
  HEARTBEAT_INTERVAL, \* DSME_HEARTBEAT_INTERVAL, seconds
  PERIOD_SLOTSIZE,    \* client_adjust_period(), seconds
  MAXIMUM_WAKEUP,     \* RTC_MAXIMUM_WAKEUP_TIME, seconds
  BOOT_ESTIMATE,      \* STARTUP_ and SHUTDOWN_TIME_ESTIMATE_SECS, seconds
  KernelDevice,       \* the kernel has an iphb device
  LateRtc,            \* the rtc device may be missing at first
  Lut,                \* client_adjust_mintime(): rows <<maxtime, maxdiff>>
  UpdateRounds,       \* update interrupts used to follow the rtc (5)
  LastRequest,        \* bound: clients come and ask no later than this tick
  MaxTime             \* bound: ticks a behaviour lasts

ASSUME IphbAssumption ==
  /\ {TPS, HEARTBEAT_INTERVAL, PERIOD_SLOTSIZE, MAXIMUM_WAKEUP, UpdateRounds,
      BOOT_ESTIMATE} \subseteq Nat \ {0}
  /\ {LastRequest, MaxTime} \subseteq Nat
  /\ Requests \cup InternalRequests \subseteq [mintime : Nat, maxtime : Nat, wakeup : BOOLEAN]
  /\ PowerupTimes \cup ResumeTimes \subseteq Nat
  /\ Lut \in Seq(Nat \X Nat)
  /\ Interfaces \subseteq {"timerfd", "android", "rtc"}
  /\ Interfaces # {}
  /\ {LateRtc, KernelDevice} \subseteq BOOLEAN

Off == -1
Clients == Externals \cup Internals

VARIABLES
  now,          \* CLOCK_BOOTTIME, and the system time, in ticks
  suspended,    \* the device is suspended
  heartbeat,    \* ticks of uptime to the next DSM_MSGTYPE_HEARTBEAT
  running,      \* iphb.so is loaded
  clients,      \* the client list, as a function of the clients on it
  wakeup_timer, \* ticks of uptime left, or Off
  wakeup_clients_id, \* clientlist_wakeup_clients_id: a check is scheduled
  tv_now,       \* time stamp of a scan that has cancelled the check, no more, or Off
  wakelocks,    \* the wakelocks the kernel holds for dsme
  kernelfd,     \* the iphb kernel device is open
  dev,          \* the rtc device and the wake-up alarm, see DevType
  rtc_ok,       \* the rtc device is there
  irq,          \* the alarm has gone off and nobody has read of it
  timed,        \* [alarm_powerup, alarm_resume], in seconds
  lag,          \* history: the age of the time stamp the alarm was programmed from
  unguarded     \* history: nothing stood for a client, see Guarded and Stranded

vars == <<now, suspended, heartbeat, running, clients, wakeup_timer,
          wakeup_clients_id, tv_now, wakelocks, kernelfd, dev, rtc_ok, irq, timed, lag,
          unguarded>>
envVars == <<now, suspended, heartbeat, rtc_ok>>

\* An entry of the client list: struct _client_t.
ClientType == [started : BOOLEAN, mintime : Int, maxtime : Int, wakeup : BOOLEAN]

\* The rtc file, the reasons to keep it open, the idle callback that closes it,
\* the alarm last programmed, the update interrupts, the interface in use, the
\* alarm in the hardware and the result of the last rtc_set_alarm_after().
DevType == [fd : BOOLEAN, need : SUBSET {"ALARM", "UPDATES"}, ended_id : BOOLEAN,
            prev : {<<Off, "unset">>} \cup ((Int \X {"on", "off"})),
            uie : BOOLEAN, updates_todo : 0 .. UpdateRounds,
            to_system_time : BOOLEAN, initialized : BOOLEAN,
            iface : {"timerfd", "android", "rtc"}, alarm : Int, armed : BOOLEAN]

\* tv_sec of a time stamp, and of a difference of two (timersub() rounds down).
Sec(t) == t \div TPS
-----------------------------------------------------------------------------
(***************************************************************************)
(* The rtc device.                                                         *)
(***************************************************************************)
\* rtc_set_need(): keeps the device open while there is a need for it, and
\* has it closed from the main loop when there is none.
rtc_set_need(d, need) == [d EXCEPT !.need = need, !.ended_id = (need = {})]

\* rtc_detach(); the kernel turns update interrupts off with the file.
rtc_detach(d) ==
  [d EXCEPT !.need = {}, !.ended_id = FALSE, !.fd = FALSE, !.uie = FALSE]

\* systemtime_init(), the part that starts the update interrupts.
systemtime_init(d) ==
  [d EXCEPT !.initialized = TRUE, !.uie = TRUE, !.to_system_time = TRUE,
            !.need = @ \cup {"UPDATES"}]

\* rtc_attach(): opens the device unless it is open; the first time it also
\* takes the system time from it.
rtc_attach(d) ==
  IF d.fd \/ ~rtc_ok THEN d
  ELSE LET o == [d EXCEPT !.fd = TRUE]
           i == IF d.initialized THEN o ELSE systemtime_init(o)
       IN  rtc_set_need(i, i.need)

\* rtc_set_alarm_raw(): programs the rtc unless that is what it was told last.
rtc_set_alarm_raw(d, sec, enabled) ==
  LET alrm == <<sec, IF enabled THEN "on" ELSE "off">> IN
  IF d.prev = alrm THEN [d EXCEPT !.armed = enabled]
  ELSE [rtc_set_need(d, IF enabled THEN d.need \cup {"ALARM"}
                                   ELSE d.need \ {"ALARM"})
        EXCEPT !.prev = alrm, !.armed = enabled,
               !.alarm = IF enabled THEN sec * TPS ELSE Off]

\* linux_alarm_set(), linux_alarm_clear(): an absolute time, to the tick.
linux_alarm_set(d, delay) ==
  [d EXCEPT !.alarm = IF delay > 0 THEN now + delay * TPS ELSE Off, !.armed = delay > 0]

\* android_alarm_set(), android_alarm_clear().
android_alarm_set(d, delay) ==
  [d EXCEPT !.alarm = IF delay > 0 THEN now + delay * TPS ELSE Off, !.armed = delay > 0]

\* rtc_set_alarm_after(): programs the wake-up alarm, or removes it when the
\* delay is zero.  Without a readable rtc it leaves the old alarm, whichever the
\* interface.
rtc_set_alarm_after(d0, delay) ==
  LET d == rtc_attach(d0) IN
  IF ~(d.fd /\ rtc_ok) THEN [d EXCEPT !.armed = FALSE]
  ELSE CASE d.iface = "timerfd"  -> linux_alarm_set(d, delay)
         [] d.iface = "android"  -> android_alarm_set(d, delay)
         [] OTHER                -> rtc_set_alarm_raw(d, Sec(now) + delay, delay > 0)

\* rtc_set_alarm_powerup(): what is left in the rtc when the module goes: the
\* next power-up alarm, early by the time it takes to boot.
rtc_set_alarm_powerup(d0) ==
  LET d    == rtc_attach(d0)
      left == timed.alarm_powerup - Sec(now) - BOOT_ESTIMATE
      in   == IF left < BOOT_ESTIMATE THEN 0 ELSE left
  IN  IF d.fd /\ rtc_ok THEN rtc_set_alarm_raw(d, Sec(now) + in, in > 0) ELSE d

\* rtc_handle_input(), after a successful read: the first update interrupt sets
\* the system time, a few more are used to measure the difference.
rtc_handle_input(d) ==
  LET todo == IF d.to_system_time THEN UpdateRounds ELSE d.updates_todo
      d1   == [d EXCEPT !.to_system_time = FALSE,
                        !.updates_todo = IF todo > 0 THEN todo - 1 ELSE 0]
  IN  IF todo = 1
      THEN rtc_set_need([d1 EXCEPT !.uie = FALSE], d1.need \ {"UPDATES"})
      ELSE d1
-----------------------------------------------------------------------------
(***************************************************************************)
(* The clients and their windows.                                          *)
(***************************************************************************)
\* client_new_external(), NotStarted():
\* A client without a request; what is left in its other fields is never read.
NotStarted == [started |-> FALSE, mintime |-> 0, maxtime |-> 0, wakeup |-> FALSE]

\* client_adjust_period(): the nearest multiple of the slot, but not zero.
client_adjust_period(period) ==
  LET p == period + (PERIOD_SLOTSIZE + 1) \div 2
      q == p - (p % PERIOD_SLOTSIZE)
  IN  IF q < PERIOD_SLOTSIZE THEN PERIOD_SLOTSIZE ELSE q

\* client_adjust_mintime(): a window that is long for its end starts later.
client_adjust_mintime(mintime, maxtime) ==
  LET rows == {i \in DOMAIN Lut : maxtime >= Lut[i][1]}
      diff == Lut[Min(rows)][2]
      m    == IF rows # {} /\ mintime + diff < maxtime THEN maxtime - diff ELSE mintime
  IN  IF m > maxtime THEN maxtime ELSE m

\* client_handle_wait_req(): both ends zero cancels, equal ends ask for the next
\* full slot, different ends for a window counted from now.
client_handle_wait_req(req) ==
  LET slot == client_adjust_period(req.mintime)
      next == (Sec(now) + slot - ((slot + Sec(now)) % slot)) * TPS
  IN  CASE req.mintime = 0 /\ req.maxtime = 0 -> NotStarted
        [] req.mintime = req.maxtime /\ req.mintime # 0 ->
             [started |-> TRUE, mintime |-> next, maxtime |-> next,
              wakeup |-> req.wakeup]
        [] OTHER ->
             [started |-> TRUE, wakeup |-> req.wakeup,
              mintime |-> now + TPS * client_adjust_mintime(req.mintime, req.maxtime),
              maxtime |-> now + TPS * req.maxtime]

Started(cl) == {c \in DOMAIN cl : cl[c].started}

\* clientlist_get_alarm_time(): seconds to timed's next alarm, 0 for none.
clientlist_get_alarm_time(tm) ==
  LET times == {t \in {tm.alarm_powerup, tm.alarm_resume} : t > Sec(now)}
  IN  IF times = {} THEN 0 ELSE Min(times) - Sec(now)

\* Mutant: the last client that wants to be resumed decides.
sleeptime_last(cl, tm, t) ==
  LET ends == {cl[c].maxtime : c \in {x \in Started(cl) : cl[x].wakeup}}
  IN  IF ends = {} THEN MAXIMUM_WAKEUP
      ELSE Min({MAXIMUM_WAKEUP, Sec(Max(ends)) - Sec(t)})

\* clientlist_rethink_rtc_wakeup(): the delay to program, in seconds, for a scan
\* whose time stamp is t; timed's alarm is compared with the time itself.
sleeptime(cl, tm, t) ==
  LET ends   == {cl[c].maxtime : c \in {x \in Started(cl) :
                                          cl[x].wakeup /\ cl[x].maxtime > t}}
      delays == (IF ends = {} THEN {} ELSE {Sec(Min(ends)) - Sec(t)})
                \cup ({clientlist_get_alarm_time(tm)} \ {0})
                \cup {MAXIMUM_WAKEUP}
  IN  Min(delays)

\* Whether a client's maxtime is due before the next heartbeat.
BeforeHeartbeat(c, t) == Sec(c.maxtime - t) < HEARTBEAT_INTERVAL

\* clientlist_wakeup_clients_now(), first pass: somebody has to be woken.
must_wake(cl, t) ==
  \E c \in Started(cl) : cl[c].wakeup /\ t >= cl[c].mintime /\ BeforeHeartbeat(cl[c], t)

\* Second pass: the clients woken, and the delay of the timer for the others.
Due(cl, t) == {c \in Started(cl) : /\ t >= cl[c].mintime
                                   /\ must_wake(cl, t) \/ BeforeHeartbeat(cl[c], t)}

sleep_time(cl, t) ==
  LET soon == {cl[c].maxtime - t : c \in {x \in Started(cl) :
                 t < cl[x].mintime /\ cl[x].wakeup /\ BeforeHeartbeat(cl[x], t)}}
  IN  IF soon = {} THEN Off ELSE Min(soon)

\* client_wakeup() of the clients due; the ones that cannot be sent to are dropped.
client_wakeup(cl, due, dead) ==
  [c \in DOMAIN cl \ dead |-> IF c \in due THEN NotStarted ELSE cl[c]]

\* clientlist_wakeup_clients_now(), after the check was cancelled: wakes the
\* clients that are due, sets the timer, opens or closes the kernel device and
\* programs the alarm, all from the time stamp t of the caller.  Only the alarm
\* itself is set from the clock, so it is as late as the stamp is old, and only
\* a scan that is up to date leaves something in time for every client.
clientlist_wakeup_clients_now(t) ==
  \E dead \in SUBSET (Due(clients, t) \cap Externals) :
    LET cl == client_wakeup(clients, Due(clients, t), dead) IN
    /\ clients' = cl
    /\ wakeup_timer' = sleep_time(clients, t)
    /\ kernelfd' = (KernelDevice /\ Started(cl) \cap Externals # {})
    /\ dev' = rtc_set_alarm_after(dev, sleeptime(cl, timed, t))
    /\ lag' = now - t
    /\ unguarded' = (t # now)

\* clientlist_rethink_rtc_wakeup() by itself.
clientlist_rethink_rtc_wakeup(tm) ==
  /\ dev' = rtc_set_alarm_after(dev, sleeptime(clients, tm, now))
  /\ lag' = 0

\* dsme will be told when the alarm goes off.
Watched ==
  dev.iface = "timerfd" \/ (dev.iface = "rtc" /\ dev.fd /\ "ALARM" \in dev.need)

\* Clients that have to be woken, and the ones that should have been.
Resumed == {c \in Started(clients) : clients[c].wakeup}
Overdue == {c \in Resumed : clients[c].maxtime <= now}

\* The timer or the heartbeat is in time for a client, if the device stays awake.
InTime(c) ==
  \/ wakeup_timer # Off /\ now + wakeup_timer <= clients[c].maxtime
  \/ now + heartbeat <= clients[c].maxtime

\* A scan has taken its time stamp and cancelled the check, and done no more.
scanning == tv_now # Off

\* A suspended device will be woken for its clients: the last scan was finished
\* and programmed an alarm dsme will see, and no client was due already.
Guarded == ~scanning /\ Watched /\ dev.armed /\ dev.alarm # Off /\ Overdue = {}

\* Nothing will come in time for some client: no check is scheduled, an earlier
\* suspend has made timer and heartbeat late, and rethinking the alarm, which
\* skips clients that are due and programs none for the ones due within the
\* second, has taken away the alarm that stood for it.
Stranded ==
  /\ ~wakeup_clients_id
  /\ \E c \in Resumed : ~InTime(c) /\ (c \in Overdue \/ ~(Watched /\ dev.armed))

\* clientlist_wakeup_clients_cancel(), when a check is scheduled.
clientlist_wakeup_clients_cancel ==
  /\ wakeup_clients_id' = FALSE
  /\ wakelocks' = wakelocks \ {"iphb_wakeup"}

\* Mutant: the check is scheduled without the wakelock.
later_unlocked ==
  /\ wakeup_clients_id' = TRUE
  /\ UNCHANGED wakelocks

\* clientlist_wakeup_clients_later(): a check in 200 ms, under a wakelock.
clientlist_wakeup_clients_later ==
  /\ wakeup_clients_id' = TRUE
  /\ wakelocks' = wakelocks \cup {"iphb_wakeup"}
-----------------------------------------------------------------------------
(***************************************************************************)
(* What the main loop calls.                                               *)
(***************************************************************************)
\* The main loop is free to call something of this module.
Idle == running /\ ~suspended /\ ~scanning

\* How the heartbeat and the timer begin a clientlist_wakeup_clients_now(): with
\* a time stamp, and by giving up a scheduled check with its wakelock.  Nothing
\* keeps the device awake for the rest of the scan, which is a step of its own.
CancelAndScan ==
  /\ tv_now' = now
  /\ wakeup_timer' = Off
  /\ IF wakeup_clients_id THEN clientlist_wakeup_clients_cancel
     ELSE UNCHANGED <<wakeup_clients_id, wakelocks>>
  /\ UNCHANGED <<clients, kernelfd, dev, lag, unguarded>>

\* DSM_MSGTYPE_HEARTBEAT, from the watchdog process.
HEARTBEAT ==
  /\ Idle /\ heartbeat = 0
  /\ heartbeat' = HEARTBEAT_INTERVAL * TPS
  /\ CancelAndScan
  /\ UNCHANGED <<now, suspended, running, rtc_ok, irq, timed>>

\* The rest of the scan, from the time stamp it began with.
FinishScan ==
  /\ scanning /\ ~suspended
  /\ clientlist_wakeup_clients_now(tv_now)
  /\ tv_now' = Off
  /\ UNCHANGED <<envVars, running, wakeup_clients_id, wakelocks, irq, timed>>

\* Mutant: the timer goes off and the scan is left out.
handle_wakeup_timeout_empty ==
  /\ Idle /\ wakeup_timer = 0
  /\ wakeup_timer' = Off
  /\ UNCHANGED <<envVars, running, clients, wakeup_clients_id, tv_now, wakelocks,
                 kernelfd, dev, irq, timed, lag, unguarded>>

\* clientlist_handle_wakeup_timeout()
clientlist_handle_wakeup_timeout ==
  /\ Idle /\ wakeup_timer = 0
  /\ CancelAndScan
  /\ UNCHANGED <<envVars, running, irq, timed>>

\* clientlist_wakeup_clients_cb(): here the wakelock goes last, and the time stamp
\* cannot grow old.
clientlist_wakeup_clients_cb ==
  /\ Idle /\ wakeup_clients_id
  /\ clientlist_wakeup_clients_now(now)
  /\ clientlist_wakeup_clients_cancel
  /\ UNCHANGED <<envVars, running, tv_now, irq, timed>>

\* DSM_MSGTYPE_WAIT from an internal client: a check only when it asks to be
\* resumed.
WAIT(c, req) ==
  /\ Idle /\ now <= LastRequest
  /\ LET new == client_handle_wait_req(req)
     IN  /\ clients' = [x \in DOMAIN clients \cup {c} |-> IF x = c THEN new ELSE clients[x]]
         /\ IF req.wakeup THEN clientlist_wakeup_clients_later
            ELSE UNCHANGED <<wakeup_clients_id, wakelocks>>
  /\ UNCHANGED <<envVars, running, wakeup_timer, tv_now, kernelfd, dev, irq, timed,
                 lag, unguarded>>

\* xmce_cpu_keepalive_wakeup(): the wakelocks after mce was asked to take over an
\* rtc wake-up, which works when the bus is connected and mce is on it.
xmce_cpu_keepalive_wakeup(sent) == IF sent THEN {"rtc_wakeup"} ELSE {}

\* The end of epollfd_iowatch_cb(): schedules a check, hands an rtc wake-up over
\* to mce under a wakelock that ends by itself, and opens the rtc if it is not.
IowatchEnd(d, wakeup_mce) ==
  /\ wakeup_clients_id' = TRUE
  /\ \E sent \in IF wakeup_mce THEN BOOLEAN ELSE {FALSE} :
       wakelocks' = (wakelocks \ IF wakeup_mce THEN {"rtc_wakeup"} ELSE {})
                    \cup {"iphb_wakeup"} \cup xmce_cpu_keepalive_wakeup(sent)
  /\ dev' = rtc_attach(d)
  /\ UNCHANGED <<envVars, running, wakeup_timer, tv_now, timed, lag, unguarded>>

\* listenfd_handle_connect()
listenfd_handle_connect(c) ==
  /\ Idle /\ c \notin DOMAIN clients
  /\ clients' = [x \in DOMAIN clients \cup {c} |->
                   IF x = c THEN NotStarted ELSE clients[x]]
  /\ IowatchEnd(dev, FALSE)
  /\ UNCHANGED <<kernelfd, irq>>

\* epollfd_handle_client_req(): IPHB_WAIT
ClientWait(c, req) ==
  /\ Idle /\ now <= LastRequest /\ c \in DOMAIN clients
  /\ clients' = [clients EXCEPT ![c] = client_handle_wait_req(req)]
  /\ IowatchEnd(dev, FALSE)
  /\ UNCHANGED <<kernelfd, irq>>

\* epollfd_handle_client_req(): the client hung up, sent too little or rubbish.
clientlist_delete_client(c) ==
  /\ Idle /\ c \in DOMAIN clients
  /\ clients' = [x \in DOMAIN clients \ {c} |-> clients[x]]
  /\ IowatchEnd(dev, FALSE)
  /\ UNCHANGED <<kernelfd, irq>>

\* kernelfd_handle_event(), and IPHB_STAT, which changes nothing else.
kernelfd_handle_event ==
  /\ Idle
  /\ kernelfd \/ DOMAIN clients \cap Externals # {}
  /\ IowatchEnd(dev, FALSE)
  /\ UNCHANGED <<clients, kernelfd, irq>>

\* Input from /dev/rtc: its alarm, or an update interrupt.  When the read
\* fails the device is closed, and opened again at once.
RtcInput ==
  /\ Idle /\ dev.fd
  /\ dev.uie \/ (irq /\ dev.iface = "rtc")
  /\ \/ IowatchEnd(rtc_handle_input(dev), TRUE)
     \/ IowatchEnd(rtc_detach(dev), FALSE)
  /\ irq' = (irq /\ dev.iface # "rtc")
  /\ UNCHANGED <<clients, kernelfd>>

\* linux_alarm_handle_input(): an interrupted read is taken for a broken timer,
\* linux_alarm_quit() closes it and the rtc is used from then on.
linux_alarm_handle_input ==
  /\ Idle /\ irq /\ dev.iface = "timerfd"
  /\ \/ IowatchEnd(dev, TRUE)
     \/ IowatchEnd([dev EXCEPT !.iface = "rtc", !.alarm = Off], FALSE)
  /\ irq' = FALSE
  /\ UNCHANGED <<clients, kernelfd>>

\* rtc_need_ended_cb()
rtc_need_ended_cb ==
  /\ Idle /\ dev.ended_id
  /\ dev' = rtc_detach(dev)
  /\ irq' = (irq /\ dev.iface # "rtc")
  /\ UNCHANGED <<envVars, running, clients, wakeup_timer, wakeup_clients_id, tv_now,
                 wakelocks, kernelfd, timed, lag, unguarded>>

\* xtimed_alarm_status_cb(): times that have passed count as none.
xtimed_alarm_status_cb(powerup, resume) ==
  LET valid(t) == IF t < Sec(now) THEN 0 ELSE t
      new      == [alarm_powerup |-> valid(powerup), alarm_resume |-> valid(resume)]
  IN  /\ Idle
      /\ timed # new
      /\ timed' = new
      /\ clientlist_rethink_rtc_wakeup(new)
      /\ UNCHANGED <<envVars, running, clients, wakeup_timer, wakeup_clients_id,
                     tv_now, wakelocks, kernelfd, irq>>
      /\ unguarded' = (unguarded \/ Stranded')

\* xtimed_config_status_cb(): the clock or the time zone may have changed.
xtimed_config_status_cb ==
  /\ Idle
  /\ clientlist_rethink_rtc_wakeup(timed)
  /\ UNCHANGED <<envVars, running, clients, wakeup_timer, wakeup_clients_id, tv_now,
                 wakelocks, kernelfd, irq, timed>>
  /\ unguarded' = (unguarded \/ Stranded')
-----------------------------------------------------------------------------
(***************************************************************************)
(* Loading, unloading and crashing.                                        *)
(***************************************************************************)
FreshDev(i, alarm) ==
  [fd |-> FALSE, need |-> {}, ended_id |-> FALSE, prev |-> <<Off, "unset">>, uie |-> FALSE,
   updates_todo |-> 0, to_system_time |-> FALSE, initialized |-> FALSE, iface |-> i,
   alarm |-> alarm, armed |-> FALSE]

\* module_init(): clears stale wakelocks and finds the interface to wake up by.
\* The alarm a crash left in the rtc stays until it is programmed anew.
module_init ==
  /\ ~running /\ ~suspended
  /\ running' = TRUE
  /\ wakelocks' = wakelocks \ {"rtc_wakeup", "rtc_input"}
  /\ \E i \in Interfaces : dev' = rtc_attach(FreshDev(i, dev.alarm))
  /\ UNCHANGED <<envVars, clients, wakeup_timer, wakeup_clients_id, tv_now, kernelfd,
                 irq, timed, lag, unguarded>>

Unloaded ==
  /\ running' = FALSE
  /\ clients' = << >>
  /\ wakeup_timer' = Off
  /\ wakeup_clients_id' = FALSE
  /\ tv_now' = Off
  /\ kernelfd' = FALSE
  /\ irq' = FALSE
  /\ lag' = 0
  /\ unguarded' = FALSE
  /\ UNCHANGED <<envVars, timed>>

\* module_fini(): stops the timers, leaves the power-up alarm in the rtc and
\* releases the wakelocks.
module_fini ==
  /\ Idle
  /\ Unloaded
  /\ wakelocks' = wakelocks \ ({"rtc_wakeup", "rtc_input"} \cup
                               IF wakeup_clients_id THEN {"iphb_wakeup"} ELSE {})
  /\ LET off == IF dev.iface = "rtc" THEN dev
                ELSE [dev EXCEPT !.alarm = Off, !.iface = "rtc"]
     IN  dev' = rtc_detach(rtc_set_alarm_powerup(off))

\* dsme dies, perhaps in epollfd_iowatch_cb().  The kernel closes its files, and
\* keeps its wakelocks and the alarm of the rtc.
Crash ==
  /\ running /\ ~suspended
  /\ Unloaded
  /\ wakelocks' \in {wakelocks, wakelocks \cup {"rtc_input"}}
  /\ dev' = FreshDev("rtc", IF dev.iface = "rtc" THEN dev.alarm ELSE Off)
-----------------------------------------------------------------------------
(***************************************************************************)
(* The device: time, suspend and the rtc.                                  *)
(***************************************************************************)
otherThanTime == <<running, clients, wakeup_clients_id, tv_now, wakelocks, kernelfd,
                   rtc_ok, timed, lag>>

\* The alarm going off: an interface that is being watched will tell.
AlarmAt(t) ==
  IF dev.alarm # Off /\ t >= dev.alarm
  THEN /\ dev' = [dev EXCEPT !.alarm = Off]
       /\ irq' = (running /\ (dev.iface = "timerfd" \/ (dev.iface = "rtc" /\ dev.fd)))
  ELSE UNCHANGED <<dev, irq>>

\* A tick of an awake device: callbacks that are due have been called, and the
\* update interrupt of this second has been read.
Tick ==
  /\ ~suspended /\ now < MaxTime
  /\ running => /\ ~wakeup_clients_id /\ ~scanning /\ ~irq
                /\ wakeup_timer # 0 /\ heartbeat > 0 /\ ~dev.ended_id
                /\ ~(dev.uie /\ (now + 1) % TPS = 0)
  /\ now' = now + 1
  /\ heartbeat' = IF running THEN heartbeat - 1 ELSE heartbeat
  /\ wakeup_timer' = IF wakeup_timer = Off THEN Off ELSE wakeup_timer - 1
  /\ AlarmAt(now + 1)
  /\ UNCHANGED <<otherThanTime, suspended, unguarded>>

\* A tick of a suspended device; the alarm wakes it up.
SuspendedTick ==
  /\ suspended /\ now < MaxTime
  /\ now' = now + 1
  /\ AlarmAt(now + 1)
  /\ suspended' = ~(dev.alarm # Off /\ now + 1 >= dev.alarm)
  /\ unguarded' = (unguarded \/ ~Guarded)
  /\ UNCHANGED <<otherThanTime, heartbeat, wakeup_timer>>

\* The device suspends when nobody holds a wakelock.
Suspend ==
  /\ running /\ ~suspended /\ wakelocks = {} /\ ~irq
  /\ suspended' = TRUE
  /\ UNCHANGED <<otherThanTime, now, heartbeat, wakeup_timer, dev, irq, unguarded>>

\* Something else wakes the device.
Resume ==
  /\ suspended
  /\ suspended' = FALSE
  /\ UNCHANGED <<otherThanTime, now, heartbeat, wakeup_timer, dev, irq, unguarded>>

\* mce releases rtc_wakeup, or its time is up.
RtcWakeupEnds ==
  /\ "rtc_wakeup" \in wakelocks
  /\ wakelocks' = wakelocks \ {"rtc_wakeup"}
  /\ UNCHANGED <<envVars, running, clients, wakeup_timer, wakeup_clients_id, tv_now,
                 kernelfd, dev, irq, timed, lag, unguarded>>

\* The rtc device is there at last.
RtcAppears ==
  /\ ~rtc_ok
  /\ rtc_ok' = TRUE
  /\ UNCHANGED <<now, suspended, heartbeat, running, clients, wakeup_timer,
                 wakeup_clients_id, tv_now, wakelocks, kernelfd, dev, irq, timed, lag,
                 unguarded>>
-----------------------------------------------------------------------------
Init ==
  /\ now = 0
  /\ suspended = FALSE
  /\ heartbeat = HEARTBEAT_INTERVAL * TPS
  /\ running = FALSE
  /\ clients = << >>
  /\ wakeup_timer = Off
  /\ wakeup_clients_id = FALSE
  /\ tv_now = Off
  /\ wakelocks = {}
  /\ kernelfd = FALSE
  /\ dev = FreshDev("rtc", Off)
  /\ rtc_ok \in {TRUE, ~LateRtc}
  /\ irq = FALSE
  /\ timed = [alarm_powerup |-> 0, alarm_resume |-> 0]
  /\ lag = 0
  /\ unguarded = FALSE

Next ==
  \/ HEARTBEAT \/ FinishScan
  \/ clientlist_handle_wakeup_timeout \/ clientlist_wakeup_clients_cb
  \/ \E c \in Internals, req \in InternalRequests : WAIT(c, req)
  \/ \E c \in Externals : listenfd_handle_connect(c) \/ clientlist_delete_client(c)
  \/ \E c \in Externals, req \in Requests : ClientWait(c, req)
  \/ kernelfd_handle_event
  \/ RtcInput
  \/ linux_alarm_handle_input \/ rtc_need_ended_cb
  \/ \E p \in PowerupTimes, r \in ResumeTimes : xtimed_alarm_status_cb(p, r)
  \/ xtimed_config_status_cb
  \/ module_init \/ module_fini \/ Crash
  \/ Tick \/ SuspendedTick \/ Suspend \/ Resume \/ RtcWakeupEnds \/ RtcAppears

Spec == Init /\ [][Next]_vars
-----------------------------------------------------------------------------
(***************************************************************************)
(* Properties.                                                             *)
(***************************************************************************)
\* The variables have their types; the count of update interrupts that
\* rtc_handle_input() runs down never passes zero.
TypeOK ==
  /\ now \in 0 .. MaxTime
  /\ tv_now \in {Off} \cup 0 .. now
  /\ lag \in 0 .. MaxTime
  /\ {suspended, running, wakeup_clients_id, kernelfd, rtc_ok, irq,
      unguarded} \subseteq BOOLEAN
  /\ heartbeat \in 0 .. HEARTBEAT_INTERVAL * TPS
  /\ DOMAIN clients \subseteq Clients
  /\ \A c \in DOMAIN clients : clients[c] \in ClientType
  /\ wakeup_timer \in {Off} \cup 0 .. MaxTime + HEARTBEAT_INTERVAL * TPS
  /\ wakelocks \subseteq {"iphb_wakeup", "rtc_wakeup", "rtc_input"}
  /\ dev \in DevType

\* "A wakelock must be held while waiting for timeout" (iphb.c, the comment of
\* clientlist_wakeup_clients_id): whichever of the callbacks schedules, runs or
\* cancels the delayed check, the device cannot suspend while one is pending.
CheckHoldsLock == wakeup_clients_id => "iphb_wakeup" \in wakelocks

\* When no check is pending, the alarm that clientlist_rethink_rtc_wakeup() last
\* programmed goes off less than a second after the first client that wants to
\* be resumed is due, for every order of requests, cancellations, wake-ups and
\* signals of timed, and later only by the time the device was suspended in the
\* middle of the scan.  (Both are real: whole seconds are subtracted, of a time
\* stamp that was taken before the wakelock was given up.)
AlarmCovers ==
  (running /\ ~wakeup_clients_id /\ ~scanning /\ ~irq /\ dev.armed /\ Watched) =>
     \A c \in Resumed : clients[c].maxtime > now =>
       dev.alarm # Off /\ dev.alarm < clients[c].maxtime + TPS + lag

\* The promise to a client: it is woken before its maxtime is a second past, by
\* the heartbeat, the timer or the alarm, however the device suspends between
\* them.  The gaps are the ones that Guarded and Stranded name, among them a
\* suspend in the middle of a scan; they last until the next scan that looks at
\* the clients with a time stamp that is up to date.
WokenInTime == running /\ ~unguarded => \A c \in Resumed : now < clients[c].maxtime + TPS
=============================================================================
