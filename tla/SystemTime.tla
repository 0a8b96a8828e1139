----------------------------- MODULE SystemTime -----------------------------
(***************************************************************************)
(* Keeping the time over restarts, modules/iphb.c: the system time is      *)
(* taken from the rtc when dsme starts and left there when it ends.  Many  *)
(* rtcs cannot be set: then the difference is kept in a file, deltatime,   *)
(* and the time of the last end in the mtime of another.  The alarm for    *)
(* which the device is to power up is kept in a third (xtimed_status_*()), *)
(* and left in the rtc.                                                    *)
(*                                                                         *)
(* The rest of iphb.c is in module Iphb, which needs no time of day.       *)
(* Times are in seconds.                                                   *)
(***************************************************************************)
EXTENDS Integers, FiniteSetsExt

CONSTANTS
  BuiltinTime,         \* mintime_fetch(): t_builtin, t_release
  Jitter,              \* the difference that is ignored, 2 s
  StartupEstimate,     \* STARTUP_TIME_ESTIMATE_SECS
  ShutdownEstimate,    \* SHUTDOWN_TIME_ESTIMATE_SECS
  SetTimes,            \* bound: what a user sets the time to
  PowerupTimes,        \* bound: what timed asks for, 0 for nothing
  Devices,             \* the kinds of devices, see below
  LastTime,            \* bound: time
  TimeEvents           \* bound: what happens outside the module

VARIABLES
  on,              \* the device has power, and a kernel runs
  up,              \* iphb.so is loaded and has attached the rtc
  sys, rtc,        \* time(0), the time of the rtc
  delta,           \* deltatime_cached
  needed,          \* deltatime_is_needed
  to_system_time,  \* rtc_to_system_time
  alarm_powerup,
  delta_file, saved_time, status_file,  \* what the files hold
  rtc_alarm,       \* what powers the device up, in rtc time, or 0
  device,          \* [writable, hctosys, encrypted]: what kind of device this is
  real,            \* history: the time a perfect clock would show since the last start
  known,           \* history: the rtc and the files tell it
  unwritten,       \* history: it was set, and neither has been written since
  floor,           \* history: the time of the last end, unless set back since
  wanted,          \* history: what timed asked for last, or Unknown
  events

vars == <<on, up, sys, rtc, delta, needed, to_system_time, alarm_powerup, delta_file,
          saved_time, status_file, rtc_alarm, device, real, known, unwritten, floor, wanted,
          events>>

Unknown == -1
Event == events < TimeEvents /\ events' = events + 1

Abs(n) == IF n < 0 THEN -n ELSE n
-----------------------------------------------------------------------------
\* deltatime_update(), deltatime_set(): with the times s and r, when the cached
\* difference is d and n says that one is needed.
deltatime_update(s, r, d, n) ==
  LET exact == IF n THEN s - r ELSE 0
      new   == IF Abs(exact) <= Jitter THEN 0 ELSE exact
  IN  IF Abs(d - new) > Jitter
      THEN delta' = new /\ delta_file' = new
      ELSE delta' = d /\ UNCHANGED delta_file

\* mintime_fetch(): the time cannot be earlier.
mintime_fetch == Max({BuiltinTime, saved_time, sys})

\* rtc_set_time_tv(), rtc_set_time_t(), rtc_set_time_raw(): what the rtc shows then;
\* that of some devices cannot be set.
rtc_set_time_tv(t) == IF device.writable THEN t ELSE rtc

\* mintime_store(), from systemtime_quit()
mintime_store == saved_time' = sys

\* Mutant: a clock that cannot be raised is believed all the same.
systemtime_init_believing ==
  LET d0    == delta_file
      d     == IF device.writable THEN 0 ELSE d0
      t_rtc == Max({mintime_fetch, rtc + d})
      n     == d # 0
      r     == rtc_set_time_tv(t_rtc)
  IN  /\ sys' = IF d = 0 \/ sys < t_rtc THEN t_rtc ELSE sys
      /\ rtc' = r
      /\ needed' = n
      /\ deltatime_update(sys', r, d0, n)

\* systemtime_init(): a difference is only used while the rtc cannot be set.  The
\* rtc is raised to the minimum, or that it cannot be is noted.
systemtime_init ==
  LET d0    == delta_file
      d     == IF device.writable THEN 0 ELSE d0
      t_rtc == Max({mintime_fetch, rtc + d})
      n     == ~device.writable /\ (d # 0 \/ rtc + d < t_rtc)
      r     == rtc_set_time_tv(t_rtc)
  IN  /\ sys' = IF d = 0 \/ sys < t_rtc THEN t_rtc ELSE sys
      /\ rtc' = r
      /\ needed' = n
      /\ deltatime_update(sys', r, d0, n)

\* Mutant: the power-up time is not restored.
xtimed_status_load_nothing == alarm_powerup' = 0

\* xtimed_status_load()
xtimed_status_load == alarm_powerup' = status_file

\* module_init(), up to rtc_attach() and the systemtime_init() there, which may fail
\* to get update interrupts.
module_init ==
  /\ on /\ ~up
  /\ up' = TRUE
  /\ xtimed_status_load
  /\ systemtime_init
  /\ to_system_time' \in BOOLEAN
  /\ real' = sys' /\ known' = TRUE /\ unwritten' = FALSE
  /\ UNCHANGED <<on, saved_time, status_file, rtc_alarm, device, floor, wanted, events>>

\* rtc_handle_input(): the first update interrupt.
rtc_handle_input ==
  /\ up /\ to_system_time
  /\ to_system_time' = FALSE
  /\ sys' = IF needed THEN sys ELSE rtc
  /\ deltatime_update(sys', rtc, delta, needed)
  /\ real' = sys' /\ unwritten' = FALSE
  /\ UNCHANGED <<on, up, rtc, needed, alarm_powerup, saved_time, status_file, rtc_alarm,
                 device, known, floor, wanted, events>>

\* Only a difference that is needed is written while dsme runs.
StillUnwritten == unwritten' = (unwritten /\ ~needed)

\* clientlist_rethink_rtc_wakeup() and the update interrupts that follow the first.
Rethink ==
  /\ up
  /\ deltatime_update(sys, rtc, delta, needed)
  /\ StillUnwritten
  /\ UNCHANGED <<on, up, sys, rtc, needed, to_system_time, alarm_powerup, saved_time,
                 status_file, rtc_alarm, device, real, known, floor, wanted, events>>

\* xtimed_alarm_status_cb()
xtimed_alarm_status_cb(t) ==
  /\ up /\ Event
  /\ alarm_powerup' = IF t < sys THEN 0 ELSE t
  /\ wanted' = alarm_powerup'
  /\ deltatime_update(sys, rtc, delta, needed)
  /\ StillUnwritten
  /\ UNCHANGED <<on, up, sys, rtc, needed, to_system_time, saved_time, status_file,
                 rtc_alarm, device, real, known, floor>>

\* rtc_set_alarm_powerup(): the alarm is as far away on the rtc as it is by the
\* system time.  An alarm that is too near to be kept is not set.
rtc_set_alarm_powerup(s, r) ==
  LET left == (IF alarm_powerup > s THEN alarm_powerup - s ELSE 0) - StartupEstimate
  IN  IF left < ShutdownEstimate \/ device.encrypted THEN 0 ELSE r + left

\* systemtime_init() did not try to set an rtc that can not be, since it looked right:
\* a difference that comes up later is not kept.
Unprobed == ~device.writable /\ ~needed /\ Abs(sys - rtc) > Jitter

\* module_fini(), systemtime_quit(): the files and the rtc are left
\* for the next start.  The status may not be saved, see xtimed_status_save().
module_fini ==
  /\ up /\ Event
  /\ up' = FALSE
  /\ \/ status_file' = alarm_powerup /\ UNCHANGED wanted
     \/ status_file' = status_file /\ wanted' = Unknown
  /\ rtc' = rtc_set_time_tv(sys)
  /\ mintime_store
  /\ deltatime_update(sys, rtc', delta, needed)
  /\ rtc_alarm' = rtc_set_alarm_powerup(sys, rtc')
  /\ known' = ~Unprobed /\ unwritten' = FALSE
  /\ floor' = sys
  /\ to_system_time' = FALSE /\ needed' = FALSE
  /\ UNCHANGED <<on, sys, alarm_powerup, device, real>>
-----------------------------------------------------------------------------
(***************************************************************************)
(* The device, its user and timed.                                         *)
(***************************************************************************)
\* The process dies, or the device loses power: what is only in memory is lost.
Die ==
  /\ up' = FALSE /\ to_system_time' = FALSE /\ needed' = FALSE
  /\ known' = IF up THEN ~unwritten /\ saved_time <= sys ELSE known
  /\ unwritten' = FALSE
  /\ wanted' = IF up \/ real > wanted - StartupEstimate THEN Unknown ELSE wanted

Crash ==
  /\ up /\ Event
  /\ Die
  /\ UNCHANGED <<on, sys, rtc, delta, alarm_powerup, delta_file, saved_time, status_file,
                 rtc_alarm, device, real, floor>>

PowerOff ==
  /\ on /\ Event
  /\ on' = FALSE
  /\ Die
  /\ UNCHANGED <<sys, rtc, delta, alarm_powerup, delta_file, saved_time, status_file,
                 rtc_alarm, device, real, floor>>

\* By the user or by the rtc; the kernel may take the time from the rtc, and if that is
\* ahead, mintime_fetch() takes it for the minimum.
PowerOn ==
  /\ ~on
  /\ on' = TRUE
  /\ sys' = IF device.hctosys THEN rtc ELSE 0
  /\ known' = (known /\ ~(device.hctosys /\ delta_file < 0))
  /\ UNCHANGED <<up, rtc, delta, needed, to_system_time, alarm_powerup, delta_file,
                 saved_time, status_file, rtc_alarm, device, real, unwritten, floor, wanted,
                 events>>

\* The battery is taken out: the rtc begins anew.
RtcLoss ==
  /\ ~on /\ Event
  /\ rtc' = 0 /\ rtc_alarm' = 0 /\ known' = FALSE
  /\ wanted' = Unknown
  /\ UNCHANGED <<on, up, sys, delta, needed, to_system_time, alarm_powerup, delta_file,
                 saved_time, status_file, device, real, unwritten, floor>>

\* The user sets the time; the first update interrupt, if it is still to come,
\* takes it for an error of the start.
SetTime(t) ==
  /\ up /\ Event
  /\ known' = (known /\ (needed \/ ~to_system_time))
  /\ sys' = t /\ real' = t /\ unwritten' = TRUE
  /\ floor' = Min({floor, t})
  /\ UNCHANGED <<on, up, rtc, delta, needed, to_system_time, alarm_powerup, delta_file,
                 saved_time, status_file, rtc_alarm, device, wanted>>

Tick ==
  /\ Max({sys, rtc, real}) < LastTime
  /\ ~on => (rtc_alarm # rtc \/ rtc_alarm = 0)
  /\ sys' = IF on THEN sys + 1 ELSE sys
  /\ rtc' = rtc + 1 /\ real' = real + 1
  /\ UNCHANGED <<on, up, delta, needed, to_system_time, alarm_powerup, delta_file,
                 saved_time, status_file, rtc_alarm, device, known, unwritten, floor, wanted,
                 events>>
-----------------------------------------------------------------------------
Init ==
  /\ on = FALSE /\ up = FALSE /\ sys = 0 /\ rtc = 0
  /\ delta = 0 /\ needed = FALSE /\ to_system_time = FALSE /\ alarm_powerup = 0
  /\ delta_file = 0 /\ saved_time = 0 /\ status_file = 0 /\ rtc_alarm = 0
  /\ device \in Devices
  /\ real = 0 /\ known = FALSE /\ unwritten = FALSE /\ floor = 0 /\ wanted = 0 /\ events = 0

Next ==
  \/ module_init \/ rtc_handle_input \/ Rethink
  \/ \E t \in PowerupTimes : xtimed_alarm_status_cb(t)
  \/ module_fini \/ Crash \/ PowerOff \/ PowerOn \/ RtcLoss
  \/ \E t \in SetTimes : SetTime(t)
  \/ Tick

Spec == Init /\ [][Next]_vars
-----------------------------------------------------------------------------
(***************************************************************************)
(* Properties.                                                             *)
(***************************************************************************)
\* When the rtc kept its time, the time is right again after the next start, to within
\* the jitter, over regular ends, crashes and power losses.  Left out, as the code loses
\* the time there: what the user sets the time to before the first update interrupt
\* (SetTime), on an rtc that cannot be set and looked right (Unprobed), or just before
\* dsme dies (unwritten); a death after the time was set back behind that of the
\* last end (Die); and a kernel that takes its time from an rtc that is ahead (PowerOn).
TimeKept ==
  [][(module_init \/ rtc_handle_input) /\ known => Abs(sys' - real) <= Jitter]_vars

\* A device that is off when it is time to start up for an alarm does start up,
\* over every restart of dsme since timed asked for it.  Left out: alarms that are
\* too near when the device goes down or pass before it is off, an encrypted home, and dsme dying before the
\* request is in the file.
AlarmPowersUp ==
  (~on /\ ~device.encrypted /\ wanted > floor + StartupEstimate + ShutdownEstimate)
    => real <= wanted - StartupEstimate
=============================================================================
