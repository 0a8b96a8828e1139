---------------------------- MODULE SinglePlugin ----------------------------
(***************************************************************************)
(* dsme with one of its smaller plug-ins at a time.  They share the        *)
(* process, which starts and ends with them (up), and nothing else: what   *)
(* each of them tells state.c and what state.c tells them is in its own    *)
(* module.  Their state spaces are so added, not multiplied.               *)
(***************************************************************************)
EXTENDS Integers, Sequences

CONSTANTS
  Modes, UsbEvents,
  AlarmTimes, SnoozeTimeout, SaveWindow, AlarmMaxTime, AlarmEvents,
  BuiltinTime, Jitter, StartupEstimate, ShutdownEstimate, SetTimes, PowerupTimes, Devices,
  LastTime, TimeEvents,
  Plugins, DbusEvents

VARIABLES
  plugin,   \* the one that is looked at
  up, events,
  systembus, prev, waiting, mounted, inbox, calls, usb_moded, failed, unseen,
  current, cached, alarm_set, evaluate_id, dsmestate, wait, saving, file, tmp, encrypted,
  now, unsaved, slept,
  on, sys, rtc, delta, needed, to_system_time, alarm_powerup, delta_file, saved_time,
  status_file, rtc_alarm, device, real, known,
  unwritten, floor, wanted,
  queue, watch, bus_state, timer, manager, conn, bound, handlers, matches, members, service,
  loaded, rules, name, daemon, inotify, rebooting, undone

usbVars == <<systembus, prev, waiting, mounted, inbox, calls, usb_moded, failed, unseen>>
alarmVars == <<current, cached, alarm_set, evaluate_id, dsmestate, wait, saving, file, tmp,
               encrypted, now, unsaved, slept>>
timeVars == <<on, sys, rtc, delta, needed, to_system_time, alarm_powerup, delta_file,
              saved_time, status_file, rtc_alarm, device, real, known, unwritten, floor,
              wanted>>
dbusVars == <<queue, watch, bus_state, timer, manager, conn, bound, handlers, matches,
              members, service, loaded, rules, name, daemon, inotify, rebooting, undone>>
vars == <<plugin, up, events, usbVars, alarmVars, timeVars, dbusVars>>

Usb == INSTANCE UsbTracker
Alarm == INSTANCE AlarmTracker
Time == INSTANCE SystemTime
Dbus == INSTANCE DbusManager

\* Torn stands for what is no time at all.
ASSUME AlarmAssumption ==
  /\ AlarmTimes \subseteq Int \ {Alarm!Torn}
  /\ {SnoozeTimeout, SaveWindow} \subseteq Nat

\* Nobody sets the time before that of the build, which mintime_fetch() would undo.
ASSUME TimeAssumption ==
  /\ {BuiltinTime, Jitter, StartupEstimate, ShutdownEstimate} \subseteq Nat
  /\ SetTimes \subseteq {t \in Nat : t >= BuiltinTime}
  /\ PowerupTimes \subseteq Nat
-----------------------------------------------------------------------------
\* What surrounds a plug-in that is not looked at does not matter.
Init ==
  /\ plugin \in {"usbtracker", "alarmtracker", "iphb", "dbusautoconnector"}
  /\ Usb!Init /\ Alarm!Init /\ Time!Init /\ Dbus!Init
  /\ plugin # "usbtracker" => usb_moded = CHOOSE u \in [on : {FALSE}, mode : Modes] : TRUE
  /\ plugin # "alarmtracker" => file = 0 /\ ~encrypted
  /\ plugin # "iphb" => device = CHOOSE d \in Devices : TRUE
  /\ plugin # "dbusautoconnector" => ~daemon.socket

Next ==
  /\ UNCHANGED plugin
  /\ \/ /\ plugin = "usbtracker" /\ Usb!Next
        /\ UNCHANGED <<alarmVars, timeVars, dbusVars>>
     \/ /\ plugin = "alarmtracker" /\ Alarm!Next
        /\ UNCHANGED <<usbVars, timeVars, dbusVars>>
     \/ /\ plugin = "iphb" /\ Time!Next
        /\ UNCHANGED <<usbVars, alarmVars, dbusVars>>
     \/ /\ plugin = "dbusautoconnector" /\ Dbus!Next
        /\ UNCHANGED <<up, usbVars, alarmVars, timeVars>>

Spec ==
  /\ Init /\ [][Next]_vars
  /\ plugin = "usbtracker" => Usb!Fairness
  /\ plugin = "dbusautoconnector" => Dbus!Fairness
-----------------------------------------------------------------------------
\* See module UsbTracker: state.c knows what usb_moded says.
MountTracked == plugin = "usbtracker" => Usb!MountTracked

\* See module UsbTracker: an usb_moded that stays away is forgotten.
MountForgotten == plugin = "usbtracker" => Usb!MountForgotten

\* See module AlarmTracker: the alarm file is whole wherever a save is interrupted,
\* and catches up.
AlarmFileWhole == plugin = "alarmtracker" => Alarm!AlarmFileWhole

\* See module AlarmTracker: state.c knows of an alarm when it comes near.
AlarmAnnounced == plugin = "alarmtracker" => Alarm!AlarmAnnounced

\* See module SystemTime: the time is right after a restart, but for the cases named there.
TimeKept ==
  [][(plugin = "iphb" /\ (Time!module_init \/ Time!rtc_handle_input) /\ known)
       => Time!Abs(sys' - real) <= Jitter]_vars

\* See module SystemTime: the device powers up for an alarm.
AlarmPowersUp == plugin = "iphb" => Time!AlarmPowersUp

\* See module DbusManager: the bus has the rules and names of what is bound.
BusInStep == plugin = "dbusautoconnector" => Dbus!BusInStep

\* See module DbusManager: a dbus-daemon that is there is connected to.
BusReached == plugin = "dbusautoconnector" => Dbus!BusReached
=============================================================================
