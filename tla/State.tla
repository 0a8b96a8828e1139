------------------------------- MODULE State -------------------------------
(***************************************************************************)
(* The device state policy of dsme (modules/state.c).                      *)
(*                                                                         *)
(* Plugins and clients report what they know as messages: charger, alarm,  *)
(* battery, temperature, emergency call, USB, requests. Every handler      *)
(* updates a state bit and re-selects the device state from all the bits;  *)
(* timers delay some bits and give applications time before the system     *)
(* goes down.  A handler runs to completion (dsme has one thread), so a    *)
(* handler is one action.  Inside it the C functions are operators from    *)
(* the record of the module's static variables to its next value.          *)
(*                                                                         *)
(* Abstracted: log texts, the length of each delay (a running timer may    *)
(* fire at any time) and the vibra feedback.                               *)
(***************************************************************************)
EXTENDS Integers, Sequences

CONSTANTS
  DirectUserActdead, \* built with DSME_SUPPORT_DIRECT_USER_ACTDEAD
  HomeIsEncrypted,   \* what dsme_home_is_encrypted() probes, once
  RdMode,            \* dsme_rd_mode_enabled()
  BatteryLevels,     \* the levels SET_BATTERY_LEVEL reports
  BootStates,        \* the values $BOOTSTATE may have
  Senders,           \* who sends requests: see Sender
  FailingTimers,     \* the timers glib may fail to create
  Inputs             \* the messages that arrive (a bound on the environment)

AllBootStates == {"SHUTDOWN", "USER", "USER+malf", "ACT_DEAD", "ACT_DEAD+malf",
                  "BOOT", "TEST", "MALF", "unknown"}

\* Who sent a message: a dsme plugin, a privileged or another socket client.
Sender == {"dsme", "privileged", "unprivileged"}

RunlevelTimer == {"delayed_shutdown", "delayed_actdead", "delayed_user"}

Timer == RunlevelTimer \cup {"overheat", "charger_disconnect", "battery_empty"}

AllInputs == {"SHUTDOWN", "REBOOT", "ACTDEAD", "USER", "charger", "usb",
              "alarm", "thermal", "emergency", "battery_level",
              "battery_state", "block", "switch_done", "quit"}

ASSUME StateAssumption ==
  /\ DirectUserActdead \in BOOLEAN
  /\ HomeIsEncrypted \in BOOLEAN
  /\ RdMode \in BOOLEAN
  /\ BatteryLevels \subseteq Int
  /\ BootStates \subseteq AllBootStates
  /\ Senders \subseteq Sender
  /\ FailingTimers \subseteq Timer
  /\ Inputs \subseteq AllInputs

VARIABLES
  bits,               \* the boolean state bits that are true
  charger_state,
  dsme_battery_level,
  current_state,
  timers,             \* the timers that are running
  sent,               \* what the last handler broadcast, in order
  init_told,          \* history: the runlevels SHUTDOWN messages carried so far
  main_loop,          \* mainloop.c: its state
  plugin              \* unloaded, then loaded, then unloaded for good

vars == <<bits, charger_state, dsme_battery_level, current_state, timers,
          sent, init_told, main_loop, plugin>>

Bit == {"alarm_pending", "device_overheated", "emergency_call_ongoing",
        "shutdown_blocked", "mounted_to_pc", "battery_empty",
        "shutdown_requested", "actdead_requested", "reboot_requested",
        "testmode_requested", "actdead_switch_done", "user_switch_done"}

ChargerState == {"UNKNOWN", "CONNECTED", "DISCONNECTED"}

DeviceState == {"NOT_SET", "SHUTDOWN", "USER", "ACTDEAD", "REBOOT", "TEST"}

Down == {"SHUTDOWN", "REBOOT"}

LoopState == {"NOT_STARTED", "RUNNING", "STOPPED"}

DSME_BATTERY_LEVEL_UNKNOWN == -1

DSME_MINIMUM_BATTERY_TO_USER == 3

endpoint_is_privileged(conn) == conn # "unprivileged"

endpoint_is_dsme(conn) == conn = "dsme"

Msg(type, arg) == [type |-> type, arg |-> arg]

MsgType == {"SAVE_DATA_IND", "STATE_CHANGE_IND", "STATE_REQ_DENIED_IND",
            "SHUTDOWN", "CHANGE_RUNLEVEL", "BATTERY_EMPTY_IND", "ENTER_MALF"}

Message == [type : MsgType, arg : DeviceState]

\* The device state shutdown timers hand to init, as a runlevel name.
state2runlevel(state) == IF state = "NOT_SET" THEN "SHUTDOWN" ELSE state

(***************************************************************************)
(* What the environment of a handler decides: which timer, if any, glib    *)
(* fails to create, and whether a reboot parameter file made               *)
(* need_to_use_reboot() answer true.                                       *)
(***************************************************************************)
Env == [fails : {{}} \cup {{t} : t \in FailingTimers}, use_reboot : BOOLEAN]

(***************************************************************************)
(* The module's static variables as one value.                             *)
(***************************************************************************)
Statics == [bits    : SUBSET Bit,
            charger : ChargerState,
            level   : BatteryLevels \cup {DSME_BATTERY_LEVEL_UNKNOWN},
            state   : DeviceState,
            timers  : SUBSET Timer,
            sent    : Seq(Message),
            loop    : LoopState]

Now == [bits    |-> bits,
        charger |-> charger_state,
        level   |-> dsme_battery_level,
        state   |-> current_state,
        timers  |-> timers,
        sent    |-> << >>,
        loop    |-> main_loop]

set_bit(s, b, value) ==
  [s EXCEPT !.bits = IF value THEN @ \cup {b} ELSE @ \ {b}]

set_charger_state(s, value) == [s EXCEPT !.charger = value]

broadcast(s, type, arg) == [s EXCEPT !.sent = Append(@, Msg(type, arg))]

(***************************************************************************)
(* Timers.                                                                 *)
(***************************************************************************)
stop_timers(s, ts) == [s EXCEPT !.timers = @ \ ts]

start_timer(s, t) == [s EXCEPT !.timers = @ \cup {t}]

\* Quitting a main loop that does not run yet has no effect.
dsme_main_loop_quit(s) ==
  IF s.loop = "RUNNING" THEN [s EXCEPT !.loop = "STOPPED"] ELSE s

stop_delayed_runlevel_timers(s) == stop_timers(s, RunlevelTimer)

\* Mutant: any pending runlevel change is taken for a pending shutdown.
start_delayed_shutdown_timer_if_idle(s, e) ==
  IF s.timers \cap RunlevelTimer # {} THEN s
  ELSE IF "delayed_shutdown" \in e.fails THEN dsme_main_loop_quit(s)
  ELSE start_timer(s, "delayed_shutdown")

start_delayed_shutdown_timer(s, e) ==
  IF "delayed_shutdown" \in s.timers THEN s
  ELSE LET r == stop_delayed_runlevel_timers(s) IN
       IF "delayed_shutdown" \in e.fails THEN dsme_main_loop_quit(r)
       ELSE start_timer(r, "delayed_shutdown")

(***************************************************************************)
(* Selecting and changing the device state.                                *)
(***************************************************************************)
on(s, b) == b \in s.bits

normal_shutdown(s) ==
  /\ on(s, "shutdown_requested")
  /\ s.charger = "DISCONNECTED"
  /\ ~on(s, "alarm_pending") \/ HomeIsEncrypted

\* Mutant: overheating and an empty battery come before emergency calls.
select_state_critical_first(s) ==
  IF on(s, "device_overheated") \/ on(s, "battery_empty") THEN "SHUTDOWN"
  ELSE IF on(s, "emergency_call_ongoing") \/ on(s, "shutdown_blocked") THEN s.state
  ELSE IF on(s, "testmode_requested") THEN "TEST"
  ELSE IF on(s, "actdead_requested") THEN "ACTDEAD"
  ELSE IF normal_shutdown(s) THEN "SHUTDOWN"
  ELSE IF on(s, "reboot_requested") THEN "REBOOT"
  ELSE IF on(s, "shutdown_requested") THEN "ACTDEAD"
  ELSE "USER"

\* Mutant: requests are served although shutdown is blocked.
select_state_unblocked(s) ==
  IF on(s, "emergency_call_ongoing") THEN s.state
  ELSE IF on(s, "device_overheated") \/ on(s, "battery_empty") THEN "SHUTDOWN"
  ELSE IF on(s, "testmode_requested") THEN "TEST"
  ELSE IF on(s, "actdead_requested") THEN "ACTDEAD"
  ELSE IF normal_shutdown(s) THEN "SHUTDOWN"
  ELSE IF on(s, "reboot_requested") THEN "REBOOT"
  ELSE IF on(s, "shutdown_requested") THEN "ACTDEAD"
  ELSE "USER"

select_state(s) ==
  IF on(s, "emergency_call_ongoing") THEN s.state
  ELSE IF on(s, "device_overheated") \/ on(s, "battery_empty") THEN "SHUTDOWN"
  ELSE IF on(s, "shutdown_blocked") THEN s.state
  ELSE IF on(s, "testmode_requested") THEN "TEST"
  ELSE IF on(s, "actdead_requested") THEN "ACTDEAD"
  ELSE IF normal_shutdown(s) THEN "SHUTDOWN"
  ELSE IF on(s, "reboot_requested") THEN "REBOOT"
  ELSE IF on(s, "shutdown_requested") THEN "ACTDEAD"
  ELSE "USER"

\* Mutant: only applications of a running system are asked to save data.
change_state_saves_in_user(s, new) ==
  LET r == IF new \in Down /\ s.state = "USER"
           THEN broadcast(s, "SAVE_DATA_IND", new) ELSE s
  IN [broadcast(r, "STATE_CHANGE_IND", new) EXCEPT !.state = new]

\* Mutant: the state is announced before it is assigned.
change_state_announces_old(s, new) ==
  LET r == IF new \in Down THEN broadcast(s, "SAVE_DATA_IND", new) ELSE s
  IN [broadcast(r, "STATE_CHANGE_IND", s.state) EXCEPT !.state = new]

change_state(s, new) ==
  LET r == IF new \in Down THEN broadcast(s, "SAVE_DATA_IND", new) ELSE s
  IN [broadcast(r, "STATE_CHANGE_IND", new) EXCEPT !.state = new]

\* Shutdown or reboot: tell everybody, then give applications some time.
go_down(s, new, e) == start_delayed_shutdown_timer(change_state(s, new), e)

\* start_delayed_{user,actdead}_timer() and the state change it permits.
switch_runlevel(s, new, t, e) ==
  IF s.timers \cap RunlevelTimer # {} THEN s
  ELSE IF t \in e.fails THEN dsme_main_loop_quit(s)
  ELSE change_state(start_timer(s, t), new)

leave_actdead(s, new, e) ==
  IF s.level < DSME_MINIMUM_BATTERY_TO_USER
  THEN set_bit(s, "shutdown_requested", TRUE)
  ELSE LET r == set_bit(s, "user_switch_done", FALSE) IN
       IF DirectUserActdead THEN switch_runlevel(r, new, "delayed_user", e)
       ELSE go_down(r, "REBOOT", e)

leave_user(s, new, e) ==
  LET r == set_bit(s, "actdead_switch_done", FALSE) IN
  IF DirectUserActdead THEN switch_runlevel(r, new, "delayed_actdead", e)
  ELSE go_down(r, IF e.use_reboot THEN "REBOOT" ELSE "SHUTDOWN", e)

\* Mutant: the device may come back from a shutdown that is under way.
try_to_change_state_from_down(s, new, e) ==
  IF new \in Down THEN go_down(s, new, e)
  ELSE IF s.state \in {"NOT_SET"} \cup Down THEN change_state(s, new)
  ELSE IF new \in {"USER", "ACTDEAD"} /\ s.state = "ACTDEAD"
       THEN leave_actdead(s, new, e)
  ELSE IF new \in {"USER", "ACTDEAD"} /\ s.state = "USER"
       THEN leave_user(s, new, e)
  ELSE s

try_to_change_state(s, new, e) ==
  IF new \in Down THEN go_down(s, new, e)
  ELSE IF s.state = "NOT_SET" THEN change_state(s, new)
  ELSE IF new \in {"USER", "ACTDEAD"} /\ s.state = "ACTDEAD"
       THEN leave_actdead(s, new, e)
  ELSE IF new \in {"USER", "ACTDEAD"} /\ s.state = "USER"
       THEN leave_user(s, new, e)
  ELSE s

change_state_if_necessary(s, e) ==
  LET new == select_state(s) IN
  IF new = s.state THEN s ELSE try_to_change_state(s, new, e)

(***************************************************************************)
(* Requests.                                                               *)
(***************************************************************************)
\* No shutdown or reboot request is accepted in USB mass storage mode.
is_state_change_request_acceptable(s, requested) ==
  ~(requested \in Down /\ on(s, "mounted_to_pc"))

\* handle_telinit_SHUTDOWN/_REBOOT/_ACTDEAD/_USER for a privileged sender.
accept_request(s, requested) ==
  IF requested = "ACTDEAD" THEN set_bit(s, "actdead_requested", TRUE)
  ELSE LET r == set_bit(s, "actdead_requested", FALSE) IN
       IF requested = "REBOOT" THEN set_bit(r, "reboot_requested", TRUE)
       ELSE set_bit(r, "shutdown_requested", requested = "SHUTDOWN")

handle_telinit(s, requested, conn, e) ==
  IF ~endpoint_is_privileged(conn) THEN s
  ELSE IF ~is_state_change_request_acceptable(s, requested)
       THEN broadcast(s, "STATE_REQ_DENIED_IND", requested)
  ELSE change_state_if_necessary(accept_request(s, requested), e)

\* Mutant: a scheduled shutdown is not stopped.
update_emergency_call_ongoing_timers_run(s, value, e) ==
  IF on(s, "emergency_call_ongoing") = value THEN s
  ELSE LET r == set_bit(s, "emergency_call_ongoing", value) IN
       IF value THEN r ELSE change_state_if_necessary(r, e)

update_emergency_call_ongoing(s, value, e) ==
  IF on(s, "emergency_call_ongoing") = value THEN s
  ELSE LET r == set_bit(s, "emergency_call_ongoing", value) IN
       IF value THEN stop_delayed_runlevel_timers(r)
       ELSE change_state_if_necessary(r, e)

update_shutdown_blocked(s, value, e) ==
  IF on(s, "shutdown_blocked") = value THEN s
  ELSE LET r == set_bit(s, "shutdown_blocked", value) IN
       IF value THEN r
       ELSE change_state_if_necessary(
              set_bit(set_bit(r, "shutdown_requested", FALSE),
                      "reboot_requested", FALSE), e)

(***************************************************************************)
(* Delayed state bits.                                                     *)
(***************************************************************************)
\* The callback leaves its timer id zero, whether glib or start called it.
delayed_overheat_fn(s, e) ==
  stop_timers(change_state_if_necessary(
                set_bit(s, "device_overheated", TRUE), e), {"overheat"})

start_overheat_timer(s, e) ==
  IF "overheat" \in s.timers THEN s
  ELSE IF "overheat" \in e.fails THEN delayed_overheat_fn(s, e)
  ELSE start_timer(s, "overheat")

delayed_battery_empty_fn(s, e) ==
  stop_timers(change_state_if_necessary(
                set_bit(s, "battery_empty", TRUE), e), {"battery_empty"})

start_battery_empty_timer(s, e) ==
  IF "battery_empty" \in s.timers THEN s
  ELSE IF "battery_empty" \in e.fails THEN delayed_battery_empty_fn(s, e)
  ELSE start_timer(s, "battery_empty")

delayed_charger_disconnect_fn(s, e) ==
  stop_timers(change_state_if_necessary(
                set_charger_state(s, "DISCONNECTED"), e),
              {"charger_disconnect"})

start_charger_disconnect_timer(s, e) ==
  IF "charger_disconnect" \in s.timers THEN s
  ELSE IF "charger_disconnect" \in e.fails
       THEN delayed_charger_disconnect_fn(s, e)
  ELSE start_timer(s, "charger_disconnect")

stop_charger_disconnect_timer(s) ==
  IF "charger_disconnect" \in s.timers
  THEN set_charger_state(stop_timers(s, {"charger_disconnect"}),
                         "DISCONNECTED")
  ELSE s

(***************************************************************************)
(* Delayed runlevel changes.                                               *)
(***************************************************************************)
delayed_shutdown_fn(s) ==
  stop_timers(broadcast(s, "SHUTDOWN", state2runlevel(s.state)),
              {"delayed_shutdown"})

delayed_actdead_fn(s) ==
  stop_timers(broadcast(s, "CHANGE_RUNLEVEL", "ACTDEAD"), {"delayed_actdead"})

delayed_user_fn(s) ==
  stop_timers(broadcast(s, "CHANGE_RUNLEVEL", "USER"), {"delayed_user"})

timer_callback(s, t, e) ==
  CASE t = "overheat"           -> delayed_overheat_fn(s, e)
    [] t = "battery_empty"      -> delayed_battery_empty_fn(s, e)
    [] t = "charger_disconnect" -> delayed_charger_disconnect_fn(s, e)
    [] t = "delayed_shutdown"   -> delayed_shutdown_fn(s)
    [] t = "delayed_actdead"    -> delayed_actdead_fn(s)
    [] OTHER                    -> delayed_user_fn(s)

(***************************************************************************)
(* Start-up: the bits $BOOTSTATE implies, and the malf message it may      *)
(* carry.  "X+malf" is bootstate X followed by malf information.           *)
(***************************************************************************)
set_initial_state_bits(s, bootstate) ==
  CASE bootstate = "SHUTDOWN" ->
         set_bit(set_charger_state(s, "DISCONNECTED"),
                 "shutdown_requested", TRUE)
    [] bootstate \in {"ACT_DEAD", "ACT_DEAD+malf"} ->
         set_bit(s, "shutdown_requested", TRUE)
    [] bootstate = "BOOT" -> set_bit(s, "reboot_requested", TRUE)
    [] bootstate = "TEST" -> set_bit(s, "testmode_requested", TRUE)
    [] OTHER -> s

\* R&D mode suppresses malf, except for the explicit bootstate MALF.
enter_malf(s, bootstate) ==
  IF \/ bootstate = "MALF"
     \/ bootstate \in {"USER+malf", "ACT_DEAD+malf", "unknown"} /\ ~RdMode
  THEN broadcast(s, "ENTER_MALF", "NOT_SET")
  ELSE s
-----------------------------------------------------------------------------
(***************************************************************************)
(* Actions: one for every message handler, timer and plugin entry point.   *)
(***************************************************************************)
Commit(s) ==
  /\ bits' = s.bits
  /\ charger_state' = s.charger
  /\ dsme_battery_level' = s.level
  /\ current_state' = s.state
  /\ timers' = s.timers
  /\ sent' = s.sent
  /\ init_told' = init_told \cup
       {s.sent[i].arg : i \in {j \in DOMAIN s.sent : s.sent[j].type = "SHUTDOWN"}}
  /\ main_loop' = s.loop

\* A handler of the loaded plugin replaces the statics by s.
Handle(s) ==
  /\ plugin = "loaded"
  /\ main_loop # "NOT_STARTED"
  /\ Commit(s)
  /\ UNCHANGED plugin

Init ==
  /\ bits = {}
  /\ charger_state = "UNKNOWN"
  /\ dsme_battery_level = DSME_BATTERY_LEVEL_UNKNOWN
  /\ current_state = "NOT_SET"
  /\ timers = {}
  /\ sent = << >>
  /\ init_told = {}
  /\ main_loop = "NOT_STARTED"
  /\ plugin = "unloaded"

module_init(bootstate, e) ==
  /\ plugin = "unloaded"
  /\ Commit(change_state_if_necessary(
              enter_malf(set_initial_state_bits(Now, bootstate), bootstate), e))
  /\ plugin' = "loaded"

\* main() runs the main loop once the start-up plugins are loaded.
dsme_main_loop_run ==
  /\ plugin = "loaded"
  /\ main_loop = "NOT_STARTED"
  /\ Commit([Now EXCEPT !.loop = "RUNNING"])
  /\ UNCHANGED plugin

\* dsme unloads its plugins only when the main loop has ended.
module_fini ==
  /\ plugin = "loaded"
  /\ main_loop = "STOPPED"
  /\ Commit(stop_timers(
              stop_charger_disconnect_timer(stop_delayed_runlevel_timers(Now)),
              {"overheat", "battery_empty"}))
  /\ plugin' = "finished"

\* A signal, or another plugin, ends the main loop (dsme-server.c).
QuitMainLoop ==
  /\ plugin = "loaded"
  /\ main_loop = "RUNNING"
  /\ Commit(dsme_main_loop_quit(Now))
  /\ UNCHANGED plugin

SET_CHARGER_STATE(connected, e) ==
  LET new == IF connected THEN "CONNECTED" ELSE "DISCONNECTED"
      s   == stop_charger_disconnect_timer(Now)
  IN Handle(IF s.state = "ACTDEAD" /\ new = "DISCONNECTED"
            THEN start_charger_disconnect_timer(s, e)
            ELSE change_state_if_necessary(set_charger_state(s, new), e))

SET_USB_STATE(mounted) == Handle(set_bit(Now, "mounted_to_pc", mounted))

\* TELINIT, SHUTDOWN_REQ, REBOOT_REQ and POWERUP_REQ.
Request(requested, conn, e) == Handle(handle_telinit(Now, requested, conn, e))

SET_ALARM_STATE(alarm_set, e) ==
  Handle(change_state_if_necessary(
           set_bit(Now, "alarm_pending", alarm_set), e))

\* There is no going back: only DSM_THERMAL_STATUS_OVERHEATED does anything.
SET_THERMAL_STATUS(overheated, e) ==
  Handle(IF overheated THEN start_overheat_timer(Now, e) ELSE Now)

SET_EMERGENCY_CALL_STATE(ongoing, e) ==
  Handle(change_state_if_necessary(
           update_emergency_call_ongoing(Now, ongoing, e), e))

SET_BATTERY_LEVEL(level) == Handle([Now EXCEPT !.level = level])

SET_BATTERY_STATE(empty, e) ==
  Handle(IF empty
         THEN start_battery_empty_timer(
                broadcast(Now, "BATTERY_EMPTY_IND", "NOT_SET"), e)
         ELSE stop_timers(Now, {"battery_empty"}))

\* BLOCK_SHUTDOWN and ALLOW_SHUTDOWN; only dsme itself may send them.
BlockShutdown(blocked, conn, e) ==
  Handle(IF endpoint_is_dsme(conn)
         THEN update_shutdown_blocked(Now, blocked, e) ELSE Now)

\* The D-Bus signal runlevel_switch_done.
runlevel_switch_ind(runlevel) ==
  Handle(CASE runlevel = "ACTDEAD" ->
                LET s == set_bit(Now, "actdead_switch_done", TRUE) IN
                IF "delayed_user" \in timers THEN delayed_user_fn(s) ELSE s
           [] runlevel = "USER" ->
                LET s == set_bit(Now, "user_switch_done", TRUE) IN
                IF "delayed_actdead" \in timers THEN delayed_actdead_fn(s)
                ELSE s
           [] OTHER -> Now)

\* glib dispatches a timer: also one that expired in the iteration that quits.
TimerFires(t, e) ==
  /\ t \in timers
  /\ Handle(timer_callback(Now, t, e))

\* A report carrying a boolean, from the plugin that tracks it.
Report(v, e) ==
  \/ "charger" \in Inputs /\ SET_CHARGER_STATE(v, e)
  \/ "usb" \in Inputs /\ SET_USB_STATE(v)
  \/ "alarm" \in Inputs /\ SET_ALARM_STATE(v, e)
  \/ "thermal" \in Inputs /\ SET_THERMAL_STATUS(v, e)
  \/ "emergency" \in Inputs /\ SET_EMERGENCY_CALL_STATE(v, e)
  \/ "battery_state" \in Inputs /\ SET_BATTERY_STATE(v, e)
  \/ "block" \in Inputs /\ \E conn \in Senders : BlockShutdown(v, conn, e)

Next ==
  \/ dsme_main_loop_run
  \/ "quit" \in Inputs /\ QuitMainLoop
  \/ module_fini
  \/ "battery_level" \in Inputs /\ \E n \in BatteryLevels : SET_BATTERY_LEVEL(n)
  \/ "switch_done" \in Inputs
     /\ \E rl \in {"USER", "ACTDEAD", "TEST"} : runlevel_switch_ind(rl)
  \/ \E e \in Env :
       \/ \E bootstate \in BootStates : module_init(bootstate, e)
       \/ \E v \in BOOLEAN : Report(v, e)
       \/ \E r \in {"SHUTDOWN", "REBOOT", "ACTDEAD", "USER"} \cap Inputs,
            conn \in Senders : Request(r, conn, e)
       \/ \E t \in Timer : TimerFires(t, e)

Spec == Init /\ [][Next]_vars

(***************************************************************************)
(* glib runs every timer that expires while the main loop runs, and dsme   *)
(* loads its start-up plugins.  Nothing is assumed of senders.             *)
(***************************************************************************)
Fairness ==
  /\ \A t \in Timer :
       WF_vars(main_loop = "RUNNING" /\ \E e \in Env : TimerFires(t, e))
  /\ WF_vars(\E bootstate \in BootStates, e \in Env : module_init(bootstate, e))
  /\ WF_vars(dsme_main_loop_run)

FairSpec == Spec /\ Fairness
=============================================================================
