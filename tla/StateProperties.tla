--------------------------- MODULE StateProperties ---------------------------
(***************************************************************************)
(* What the device state policy of modules/state.c promises.               *)
(***************************************************************************)
EXTENDS State

is_on(b) == b \in bits

\* The statics of state.c hold values of their C types.
TypeOK ==
  /\ bits \subseteq Bit
  /\ charger_state \in ChargerState
  /\ dsme_battery_level \in BatteryLevels \cup {DSME_BATTERY_LEVEL_UNKNOWN}
  /\ current_state \in DeviceState
  /\ timers \subseteq Timer
  /\ sent \in Seq(Message)
  /\ init_told \subseteq DeviceState
  /\ main_loop \in LoopState
  /\ plugin \in {"unloaded", "loaded", "finished"}

(***************************************************************************)
(* A pending runlevel timer always belongs to the state the device is      *)
(* heading for: delayed_shutdown_fn() reads current_state only when it     *)
(* fires, seconds after try_to_change_state() started the timer, and many  *)
(* handlers run in between.                                                *)
(***************************************************************************)
RunlevelTimerMatchesState ==
  /\ "delayed_shutdown" \in timers => current_state \in Down
  /\ "delayed_actdead" \in timers => current_state = "ACTDEAD"
  /\ "delayed_user" \in timers => current_state = "USER"

(***************************************************************************)
(* While an emergency call is ongoing no change of runlevel is pending: a  *)
(* scheduled shutdown was stopped and no handler may schedule another.     *)
(***************************************************************************)
EmergencyHoldsRunlevel ==
  is_on("emergency_call_ongoing") => timers \cap RunlevelTimer = {}

\* The only runlevels init is told to go down to are shutdown and reboot.
InitToldDown == init_told \subseteq Down

\* The inductive invariant: each timer fact needs the others at some handler.
Inv ==
  /\ TypeOK
  /\ RunlevelTimerMatchesState
  /\ EmergencyHoldsRunlevel
  /\ InitToldDown

\* Once the device is going down no message takes it up again.
NoReturnFromDown ==
  [][(current_state \in Down) => (current_state' \in Down)]_vars

\* An emergency call freezes the device state, even overheated or empty.
EmergencyFreezesState ==
  [][is_on("emergency_call_ongoing") /\ is_on("emergency_call_ongoing")'
       => current_state' = current_state]_vars

(***************************************************************************)
(* While D-Bus clients block shutdown the state changes only because the   *)
(* device overheated or the battery is empty.                              *)
(***************************************************************************)
BlockedUnlessCritical ==
  [][is_on("shutdown_blocked") /\ is_on("shutdown_blocked")'
       /\ current_state' # current_state
       => is_on("device_overheated")' \/ is_on("battery_empty")']_vars

(***************************************************************************)
(* If no emergency call interferes, a thermal alarm or an empty battery    *)
(* ends with init being told to go down, whatever else happens meanwhile.  *)
(***************************************************************************)
CriticalShutdownHappens ==
  [](~is_on("emergency_call_ongoing")) =>
    (("overheat" \in timers \/ is_on("battery_empty"))
       ~> (init_told # {} \/ main_loop = "STOPPED"))

(***************************************************************************)
(* doc/thermal_sensor_config_files.txt: "If at least one sensor gets to    *)
(* fatal thermal status, the device will shutdown."  Emergency calls may   *)
(* delay it, but they end.                                                 *)
(***************************************************************************)
FatalThermalStatusShutsDown ==
  <>[](~is_on("emergency_call_ongoing")) =>
    ("overheat" \in timers ~> (init_told # {} \/ main_loop = "STOPPED"))
=============================================================================
