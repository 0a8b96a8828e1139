---------------------------- MODULE PowerControl ----------------------------
(***************************************************************************)
(* State policy, its reporters and its listeners, composed through the     *)
(* dsme message queue.                                                     *)
(*                                                                         *)
(* One iteration of the main loop (dsme/mainloop.c) first handles queued   *)
(* messages until none is left, then lets glib dispatch the sources that   *)
(* are ready: timers of state.c and D-Bus traffic.  What these dispatches  *)
(* broadcast is queued behind one another, so a message may be handled in  *)
(* a state that its sender did not see.                                    *)
(*                                                                         *)
(*   emergencycalltracker.c, dbusproxy.c, thermalmanager.c --> state.c     *)
(*   state.c --> dbusproxy.c (signals), runlevel.c (init), malf.c          *)
(***************************************************************************)
EXTENDS State

CONSTANTS
  MaxQueue,          \* bound on what one round of dispatches may queue
  CommandsMayFail    \* may enter_malf and the commands to init fail?

ASSUME PowerControlAssumption ==
  /\ MaxQueue \in Nat
  /\ CommandsMayFail \in BOOLEAN

VARIABLES
  queue,                  \* modulebase.c: message_queue
  phase,                  \* "handle" the queue or dispatch "sources"
  emergency_call_started, \* emergencycalltracker.c
  dsme_state,             \* dbusproxy.c: what get_state answers
  saved,                  \* history: save_unsaved_data was signalled
  forced,                 \* history: malf.c bypassed the state policy
  ordered                 \* history: runlevels init was ordered to enter

others == <<phase, emergency_call_started, dsme_state, saved, forced, ordered>>

all == <<vars, queue, others>>

\* What reporters and clients queue for state.c.
Incoming ==
  [type : {"SET_EMERGENCY_CALL_STATE", "SET_THERMAL_STATUS", "SET_CHARGER_STATE",
           "SET_BATTERY_STATE"}, arg : BOOLEAN]
  \cup [type : {"SHUTDOWN_REQ", "REBOOT_REQ", "BLOCK_SHUTDOWN", "ALLOW_SHUTDOWN"},
        arg : {TRUE}]

LevelReport == [type : {"SET_BATTERY_LEVEL"}, arg : BatteryLevels]

InputOf(type) ==
  CASE type = "SET_EMERGENCY_CALL_STATE" -> "emergency"
    [] type = "SET_THERMAL_STATUS"       -> "thermal"
    [] type = "SET_CHARGER_STATE"        -> "charger"
    [] type = "SET_BATTERY_STATE"        -> "battery_state"
    [] type = "SET_BATTERY_LEVEL"        -> "battery_level"
    [] type = "SHUTDOWN_REQ"             -> "SHUTDOWN"
    [] type = "REBOOT_REQ"               -> "REBOOT"
    [] OTHER                             -> "block"
-----------------------------------------------------------------------------
(***************************************************************************)
(* Dispatching sources.                                                    *)
(***************************************************************************)
Dispatching ==
  /\ phase = "sources"
  /\ Len(queue) < MaxQueue

\* A timer of state.c expires; its callback broadcasts right away.
DispatchTimer(t, e) ==
  /\ Dispatching
  /\ TimerFires(t, e)
  /\ queue' = queue \o sent'
  /\ UNCHANGED others

queue_message(m) ==
  /\ queue' = Append(queue, m)
  /\ sent' = << >>
  /\ UNCHANGED <<bits, charger_state, dsme_battery_level, current_state, timers,
                 init_told, main_loop, plugin>>

\* Mutant: the end of the call is not remembered.
mce_call_state_ind_sticky(emergency) ==
  /\ "emergency" \in Inputs
  /\ Dispatching
  /\ emergency \/ emergency_call_started
  /\ queue_message(Msg("SET_EMERGENCY_CALL_STATE", emergency))
  /\ emergency_call_started' = TRUE
  /\ UNCHANGED <<phase, dsme_state, saved, forced, ordered>>

\* MCE signals a call state to emergencycalltracker.c.
mce_call_state_ind(emergency) ==
  /\ "emergency" \in Inputs
  /\ Dispatching
  /\ emergency \/ emergency_call_started
  /\ queue_message(Msg("SET_EMERGENCY_CALL_STATE", emergency))
  /\ emergency_call_started' = emergency
  /\ UNCHANGED <<phase, dsme_state, saved, forced, ordered>>

\* Any other reporter or client has something for state.c.
Report2State(m) ==
  /\ InputOf(m.type) \in Inputs
  /\ m.type # "SET_EMERGENCY_CALL_STATE"
  /\ Dispatching
  /\ queue_message(m)
  /\ UNCHANGED others

\* The iteration is over; the next begins with the queue.
NextIteration ==
  /\ phase = "sources"
  /\ phase' = "handle"
  /\ sent' = << >>
  /\ UNCHANGED <<bits, charger_state, dsme_battery_level, current_state, timers,
                 init_told, main_loop, plugin, queue, emergency_call_started,
                 dsme_state, saved, forced, ordered>>
-----------------------------------------------------------------------------
(***************************************************************************)
(* Handling the queue.                                                     *)
(***************************************************************************)
\* The handler of state.c for a message.
StateHandler(m, e) ==
  \/ m.type = "SET_EMERGENCY_CALL_STATE" /\ SET_EMERGENCY_CALL_STATE(m.arg, e)
  \/ m.type = "SET_THERMAL_STATUS" /\ SET_THERMAL_STATUS(m.arg, e)
  \/ m.type = "SET_CHARGER_STATE" /\ SET_CHARGER_STATE(m.arg, e)
  \/ m.type = "SET_BATTERY_STATE" /\ SET_BATTERY_STATE(m.arg, e)
  \/ m.type = "SET_BATTERY_LEVEL" /\ SET_BATTERY_LEVEL(m.arg)
  \/ m.type = "SHUTDOWN_REQ" /\ Request("SHUTDOWN", "dsme", e)
  \/ m.type = "REBOOT_REQ" /\ Request("REBOOT", "dsme", e)
  \/ m.type = "BLOCK_SHUTDOWN" /\ BlockShutdown(TRUE, "dsme", e)
  \/ m.type = "ALLOW_SHUTDOWN" /\ BlockShutdown(FALSE, "dsme", e)

\* The next message goes to state.c, whose answers go to the end of the queue.
HandleByState(e) ==
  /\ phase = "handle"
  /\ queue # << >>
  /\ StateHandler(Head(queue), e)
  /\ queue' = Tail(queue) \o sent'
  /\ UNCHANGED <<phase, emergency_call_started, dsme_state, saved, forced, ordered>>

\* Another plugin handles the next message and queues ms.
HandleElsewhere(type, ms) ==
  /\ phase = "handle"
  /\ main_loop # "NOT_STARTED"
  /\ queue # << >>
  /\ Head(queue).type = type
  /\ queue' = Tail(queue) \o ms
  /\ sent' = << >>
  /\ UNCHANGED <<bits, charger_state, dsme_battery_level, current_state, timers,
                 init_told, plugin, phase, emergency_call_started>>

\* dbusproxy.c remembers the new state and signals it.
STATE_CHANGE_IND ==
  /\ HandleElsewhere("STATE_CHANGE_IND", << >>)
  /\ dsme_state' = Head(queue).arg
  /\ UNCHANGED <<main_loop, saved, forced, ordered>>

\* dbusproxy.c signals save_unsaved_data.
SAVE_DATA_IND ==
  /\ HandleElsewhere("SAVE_DATA_IND", << >>)
  /\ saved' = TRUE
  /\ UNCHANGED <<main_loop, dsme_state, forced, ordered>>

\* runlevel.c: shutdown() orders init, or ends dsme when all commands fail.
shutdown(fails) ==
  /\ HandleElsewhere("SHUTDOWN", << >>)
  /\ ordered' = IF Head(queue).arg \in Down THEN ordered \cup {Head(queue).arg}
                ELSE ordered
  /\ main_loop' = IF fails /\ Head(queue).arg \in Down /\ main_loop = "RUNNING"
                  THEN "STOPPED" ELSE main_loop
  /\ UNCHANGED <<dsme_state, saved, forced>>

\* runlevel.c: change_runlevel() orders init; that it may fail changes nothing here.
CHANGE_RUNLEVEL ==
  /\ HandleElsewhere("CHANGE_RUNLEVEL", << >>)
  /\ ordered' = ordered \cup {Head(queue).arg}
  /\ UNCHANGED <<main_loop, dsme_state, saved, forced>>

\* What becomes of fork() and of the enter_malf program.
MalfOutcome == {"entered", "failed", "fork failed"}

(***************************************************************************)
(* malf.c: when the enter_malf program fails, init is told behind the back *)
(* of state.c; a failing fork() ends the main loop as well.  When execv()  *)
(* fails it is the child that goes on so, with dsme waiting for it.        *)
(***************************************************************************)
enter_malf_tells(outcome, runlevel) ==
  /\ HandleElsewhere("ENTER_MALF", IF outcome = "entered" THEN << >>
                                   ELSE <<Msg("SHUTDOWN", runlevel)>>)
  /\ forced' = (forced \/ outcome # "entered")
  /\ main_loop' = IF outcome = "fork failed" /\ main_loop = "RUNNING"
                  THEN "STOPPED" ELSE main_loop
  /\ UNCHANGED <<dsme_state, saved, ordered>>

enter_malf_program(outcome) == enter_malf_tells(outcome, "SHUTDOWN")

\* dbusproxy.c signals a denied request or an empty battery: no state.
Signal ==
  /\ \E type \in {"STATE_REQ_DENIED_IND", "BATTERY_EMPTY_IND"} :
       HandleElsewhere(type, << >>)
  /\ UNCHANGED <<main_loop, dsme_state, saved, forced, ordered>>

\* The queue is empty: back to glib, if the main loop goes on.
QueueEmpty ==
  /\ phase = "handle"
  /\ queue = << >>
  /\ main_loop = "RUNNING"
  /\ phase' = "sources"
  /\ sent' = << >>
  /\ UNCHANGED <<bits, charger_state, dsme_battery_level, current_state, timers,
                 init_told, main_loop, plugin, queue, emergency_call_started,
                 dsme_state, saved, forced, ordered>>
-----------------------------------------------------------------------------
PInit ==
  /\ Init
  /\ queue = << >>
  /\ phase = "handle"
  /\ emergency_call_started = FALSE
  /\ dsme_state = "NOT_SET"
  /\ saved = FALSE
  /\ forced = FALSE
  /\ ordered = {}

\* dsme-server.c: plugins are loaded, then the main loop starts.
Start ==
  \/ \E bootstate \in BootStates, e \in Env :
       /\ module_init(bootstate, e)
       /\ queue' = queue \o sent'
       /\ UNCHANGED <<phase, emergency_call_started, dsme_state, saved, forced, ordered>>
  \/ dsme_main_loop_run /\ UNCHANGED <<queue, others>>

\* modulebase_shutdown(): queued messages first, then state.so is unloaded.
Stop ==
  /\ phase = "handle"
  /\ queue = << >>
  /\ module_fini
  /\ queue' = sent'
  /\ UNCHANGED others

Fails == IF CommandsMayFail THEN BOOLEAN ELSE {FALSE}

MalfOutcomes == IF CommandsMayFail THEN MalfOutcome ELSE {"entered"}

Dispatch ==
  \/ \E t \in Timer, e \in Env : DispatchTimer(t, e)
  \/ \E emergency \in BOOLEAN : mce_call_state_ind(emergency)
  \/ \E m \in Incoming : Report2State(m)
  \/ \E m \in LevelReport : Report2State(m)

HandleMessage ==
  \/ \E e \in Env : HandleByState(e)
  \/ STATE_CHANGE_IND
  \/ SAVE_DATA_IND
  \/ CHANGE_RUNLEVEL
  \/ \E fails \in Fails : shutdown(fails)
  \/ \E outcome \in MalfOutcomes : enter_malf_program(outcome)
  \/ Signal

PNext == Start \/ Stop \/ Dispatch \/ NextIteration \/ HandleMessage \/ QueueEmpty

PSpec == PInit /\ [][PNext]_all
-----------------------------------------------------------------------------
\* The positions of the queued messages of a type.
Queued(type) == {i \in DOMAIN queue : queue[i].type = type}

\* The last queued message of a type will have been handled last.
LastOf(type) ==
  queue[CHOOSE i \in Queued(type) : \A j \in Queued(type) : j <= i]

\* The queue holds messages of known types; the phases alternate.
PTypeOK ==
  /\ \A i \in DOMAIN queue : queue[i] \in Message \/ queue[i] \in Incoming
                              \/ queue[i] \in LevelReport
  /\ phase \in {"handle", "sources"}
  /\ dsme_state \in DeviceState
  /\ ordered \subseteq DeviceState

(***************************************************************************)
(* What D-Bus clients are told catches up with the device state: with the  *)
(* indications on their way dbusproxy.c knows the state of state.c, though *)
(* it asks only once and state.c tells it only of changes.                 *)
(***************************************************************************)
ProxyCatchesUp ==
  (IF Queued("STATE_CHANGE_IND") = {} THEN dsme_state
   ELSE LastOf("STATE_CHANGE_IND").arg) = current_state

(***************************************************************************)
(* state.c and emergencycalltracker.c, which each keep a flag of their     *)
(* own, agree on the emergency call when the queue is empty.               *)
(***************************************************************************)
TrackerCatchesUp ==
  (IF Queued("SET_EMERGENCY_CALL_STATE") = {}
   THEN "emergency_call_ongoing" \in bits
   ELSE LastOf("SET_EMERGENCY_CALL_STATE").arg) = emergency_call_started

(***************************************************************************)
(* Applications are asked to save their data before init is ordered to go  *)
(* down, unless malf.c forces a shutdown.                                  *)
(***************************************************************************)
SaveBeforeDown == ordered \cap Down # {} => saved \/ forced
=============================================================================
