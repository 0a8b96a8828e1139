------------------------------ MODULE Battery ------------------------------
(***************************************************************************)
(* The battery tracker, modules/batterytracker.c: follows MCE over D-Bus   *)
(* and decides when an empty battery has to shut the device down.          *)
(*                                                                         *)
(* MCE comes, goes and changes what it knows at any time.  What it and the *)
(* bus daemon send to dsme arrives in the order it was sent, in inbox; a   *)
(* call that is in pc and has no reply there is still on its way or with   *)
(* MCE.  Callbacks of the main loop are steps.                             *)
(***************************************************************************)
EXTENDS Integers, Sequences, SequencesExt

CONSTANTS
  Queries,      \* the values followed: "cable", "charger", "status" and "level"
  Values,       \* what MCE may report for each of them
  ConfigFiles,  \* what BATTERY_LEVEL_CONFIG_FILE may hold, see config_load
  DeviceStates, \* that state.c may report
  StartValues,  \* what it may know when it starts
  MaxEvents     \* bound: what happens outside the module, see Event

UNKNOWN == "unknown"
LEVEL_UNKNOWN == -1
BATTERY_LEVEL_CRITICAL == 1
DefaultLimit == 3

Nothing == [q \in Queries |-> IF q = "level" THEN LEVEL_UNKNOWN ELSE UNKNOWN]

\* What MCE knows when it starts is a value for each query, or that there is none.
ASSUME BatteryAssumption ==
  /\ {"charger", "level"} \subseteq Queries
  /\ "owner" \notin Queries
  /\ Values["level"] \subseteq Int
  /\ \A v \in StartValues : /\ v = [q \in Queries |-> v[q]]
                              /\ \A q \in Queries : v[q] \in Values[q] \cup {Nothing[q]}
  /\ MaxEvents \in Nat

VARIABLES
  loaded,             \* batterytracker.so is loaded
  limit,              \* config_level_data[DSME_BATTERY_CONFIG_WARNING].min_level
  known,              \* dsme_usb_cable_state, ..., dsme_battery_level
  init_done, dsme_state, alarm_active,
  alarm_holdon_id, battery_empty_rethink_id, \* timers: TRUE when running
  shutdown_requested,
  charger_prev,       \* send_charger_state(): the report sent last
  systembus, xmce_running,
  pc,                 \* the pending calls: Queries, and "owner"
  inbox,              \* messages to dsme on the connection
  bound,              \* dbus_signals_bound
  mce,                \* external: MCE
  boot_done,          \* external: /run/systemd/boot-status/init-done
  remembered,         \* history: xmce_running is from before the bus was connected
  failed,             \* history: the values whose last query failed
  events              \* counts them

trackerVars == <<loaded, limit, known, init_done, dsme_state, alarm_active,
                 alarm_holdon_id, battery_empty_rethink_id, shutdown_requested,
                 charger_prev>>
busVars == <<systembus, xmce_running, pc, inbox, bound, remembered>>
envVars == <<mce, boot_done, failed, events>>
vars == <<trackerVars, busVars, envVars>>

\* An event from outside.
Event == events < MaxEvents /\ events' = events + 1

\* A message on the connection.
IsMessage(m) ==
  CASE m.type \in {"signal", "reply"} -> m.of \in Queries /\ m.value \in Values[m.of] \cup {Nothing[m.of]}
    [] m.type = "error" -> m.of \in Queries
    [] m.type \in {"owner", "owner_reply"} -> m.running \in BOOLEAN
    [] OTHER -> m.type \in {"init_done", "cancelled"}
-----------------------------------------------------------------------------
(***************************************************************************)
(* The configuration and the decision.                                     *)
(***************************************************************************)
\* config_load(): five lines that all make sense, or the built-in levels.  Only
\* the shutdown limit, on the fourth line, is used.
config_load(lines) ==
  IF /\ Len(lines) >= 5
     /\ \A i \in 1 .. 5 : /\ lines[i].values >= 2
                          /\ lines[i].polling_time \in 10 .. 1000
                          /\ lines[i].min_level \in 0 .. 100
     /\ \A i \in 2 .. 5 : lines[i - 1].min_level > lines[i].min_level
  THEN lines[4].min_level ELSE DefaultLimit

\* condition_battery_is_empty(): unknown and invalid levels are not empty.
condition_battery_is_empty ==
  known["level"] # LEVEL_UNKNOWN /\ known["level"] \in 0 .. 100 /\ known["level"] < limit

condition_charging_is_on == known["charger"] = "on"
condition_level_is_critical ==
  dsme_state # "ACTDEAD" /\ known["level"] <= BATTERY_LEVEL_CRITICAL

\* battery_empty_rethink_cb(): an alarm and charging put the shutdown off unless
\* the level is critical; nothing shuts down in the middle of booting.
request_shutdown ==
  /\ condition_battery_is_empty
  /\ (~alarm_active /\ ~condition_charging_is_on) \/ condition_level_is_critical
  /\ init_done

\* battery_empty_schedule_rethink()
battery_empty_schedule_rethink == battery_empty_rethink_id' = TRUE

\* Mutant: the decision is left as it is after the level has changed.
value_set_lazy(q, v) ==
  /\ known' = [known EXCEPT ![q] = v]
  /\ battery_empty_rethink_id' = (battery_empty_rethink_id \/ (known[q] # v /\ q # "level"))
  /\ charger_prev' = IF q = "charger" /\ v # known[q] /\ v # UNKNOWN THEN v ELSE charger_prev

\* dsme_usb_cable_state_set(), dsme_charger_state_set(), dsme_battery_status_set()
\* and dsme_battery_level_set(); a known charger state is broadcast.
value_set(q, v) ==
  /\ known' = [known EXCEPT ![q] = v]
  /\ battery_empty_rethink_id' = (battery_empty_rethink_id \/ known[q] # v)
  /\ charger_prev' = IF q = "charger" /\ v # known[q] /\ v # UNKNOWN THEN v ELSE charger_prev

\* The strings of dsme_usb_cable_state_lut, dsme_charger_state_lut and
\* dsme_battery_status_lut.
Symbols == [cable |-> {"connected", "disconnected"}, charger |-> {"on", "off"},
            status |-> {"full", "ok", "low", "empty"}]

\* dsme_usb_cable_state_parse(), dsme_charger_state_parse(), dsme_battery_status_parse()
\* and symbol_lookup_val(): any other string is unknown.  A level is a number.
parse(q, value) == IF q = "level" \/ value \in Symbols[q] THEN value ELSE UNKNOWN

\* init_done_set(TRUE)
init_done_set ==
  /\ init_done' = TRUE
  /\ battery_empty_rethink_id' = (battery_empty_rethink_id \/ ~init_done)

\* Mutant: nothing ends an alarm that nobody reacts to.
alarm_active_set_forever(active) ==
  /\ alarm_active' = active
  /\ alarm_holdon_id' = FALSE
  /\ battery_empty_schedule_rethink

\* alarm_active_set(), when that is a change: an alarm is given a minute.
alarm_active_set(active) ==
  /\ alarm_active' = active
  /\ alarm_holdon_id' = active
  /\ battery_empty_schedule_rethink
-----------------------------------------------------------------------------
(***************************************************************************)
(* Following MCE.                                                          *)
(***************************************************************************)
\* xmce_forget_..._query(), dbus_pending_call_cancel() of calls: nobody waits for
\* their replies any more.
Without(msgs, calls) ==
  [i \in DOMAIN msgs |->
     IF msgs[i].type \in {"reply", "error"} /\ msgs[i].of \in calls
     THEN [type |-> "cancelled"] ELSE msgs[i]]

\* xmce_send_usb_cable_state_query() .. xmce_send_battery_level_query(): a new call
\* takes the place of a pending one.
xmce_send_queries(pending) == pending \cup Queries

\* Mutant: MCE is asked only the first time it is seen.
xmce_running_set_once(running, msgs, pending) ==
  /\ xmce_running' = (running \/ xmce_running)
  /\ remembered' = (remembered /\ running)
  /\ pc' = IF running = xmce_running THEN pending
           ELSE IF running THEN xmce_send_queries(pending) ELSE pending \ Queries
  /\ inbox' = IF running = xmce_running THEN msgs ELSE Without(msgs, Queries)

\* xmce_running_set(): MCE that has appeared is asked for everything; the calls to
\* one that has gone are forgotten.
xmce_running_set(running, msgs, pending) ==
  /\ xmce_running' = running
  /\ remembered' = (remembered /\ running)
  /\ pc' = IF running = xmce_running THEN pending
           ELSE IF running THEN xmce_send_queries(pending) ELSE pending \ Queries
  /\ inbox' = IF running = xmce_running THEN msgs ELSE Without(msgs, Queries)

\* xmce_usb_cable_state_signal_cb() .. xmce_battery_level_signal_cb()
signal_cb(m) ==
  /\ value_set(m.of, parse(m.of, m.value))
  /\ inbox' = Tail(inbox)
  /\ UNCHANGED <<init_done, xmce_running, remembered, pc>>

\* xmce_usb_cable_state_reply_cb() .. xmce_battery_level_reply_cb(): an error
\* leaves the value as it is.
reply_cb(m) ==
  /\ m.of \in pc
  /\ pc' = pc \ {m.of}
  /\ inbox' = Tail(inbox)
  /\ IF m.type = "reply" THEN value_set(m.of, parse(m.of, m.value))
     ELSE UNCHANGED <<known, battery_empty_rethink_id, charger_prev>>
  /\ UNCHANGED <<init_done, xmce_running, remembered>>

\* xmce_name_owner_filter_cb()
xmce_name_owner_filter_cb(m) ==
  /\ xmce_running_set(m.running, Tail(inbox), pc)
  /\ UNCHANGED <<known, battery_empty_rethink_id, charger_prev, init_done>>

\* xmce_name_owner_reply_cb()
xmce_name_owner_reply_cb(m) ==
  /\ "owner" \in pc
  /\ xmce_running_set(m.running, Tail(inbox), pc \ {"owner"})
  /\ UNCHANGED <<known, battery_empty_rethink_id, charger_prev, init_done>>

\* init_done_signal_cb()
init_done_signal_cb ==
  /\ init_done_set
  /\ inbox' = Tail(inbox)
  /\ UNCHANGED <<known, charger_prev, xmce_running, remembered, pc>>

\* The reply to a call that was cancelled.
unhandled ==
  /\ inbox' = Tail(inbox)
  /\ UNCHANGED <<known, battery_empty_rethink_id, charger_prev, init_done, xmce_running,
                 remembered, pc>>

\* The next message of the connection.
Receive ==
  /\ loaded /\ systembus /\ inbox # <<>>
  /\ LET m == Head(inbox) IN
     \/ m.type = "signal" /\ signal_cb(m)
     \/ m.type \in {"reply", "error"} /\ reply_cb(m)
     \/ m.type = "owner" /\ xmce_name_owner_filter_cb(m)
     \/ m.type = "owner_reply" /\ xmce_name_owner_reply_cb(m)
     \/ m.type = "init_done" /\ init_done_signal_cb
     \/ m.type = "cancelled" /\ unhandled
  /\ UNCHANGED <<loaded, limit, dsme_state, alarm_active, alarm_holdon_id,
                 shutdown_requested, systembus, bound, envVars>>

\* DSM_MSGTYPE_DBUS_CONNECTED: binds the signals, and xmce_tracking_init() asks
\* whether MCE is there.
DBUS_CONNECTED ==
  /\ loaded /\ ~systembus /\ Event
  /\ systembus' = TRUE
  /\ bound' = TRUE
  /\ pc' = pc \cup {"owner"}
  /\ UNCHANGED <<trackerVars, xmce_running, remembered, inbox, mce, boot_done, failed>>

\* systembus_disconnect(): xmce_tracking_quit() forgets every call.  That MCE was
\* running is remembered.
systembus_disconnect ==
  /\ systembus' = FALSE
  /\ pc' = {}
  /\ inbox' = <<>>
  /\ remembered' = xmce_running
  /\ UNCHANGED xmce_running

\* DSM_MSGTYPE_DBUS_DISCONNECT, from dsmetool.
DBUS_DISCONNECT ==
  /\ loaded /\ systembus /\ Event
  /\ systembus_disconnect
  /\ UNCHANGED <<trackerVars, bound, mce, boot_done, failed>>
-----------------------------------------------------------------------------
(***************************************************************************)
(* Messages from other modules, and the timers.                            *)
(***************************************************************************)
\* DSM_MSGTYPE_STATE_CHANGE_IND
STATE_CHANGE_IND(s) ==
  /\ loaded /\ s # dsme_state /\ Event
  /\ dsme_state' = s
  /\ battery_empty_schedule_rethink
  /\ UNCHANGED <<loaded, limit, known, init_done, alarm_active, alarm_holdon_id,
                 shutdown_requested, charger_prev, busVars, mce, boot_done, failed>>

\* DSM_MSGTYPE_SET_ALARM_STATE
SET_ALARM_STATE(set) ==
  /\ loaded /\ set # alarm_active /\ Event
  /\ alarm_active_set(set)
  /\ UNCHANGED <<loaded, limit, known, init_done, dsme_state, shutdown_requested,
                 charger_prev, busVars, mce, boot_done, failed>>

\* alarm_holdon_cb(): the minute is over, as if the alarm was.
alarm_holdon_cb ==
  /\ alarm_holdon_id
  /\ alarm_active_set(FALSE)
  /\ UNCHANGED <<loaded, limit, known, init_done, dsme_state, shutdown_requested,
                 charger_prev, busVars, envVars>>

\* battery_empty_rethink_cb(): a change of the decision is broadcast.
battery_empty_rethink_cb ==
  /\ battery_empty_rethink_id
  /\ battery_empty_rethink_id' = FALSE
  /\ shutdown_requested' = request_shutdown
  /\ UNCHANGED <<loaded, limit, known, init_done, dsme_state, alarm_active,
                 alarm_holdon_id, charger_prev, busVars, envVars>>

\* module_init(): init_done_probe() and the configuration.
module_init ==
  /\ ~loaded
  /\ loaded' = TRUE
  /\ init_done' = boot_done
  /\ battery_empty_rethink_id' = boot_done
  /\ \E lines \in ConfigFiles : limit' = config_load(lines)
  /\ UNCHANGED <<known, dsme_state, alarm_active, alarm_holdon_id, shutdown_requested,
                 charger_prev, busVars, envVars>>

\* module_fini(): unbinds, disconnects and stops the timers.  The module starts
\* afresh when it is loaded again, by the dsme that follows.
module_fini ==
  /\ loaded /\ Event
  /\ loaded' = FALSE /\ limit' = DefaultLimit
  /\ known' = Nothing
  /\ init_done' = FALSE /\ dsme_state' = "NOT_SET" /\ alarm_active' = FALSE
  /\ alarm_holdon_id' = FALSE /\ battery_empty_rethink_id' = FALSE
  /\ shutdown_requested' = FALSE /\ charger_prev' = UNKNOWN
  /\ systembus' = FALSE /\ xmce_running' = FALSE /\ pc' = {} /\ inbox' = <<>>
  /\ bound' = FALSE /\ remembered' = FALSE
  /\ UNCHANGED <<mce, boot_done, failed>>
-----------------------------------------------------------------------------
(***************************************************************************)
(* MCE, the bus daemon and systemd.                                        *)
(***************************************************************************)
Send(m) == inbox' = IF systembus THEN Append(inbox, m) ELSE inbox

MceStarts(values) ==
  /\ ~mce.on /\ Event
  /\ mce' = [on |-> TRUE, values |-> values]
  /\ Send([type |-> "owner", running |-> TRUE])
  /\ failed' = {}
  /\ UNCHANGED <<trackerVars, systembus, xmce_running, remembered, pc, bound, boot_done>>

MceDies ==
  /\ mce.on /\ Event
  /\ mce' = [mce EXCEPT !.on = FALSE]
  /\ Send([type |-> "owner", running |-> FALSE])
  /\ UNCHANGED <<trackerVars, systembus, xmce_running, remembered, pc, bound, boot_done, failed>>

MceChanges(q, v) ==
  /\ mce.on /\ v # mce.values[q] /\ Event
  /\ mce' = [mce EXCEPT !.values[q] = v]
  /\ Send([type |-> "signal", of |-> q, value |-> v])
  /\ failed' = failed \ {q}
  /\ UNCHANGED <<trackerVars, systembus, xmce_running, remembered, pc, bound, boot_done>>

Answered(q) == \E i \in DOMAIN inbox : inbox[i].type \in {"reply", "error"} /\ inbox[i].of = q

\* MCE answers a call; the bus answers for one that is not there, and the call
\* may fail or time out.
Answer(q) ==
  /\ q \in pc /\ ~Answered(q)
  /\ \/ /\ mce.on
        /\ Send([type |-> "reply", of |-> q, value |-> mce.values[q]])
        /\ failed' = failed \ {q}
        /\ UNCHANGED events
     \/ /\ IF mce.on THEN Event ELSE UNCHANGED events
        /\ Send([type |-> "error", of |-> q])
        /\ failed' = failed \cup {q}
  /\ UNCHANGED <<trackerVars, systembus, xmce_running, remembered, pc, bound, mce, boot_done>>

\* The bus daemon answers GetNameOwner.
AnswerOwner ==
  /\ "owner" \in pc
  /\ \A i \in DOMAIN inbox : inbox[i].type # "owner_reply"
  /\ Send([type |-> "owner_reply", running |-> mce.on])
  /\ UNCHANGED <<trackerVars, systembus, xmce_running, remembered, pc, bound, envVars>>

BootDone ==
  /\ ~boot_done /\ Event
  /\ boot_done' = TRUE
  /\ Send([type |-> "init_done"])
  /\ UNCHANGED <<trackerVars, systembus, xmce_running, remembered, pc, bound, mce, failed>>
-----------------------------------------------------------------------------
Init ==
  /\ loaded = FALSE /\ limit = DefaultLimit
  /\ known = Nothing
  /\ init_done = FALSE /\ dsme_state = "NOT_SET" /\ alarm_active = FALSE
  /\ alarm_holdon_id = FALSE /\ battery_empty_rethink_id = FALSE
  /\ shutdown_requested = FALSE /\ charger_prev = UNKNOWN
  /\ systembus = FALSE /\ xmce_running = FALSE /\ pc = {} /\ inbox = <<>>
  /\ bound = FALSE /\ remembered = FALSE
  /\ mce = [on |-> FALSE, values |-> Nothing]
  /\ boot_done = FALSE
  /\ failed = {}
  /\ events = 0

Next ==
  \/ Receive
  \/ DBUS_CONNECTED \/ DBUS_DISCONNECT
  \/ \E s \in DeviceStates : STATE_CHANGE_IND(s)
  \/ \E set \in BOOLEAN : SET_ALARM_STATE(set)
  \/ alarm_holdon_cb \/ battery_empty_rethink_cb
  \/ module_init \/ module_fini
  \/ (\E values \in StartValues : MceStarts(values)) \/ MceDies
  \/ \E q \in Queries : Answer(q) \/ \E v \in Values[q] : MceChanges(q, v)
  \/ AnswerOwner \/ BootDone

\* The main loop runs what is ready, and MCE and the bus daemon answer.
Fairness ==
  /\ WF_vars(Receive) /\ WF_vars(alarm_holdon_cb) /\ WF_vars(battery_empty_rethink_cb)
  /\ \A q \in Queries : WF_vars(Answer(q))
  /\ WF_vars(AnswerOwner)

Spec == Init /\ [][Next]_vars /\ Fairness
-----------------------------------------------------------------------------
(***************************************************************************)
(* Properties.                                                             *)
(***************************************************************************)
\* The variables have their types; a timer runs only in a loaded module, and a
\* reply in inbox is that of a pending call.
TypeOK ==
  /\ {loaded, init_done, alarm_active, alarm_holdon_id, battery_empty_rethink_id,
      shutdown_requested, systembus, xmce_running, bound, remembered, boot_done} \subseteq BOOLEAN
  /\ limit \in 0 .. 100
  /\ \A q \in Queries : known[q] \in Values[q] \cup {Nothing[q]}
  /\ dsme_state \in DeviceStates \cup {"NOT_SET"}
  /\ charger_prev \in {UNKNOWN, "on", "off"}
  /\ pc \subseteq Queries \cup {"owner"}
  /\ \A i \in DOMAIN inbox : /\ IsMessage(inbox[i])
                             /\ inbox[i].type \in {"reply", "error"} => inbox[i].of \in pc
  /\ alarm_holdon_id \/ battery_empty_rethink_id => loaded

\* Whenever the module is at rest, what it told the rest of dsme is what the
\* values it knows call for: every way a value can change leads to a new decision
\* (battery_empty_rethink_cb()), and the charger state is reported.
ReportsCurrent ==
  /\ loaded /\ ~battery_empty_rethink_id => shutdown_requested = request_shutdown
  /\ known["charger"] # UNKNOWN => charger_prev = known["charger"]

\* When nothing is under way on the bus, the module knows what MCE knows, however
\* signals, replies, restarts of MCE and the name owner query overtook each
\* other.  The exceptions are a query that failed, and xmce_running remembered
\* from an earlier connection: MCE is then not asked again.
TracksMce ==
  (loaded /\ systembus /\ mce.on /\ inbox = <<>> /\ pc = {} /\ ~remembered) =>
     \A q \in Queries \ failed : known[q] = parse(q, mce.values[q])

EmptyBattery ==
  /\ loaded /\ init_done /\ systembus /\ ~remembered /\ mce.on /\ failed = {}
  /\ mce.values["level"] \in 0 .. limit - 1
  /\ mce.values["charger"] # "on"

\* A battery that stays empty shuts the device down, "despite having an alarm on
\* screen" (ALARM_DELAYED_TIMEOUT): the hold-on timer ends an alarm nobody
\* reacts to, also when the level was reported while the alarm went on.
EmptyBatteryReported == <>[]EmptyBattery => <>[]shutdown_requested
=============================================================================
