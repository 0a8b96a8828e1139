---------------------------- MODULE AlarmTracker ----------------------------
(***************************************************************************)
(* The alarm tracker, modules/alarmtracker.c: timed tells when the next    *)
(* alarm is (0: never, 1: one is ringing), and state.c is told whether one *)
(* rings or is about to, so that the device acts dead for it instead of    *)
(* shutting down.  The time is kept in a file for the next start of dsme,  *)
(* which comes before that of timed.                                       *)
(*                                                                         *)
(* The file is replaced by writing another and renaming it; dsme may crash *)
(* between any two of those calls.  Data is taken to be in a file before   *)
(* the rename that replaces it is (the code does not fsync()).             *)
(***************************************************************************)
EXTENDS Integers

CONSTANTS
  AlarmTimes,       \* what timed may report: 0, 1, points in time, -1
  SnoozeTimeout,    \* dsme_snooze_timeout_in_seconds()
  SaveWindow,       \* the 120 s within which iphb.c sends WAKEUP, if awake
  AlarmMaxTime,     \* bound: time
  AlarmEvents       \* bound: what happens outside the module

VARIABLES
  up,             \* alarmtracker.so is loaded
  current,        \* alarmtracker_alarmtime_current
  cached,         \* alarmtracker_alarmtime_cached
  alarm_set,      \* alarmtracker_alarmstate_broadcast(): what state.c knows
  evaluate_id,    \* seconds until alarmstate_evaluate_cb(), or None
  dsmestate,      \* alarmtracker_dsmestate_current
  wait,           \* seconds until the last WAKEUP asked for of iphb.c, or None
  saving,         \* how far alarmtime_save() is: "no", "opened", "written"
  file, tmp,      \* ALARM_STATE_FILE, ALARM_STATE_FILE_TMP
  encrypted,      \* dsme_home_is_encrypted()
  now,            \* time(0)
  unsaved,        \* history: the last save failed
  slept,          \* history: a suspend or a new time since the last evaluation
  events

vars == <<up, current, cached, alarm_set, evaluate_id, dsmestate, wait, saving, file, tmp,
          encrypted, now, unsaved, slept, events>>

None == -1
Torn == -2          \* a file that holds no whole number
FarAway == 9999

Event == events < AlarmEvents /\ events' = events + 1
-----------------------------------------------------------------------------
\* alarmtracker_alarmtime_in(): seconds to an alarm at t.
alarmtime_in(t) == IF t <= 0 THEN FarAway ELSE IF t <= now THEN 0 ELSE t - now

\* An alarm at t rings or is about to, in dsme's state s.
AlarmSet(t, s) ==
  /\ ~(s = "ACTDEAD" /\ encrypted)
  /\ t # 0
  /\ t = 1 \/ alarmtime_in(t) <= SnoozeTimeout

\* Mutant: schedule_evaluate() does nothing when a timer runs, and none is cancelled.
evaluate_keeps_timer(t, s) ==
  /\ alarm_set' = AlarmSet(t, s)
  /\ evaluate_id' =
       IF evaluate_id # None \/ AlarmSet(t, s) \/ t \in {0, 1} \/ (s = "ACTDEAD" /\ encrypted)
       THEN evaluate_id ELSE alarmtime_in(t) - SnoozeTimeout
  /\ slept' = FALSE

\* alarmtracker_alarmstate_evaluate(), _cancel_evaluate(), _schedule_evaluate(),
\* _broadcast(): evaluates again when the alarm comes near.
alarmstate_evaluate(t, s) ==
  /\ alarm_set' = AlarmSet(t, s)
  /\ evaluate_id' =
       IF AlarmSet(t, s) \/ t \in {0, 1} \/ (s = "ACTDEAD" /\ encrypted)
       THEN None ELSE alarmtime_in(t) - SnoozeTimeout
  /\ slept' = FALSE

\* alarmtracker_alarmtime_update(), _schedule_save(): the WAIT replaces the one
\* before it.
alarmtime_update(t) ==
  /\ current' = t
  /\ IF t # current
     THEN alarmstate_evaluate(t, dsmestate)
     ELSE UNCHANGED <<alarm_set, evaluate_id, slept>>
  /\ wait' = IF t # cached THEN SaveWindow ELSE wait

\* com.nokia.time.next_bootup_event
next_bootup_event_cb(t) ==
  /\ up /\ saving = "no" /\ Event
  /\ alarmtime_update(t)
  /\ unsaved' = IF t = cached THEN unsaved ELSE FALSE
  /\ UNCHANGED <<up, cached, dsmestate, saving, file, tmp, encrypted, now>>

\* alarmtracker_alarmstate_evaluate_cb()
alarmstate_evaluate_cb ==
  /\ up /\ saving = "no" /\ evaluate_id = 0
  /\ alarmstate_evaluate(current, dsmestate)
  /\ UNCHANGED <<up, current, cached, dsmestate, wait, saving, file, tmp, encrypted, now,
                 unsaved, events>>

\* DSM_MSGTYPE_STATE_CHANGE_IND: alarmtracker_dsmestate_update()
STATE_CHANGE_IND(s) ==
  /\ up /\ saving = "no" /\ s # dsmestate /\ Event
  /\ dsmestate' = s
  /\ alarmstate_evaluate(current, s)
  /\ UNCHANGED <<up, current, cached, wait, saving, file, tmp, encrypted, now, unsaved>>
-----------------------------------------------------------------------------
(***************************************************************************)
(* alarmtracker_alarmtime_save(), call by call.                            *)
(***************************************************************************)
Saved == UNCHANGED <<up, current, alarm_set, evaluate_id, dsmestate, encrypted, now, slept>>

\* Mutant: the file itself is opened, and so emptied.
save_opens_file ==
  IF cached = current
  THEN saving' = "no" /\ UNCHANGED <<file, tmp, unsaved>>
  ELSE saving' = "opened" /\ file' = Torn /\ tmp' = Torn /\ UNCHANGED unsaved

\* Up to fopen(ALARM_STATE_FILE_TMP): nothing is done when the file is up to date.
save_opens ==
  IF cached = current
  THEN saving' = "no" /\ UNCHANGED <<file, tmp, unsaved>>
  ELSE saving' = "opened" /\ tmp' = Torn /\ UNCHANGED <<file, unsaved>>

\* DSM_MSGTYPE_WAKEUP, asked for with WAIT.
WAKEUP ==
  /\ up /\ saving = "no" /\ wait # None
  /\ wait' = None
  /\ save_opens
  /\ Saved /\ UNCHANGED <<cached, events>>

\* fprintf(), fflush() and fclose()
save_writes ==
  /\ saving = "opened"
  /\ saving' = "written" /\ tmp' = current
  /\ Saved /\ UNCHANGED <<cached, wait, file, unsaved, events>>

\* rename(); cached only follows now.
save_renames ==
  /\ saving = "written"
  /\ saving' = "no" /\ file' = tmp /\ cached' = current
  /\ unsaved' = FALSE
  /\ Saved /\ UNCHANGED <<wait, tmp, events>>

\* Any of the calls fails; nobody tries again before the next change.
save_fails ==
  /\ saving # "no" /\ Event
  /\ saving' = "no" /\ unsaved' = TRUE
  /\ Saved /\ UNCHANGED <<cached, wait, file, tmp>>
-----------------------------------------------------------------------------
\* The statics of a process that begins.
Reset ==
  /\ up' = FALSE
  /\ current' = 0 /\ cached' = 0 /\ alarm_set' = FALSE /\ evaluate_id' = None
  /\ dsmestate' = "NOT_SET" /\ wait' = None /\ saving' = "no"

\* module_init(): alarmtracker_alarmtime_load(), alarmtracker_dsmestate_query().
\* The state comes in an answer, STATE_CHANGE_IND.
module_init ==
  /\ ~up
  /\ up' = TRUE
  /\ LET t == IF file = Torn THEN 0 ELSE file IN
     /\ cached' = t /\ current' = t
     /\ IF t # 0 THEN alarmstate_evaluate(t, dsmestate)
                 ELSE UNCHANGED <<alarm_set, evaluate_id>> /\ slept' = FALSE
  /\ unsaved' = FALSE
  /\ UNCHANGED <<dsmestate, wait, saving, file, tmp, encrypted, now, events>>

\* module_fini(): saves, and cancels the timer.
module_fini ==
  /\ up /\ saving = "no" /\ Event
  /\ Reset
  /\ \/ file' = current /\ UNCHANGED unsaved
     \/ file' = file /\ unsaved' = TRUE
  /\ UNCHANGED <<tmp, encrypted, now, slept>>

\* The process dies, in the middle of a save too.
Crash ==
  /\ up /\ Event
  /\ Reset
  /\ UNCHANGED <<file, tmp, encrypted, now, unsaved, slept>>

Left(n) == IF n = None THEN None ELSE n - 1

\* Time passes; what is due comes first.
Tick ==
  /\ now < AlarmMaxTime /\ saving = "no"
  /\ evaluate_id # 0 /\ wait # 0
  /\ now' = now + 1
  /\ evaluate_id' = Left(evaluate_id) /\ wait' = Left(wait)
  /\ UNCHANGED <<up, current, cached, alarm_set, dsmestate, saving, file, tmp, encrypted,
                 unsaved, slept, events>>

\* The device sleeps for a second, or the time is set: the timer stands still.  The
\* WAIT does not ask to be resumed for, so that the WAKEUP may be late.
Sleep ==
  /\ now < AlarmMaxTime /\ saving = "no" /\ Event
  /\ now' = now + 1 /\ slept' = TRUE
  /\ wait' = IF wait = 0 THEN 0 ELSE Left(wait)
  /\ UNCHANGED <<up, current, cached, alarm_set, evaluate_id, dsmestate, saving, file, tmp,
                 encrypted, unsaved>>
-----------------------------------------------------------------------------
Init ==
  /\ up = FALSE /\ current = 0 /\ cached = 0 /\ alarm_set = FALSE /\ evaluate_id = None
  /\ dsmestate = "NOT_SET" /\ wait = None /\ saving = "no"
  /\ file \in AlarmTimes /\ tmp = Torn
  /\ encrypted \in BOOLEAN
  /\ now = 2 /\ unsaved = FALSE /\ slept = FALSE /\ events = 0

Next ==
  \/ \E t \in AlarmTimes : next_bootup_event_cb(t)
  \/ alarmstate_evaluate_cb
  \/ \E s \in {"ACTDEAD", "USER"} : STATE_CHANGE_IND(s)
  \/ WAKEUP \/ save_writes \/ save_renames \/ save_fails
  \/ module_init \/ module_fini \/ Crash \/ Tick \/ Sleep

Spec == Init /\ [][Next]_vars
-----------------------------------------------------------------------------
(***************************************************************************)
(* Properties.                                                             *)
(***************************************************************************)
\* The file always holds a whole alarm time, wherever a save is interrupted: the
\* one dsme knows to be saved or, once it is renamed, the current one.  And it
\* catches up: while it holds another than timed reported last, a WAKEUP is on its
\* way or a save under way, unless a save failed.
AlarmFileWhole ==
  /\ file # Torn
  /\ up => /\ file = cached
           /\ current # cached => (wait # None \/ saving # "no" \/ unsaved)

\* State.c knows of an alarm exactly when it rings or is at most a snooze away, in
\* every state and with every report, restart and re-evaluation, from the second on
\* at which it comes near.  Left out: after a suspend the timer is late.
AlarmAnnounced ==
  (up /\ evaluate_id # 0 /\ ~slept) => alarm_set = AlarmSet(current, dsmestate)
=============================================================================
