------------------------------ MODULE Thermal ------------------------------
(***************************************************************************)
(* Thermal management: the sensors of thermalsensor_generic.c, the thermal *)
(* objects of thermalobject.c that decide when a reading is believed, the  *)
(* thermal manager that polls them and reports the state of the device     *)
(* (thermalmanager.c), and the flag file of thermalflagger.c.              *)
(*                                                                         *)
(* Each object lives on a chain of calls: a wake-up from iphb asks for the *)
(* temperature, the sensor answers from an idle callback, and the answer   *)
(* books the next wake-up.  Time is counted in units of UNIT seconds; a    *)
(* wake-up may come at any time up to the end of its window (that iphb     *)
(* sees to this is the subject of module Iphb; during a transition, from   *)
(* suspend too, else while the device is awake).  What one callback does   *)
(* is one step; operators named after functions take and return the state  *)
(* s = [obj, hw, current_status, prev, flag].                              *)
(***************************************************************************)
EXTENDS Integers, Sequences, FiniteSets, FiniteSetsExt, SequencesExt

CONSTANTS
  Lines,             \* the lines of the configuration files, see Keyword
  FirstRaw,          \* the numbers in the temperature files at first
  Restless,          \* the sensors that change after that
  Raw,               \* the numbers they may then hold
  UNIT,              \* seconds to a unit of time
  POLL_DELAY_TRANSITION_MAXIMUM, \* THERMAL_STATUS_..., seconds
  IGNORE_TEMP_BELOW, IGNORE_TEMP_ABOVE

\* THERMAL_STATUS
LOW == 0
NORMAL == 1
WARNING == 2
ALERT == 3
FATAL == 4
INVALID == 5
Status == LOW .. INVALID

TRANSITION_DELAY == ((POLL_DELAY_TRANSITION_MAXIMUM * 5) \div 2) \div UNIT

NoTemp == -9999  \* INVALID_TEMPERATURE
-----------------------------------------------------------------------------
(***************************************************************************)
(* The configuration, tsg_objects_read_config().  A line has a key and     *)
(* what its arguments say; "File" begins the next file.  The name in a     *)
(* Meta line stands for the sensors it matches                             *)
(* (thermal_object_has_name_like()), match, and is that of a group when it *)
(* is not the full name of any.                                            *)
(***************************************************************************)
NoSensor == "no sensor"
LevelKeys == <<"Low", "Normal", "Warning", "Alert", "Fatal", "Invalid">>

\* thermal_sensor_generic_create()
Unset ==
  [depends_on |-> {}, group |-> FALSE, divisor |-> 0, offs |-> 0, mode |-> FALSE,
   level |-> [i \in Status |-> [mintemp |-> NoTemp, minwait |-> 0, maxwait |-> 0]]]

\* Name: tsg_objects_add_object() finds or adds the sensor that follows.
tsg_objects_add_object(c, name) ==
  IF name \in DOMAIN c.cfg THEN [c EXCEPT !.sensor = name]
  ELSE [sensor |-> name, list |-> Append(c.list, name),
        cfg |-> [o \in DOMAIN c.cfg \cup {name} |-> IF o = name THEN Unset ELSE c.cfg[o]]]

\* The other keywords change the sensor named last.  A unit that is not known
\* leaves the sensor without a function to read it, divisor 0.
Keyword(g, line) ==
  CASE line.key = "Temp" ->
         [g EXCEPT !.depends_on = {}, !.divisor = line.divisor, !.offs = line.offs]
    [] line.key = "Meta" ->
         [g EXCEPT !.depends_on = line.match, !.group = line.group, !.divisor = 1,
                   !.offs = line.offs]
    [] line.key = "Mode" -> [g EXCEPT !.mode = TRUE]
    [] line.key \in ToSet(LevelKeys) ->
         [g EXCEPT !.level[(CHOOSE i \in DOMAIN LevelKeys : LevelKeys[i] = line.key) - 1] =
                     [mintemp |-> line.mintemp, minwait |-> line.minwait,
                      maxwait |-> line.maxwait]]
    [] OTHER -> g

\* A stray line, before any Name of its file, is for nobody.
tsg_objects_read_config(c, line) ==
  CASE line.key = "File" -> [c EXCEPT !.sensor = NoSensor]
    [] line.key = "Name" -> tsg_objects_add_object(c, line.name)
    [] OTHER -> IF c.sensor = NoSensor THEN c
                ELSE [c EXCEPT !.cfg[c.sensor] = Keyword(@, line)]

Parsed == FoldLeft(tsg_objects_read_config,
                   [sensor |-> NoSensor, list |-> <<>>, cfg |-> <<>>], Lines)
Config == Parsed.list
Sensors == Parsed.cfg

Objects == {Config[i] : i \in DOMAIN Config}

\* thermal_sensor_generic_t, what the configuration sets.
SensorType ==
  [depends_on : SUBSET Objects, group : BOOLEAN, divisor : Nat, offs : Int,
   mode : BOOLEAN,
   level : [Status -> [mintemp : Int, minwait : Int, maxwait : Int]]]

\* What the parsers of the arguments make of a line.
Arguments(line) ==
  /\ line.key = "Temp" => line.divisor \in Nat /\ line.offs \in Int
  /\ line.key = "Meta" =>
       line.match \subseteq Objects /\ line.group \in BOOLEAN /\ line.offs \in Int
  /\ line.key \in ToSet(LevelKeys) =>
       {line.mintemp, line.minwait, line.maxwait} \subseteq Int

ASSUME LinesAssumption ==
  /\ Lines \in Seq(ToSet(Lines))
  /\ \A line \in ToSet(Lines) : Arguments(line)

\* Meta sensors are about sensors with a file of their own.
ASSUME ThermalAssumption ==
  /\ \A o \in Objects : \A b \in Sensors[o].depends_on : Sensors[b].depends_on = {}
  /\ Raw \subseteq Int
  /\ FirstRaw \in [Objects -> Int]
  /\ Restless \subseteq Objects
  /\ {UNIT, POLL_DELAY_TRANSITION_MAXIMUM} \subseteq Nat \ {0}
  /\ {IGNORE_TEMP_BELOW, IGNORE_TEMP_ABOVE} \subseteq Int

\* The poll delay while a status changes, and the longest there is, in units.
TransitionPoll == POLL_DELAY_TRANSITION_MAXIMUM \div UNIT
LongestPoll ==
  Max({Sensors[o].level[i].maxwait \div UNIT : o \in Objects, i \in Status}
        \cup {TransitionPoll})

\* The units of time in which an overheated sensor is to be reported: the longest
\* poll delay, the time it takes to believe it, and a last poll.
Patience == LongestPoll + TRANSITION_DELAY + TransitionPoll

VARIABLES
  connected,      \* the D-Bus system bus
  obj,            \* the thermal objects and their sensors, see ObjectType
  hw,             \* the files of the sensors: [raw, state]
  current_status, \* of the device, as it was sent over D-Bus
  prev,           \* the DSM_MSGTYPE_SET_THERMAL_STATUS sent last
  flag            \* /var/lib/dsme/force_shutdown

vars == <<connected, obj, hw, current_status, prev, flag>>

NotChanging == -1
Ages == NotChanging .. TRANSITION_DELAY + 1

\* thermal_object_t, and thermal_sensor_generic_t as far as it changes.  wait is
\* the wake-up asked of iphb and left what is left of its window; seen, hot and
\* dropped are history: the status of the last readings and how long they have
\* agreed, how long the sensor has been overheated, and that a request was
\* forgotten.
ObjectType ==
  [registered : BOOLEAN, pending : BOOLEAN, curr : Status \ {INVALID},
   next : Status \ {INVALID},
   change : Ages, sg_temp : Int, notify_id : BOOLEAN,
   wait : {"none", "transition", "level"}, left : Nat, hot : 0 .. Patience + 1,
   seen : [status : Status, age : 0 .. TRANSITION_DELAY + 1], dropped : BOOLEAN]

\* thermal_object_create(), thermal_sensor_generic_create()
Created ==
  [registered |-> FALSE, pending |-> FALSE, curr |-> NORMAL, next |-> NORMAL,
   change |-> NotChanging, sg_temp |-> NoTemp, notify_id |-> FALSE, wait |-> "none",
   left |-> 0, hot |-> 0, seen |-> [status |-> NORMAL, age |-> 0], dropped |-> FALSE]

IsMeta(o) == Sensors[o].depends_on # {}
-----------------------------------------------------------------------------
(***************************************************************************)
(* thermalsensor_generic.c                                                 *)
(***************************************************************************)
\* thermal_sensor_generic_is_valid(), apart from the access to the files.
thermal_sensor_generic_is_valid(o) ==
  LET level == Sensors[o].level IN
  /\ Sensors[o].divisor # 0
  /\ IsMeta(o) => ~Sensors[o].mode
  /\ \A i \in Status : /\ level[i].mintemp # NoTemp
                       /\ level[i].minwait >= 1 /\ level[i].maxwait >= 5
                       /\ level[i].maxwait >= level[i].minwait
  /\ \A i \in Status \ {LOW} : level[i - 1].mintemp <= level[i].mintemp

\* tsg_util_read_int(): rounds half a unit away from zero.
tsg_util_read_int(raw, divisor) ==
  IF divisor > 1
  THEN IF raw < 0 THEN -((divisor \div 2 - raw) \div divisor)
                  ELSE (raw + divisor \div 2) \div divisor
  ELSE raw

\* The status of a temperature, thermal_sensor_generic_read_sensor().
LevelOf(o, temp) ==
  LET reached == {i \in Status : temp >= Sensors[o].level[i].mintemp}
  IN  IF temp = NoTemp \/ reached = {} THEN INVALID ELSE Max(reached)

\* thermal_sensor_generic_get_status(): the cached status; INVALID is a failure.
SensorStatus(s, o) == LevelOf(o, s.obj[o].sg_temp)

\* Mutant: any LOW wins.
Worst_low(statuses) ==
  IF Min(statuses) < NORMAL THEN Min(statuses) ELSE Max(statuses)

\* FATAL > ALERT > LOW > WARNING > NORMAL
Worst(statuses) ==
  IF Min(statuses) < NORMAL /\ Max(statuses) < ALERT THEN Min(statuses)
                                                     ELSE Max(statuses)

\* thermal_manager_get_sensor_status(): the worst of the sensors that match, and
\* the temperature that goes with it.
thermal_manager_get_sensor_status(s, match) ==
  LET ok == {b \in match : s.obj[b].registered /\ SensorStatus(s, b) # INVALID}
      st == {SensorStatus(s, b) : b \in ok}
      t  == {s.obj[b].sg_temp : b \in ok}
  IN  IF ok = {} THEN NoTemp
      ELSE IF Worst(st) < NORMAL THEN Min(t) ELSE Max(t)

\* thermal_sensor_generic_enable_sensor(): writes to the mode file of the sensor; on
\* says whether that works.
thermal_sensor_generic_enable_sensor(h, on) ==
  IF h.state = "off" /\ on THEN [h EXCEPT !.state = "ok"] ELSE h

\* The temperature that o makes of what was read, and what its file, h, says.
Offset(o, read) == IF read = NoTemp THEN NoTemp ELSE read + Sensors[o].offs
FileTemp(h, o) ==
  IF h.state = "ok" THEN Offset(o, tsg_util_read_int(h.raw, Sensors[o].divisor))
  ELSE NoTemp

\* thermal_sensor_generic_read_sensor(): from the file, or from the sensors a
\* meta sensor depends on.  Somebody may have turned the sensor off: it is turned
\* on and read again.
thermal_sensor_generic_read_sensor(s, o, on) ==
  LET ReadFile(h) == [s EXCEPT !.hw[o] = h, !.obj[o].sg_temp = FileTemp(h, o)]
  IN  IF IsMeta(o)
      THEN [s EXCEPT !.obj[o].sg_temp =
              Offset(o, thermal_manager_get_sensor_status(s, Sensors[o].depends_on))]
      ELSE ReadFile(thermal_sensor_generic_enable_sensor(s.hw[o], on))

\* thermal_sensor_generic_read_sensor_cb(): the answer comes from an idle
\* callback; a failure, an object without a temperature, is seen at once.
thermal_sensor_generic_read_sensor_cb(s, o, on) ==
  LET Answer(r) == [r EXCEPT !.obj[o].notify_id = @ \/ r.obj[o].sg_temp # NoTemp]
  IN  Answer(thermal_sensor_generic_read_sensor(s, o, on))
-----------------------------------------------------------------------------
(***************************************************************************)
(* thermalmanager.c                                                        *)
(***************************************************************************)
\* thermal_sensor_generic_get_poll_delay(): the longest wait of the configuration.
thermal_sensor_generic_get_poll_delay(s, o) ==
  Sensors[o].level[SensorStatus(s, o)].maxwait

\* Mutant: a change of status is not followed more closely.
schedule_object_poll_level(s, o) ==
  [s EXCEPT !.obj[o].wait = "level",
            !.obj[o].left = thermal_sensor_generic_get_poll_delay(s, o) \div UNIT]

\* thermal_manager_schedule_object_poll(): every few seconds, and out of suspend,
\* while the status changes, else as the configuration has it for the status.
thermal_manager_schedule_object_poll(s, o) ==
  LET changing == s.obj[o].change # NotChanging
      maxtime  == IF changing THEN POLL_DELAY_TRANSITION_MAXIMUM
                  ELSE thermal_sensor_generic_get_poll_delay(s, o)
  IN  [s EXCEPT !.obj[o].wait = IF changing THEN "transition" ELSE "level",
                !.obj[o].left = maxtime \div UNIT]

\* thermal_manager_broadcast_status_dsme(), with thermalflagger's handler of what
\* it sends.
thermal_manager_broadcast_status_dsme(s) ==
  LET curr == CASE s.current_status = LOW   -> "LOWTEMP"
                [] s.current_status = FATAL -> "OVERHEATED"
                [] OTHER                    -> "NORMAL"
  IN  [s EXCEPT !.prev = curr, !.flag = @ \/ (curr # s.prev /\ curr = "OVERHEATED")]

\* thermal_manager_broadcast_status(), and the part of
\* thermal_manager_handle_object_update() that finds the overall status.
thermal_manager_broadcast_status(s) ==
  LET st == {NORMAL} \cup {s.obj[o].curr : o \in {p \in Objects : s.obj[p].registered}}
  IN  thermal_manager_broadcast_status_dsme(
        [s EXCEPT !.current_status = Worst(st \ {INVALID})])

\* thermal_manager_handle_object_update()
thermal_manager_handle_object_update(s, o) ==
  IF s.obj[o].registered
  THEN thermal_manager_schedule_object_poll(thermal_manager_broadcast_status(s), o)
  ELSE s

\* thermal_manager_have_pending_sensor_update()
thermal_manager_have_pending_sensor_update(s, m) ==
  \E b \in Sensors[m].depends_on :
     Sensors[m].group /\ s.obj[b].registered /\ s.obj[b].pending

\* thermal_manager_handle_sensor_update(): has the meta sensors that wait for o
\* evaluated; one that fails is no longer waiting (thermal_object_cancel_update()).
thermal_manager_handle_sensor_update(s, o) ==
  LET todo == {m \in Objects : /\ s.obj[m].registered /\ s.obj[m].pending
                               /\ o \in Sensors[m].depends_on
                               /\ ~thermal_manager_have_pending_sensor_update(s, m)}
      Evaluated(ob) == IF ob.sg_temp # NoTemp THEN ob
                       ELSE [ob EXCEPT !.pending = FALSE, !.dropped = TRUE]
  IN  [s EXCEPT !.obj = [m \in Objects |->
         IF m \in todo
         THEN Evaluated(thermal_sensor_generic_read_sensor_cb(s, m, TRUE).obj[m])
         ELSE @[m]]]
-----------------------------------------------------------------------------
(***************************************************************************)
(* thermalobject.c                                                         *)
(***************************************************************************)
\* Mutant: another status than the one before goes on with its time.
believe_running(ob, status) ==
  IF status = ob.curr THEN [ob EXCEPT !.next = status, !.change = NotChanging]
  ELSE IF ob.change = NotChanging THEN [ob EXCEPT !.next = status, !.change = 0]
  ELSE IF ob.change <= TRANSITION_DELAY THEN [ob EXCEPT !.next = status]
  ELSE [ob EXCEPT !.curr = status, !.next = status, !.change = NotChanging]

\* thermal_object_handle_update(), the second half: a new status is taken over
\* when it has been there for more than TRANSITION_DELAY.
Believe(ob, status) ==
  IF status = ob.curr THEN [ob EXCEPT !.next = status, !.change = NotChanging]
  ELSE IF ob.next # status THEN [ob EXCEPT !.next = status, !.change = 0]
  ELSE IF ob.change <= TRANSITION_DELAY THEN ob
  ELSE [ob EXCEPT !.curr = status, !.next = status, !.change = NotChanging]

\* History: the readings that count, and since when they agree.
Note(ob, status) ==
  [ob EXCEPT !.seen = IF ob.seen.status = status THEN @ ELSE [status |-> status, age |-> 0]]

\* thermal_object_handle_update()
thermal_object_handle_update(s, o) ==
  LET ob     == [s.obj[o] EXCEPT !.pending = FALSE]
      status == SensorStatus(s, o)
      good   == /\ status # INVALID
                /\ ob.sg_temp \in IGNORE_TEMP_BELOW .. IGNORE_TEMP_ABOVE
      s1     == [s EXCEPT !.obj[o] = IF good THEN Believe(Note(ob, status), status) ELSE ob]
  IN  IF ~s.obj[o].pending THEN s
      ELSE thermal_manager_handle_sensor_update(
             thermal_manager_handle_object_update(s1, o), o)

\* thermal_object_request_update() of a sensor with a file.
RequestSensor(s, o, on) ==
  LET Asked(r) == IF r.obj[o].sg_temp # NoTemp THEN r
                  ELSE thermal_object_handle_update(r, o)
  IN  IF s.obj[o].pending THEN s
      ELSE Asked(thermal_sensor_generic_read_sensor_cb(
                   [s EXCEPT !.obj[o].pending = TRUE], o, on))

\* thermal_manager_request_sensor_update(): the first sensor that matches.
FirstMatch(s, m) ==
  LET hits == {i \in DOMAIN Config : /\ Config[i] \in Sensors[m].depends_on
                                     /\ s.obj[Config[i]].registered}
  IN  IF hits = {} THEN {} ELSE {Config[Min(hits)]}

\* Mutant: a request that cannot be made is not answered.
request_update_silent(s, o, on) ==
  LET s1 == [s EXCEPT !.obj[o].pending = TRUE]
  IN  IF s.obj[o].pending THEN s
      ELSE IF IsMeta(o) THEN RequestSensor(s1, CHOOSE b \in FirstMatch(s, o) : TRUE, on)
      ELSE thermal_sensor_generic_read_sensor_cb(s1, o, on)

\* thermal_object_request_update()
thermal_object_request_update(s, o, on) ==
  LET s1 == [s EXCEPT !.obj[o].pending = TRUE] IN
  IF ~IsMeta(o) THEN RequestSensor(s, o, on)
  ELSE IF s.obj[o].pending THEN s
  ELSE IF FirstMatch(s, o) = {} THEN thermal_object_handle_update(s1, o)
  ELSE RequestSensor(s1, CHOOSE b \in FirstMatch(s, o) : TRUE, on)
-----------------------------------------------------------------------------
(***************************************************************************)
(* The steps.                                                              *)
(***************************************************************************)
S == [obj |-> obj, hw |-> hw, current_status |-> current_status, prev |-> prev,
      flag |-> flag]

\* Time stands still for an age nobody asks for.
Become(next) ==
  \E s \in {next} :
    /\ obj' = [o \in Objects |->
                 IF s.obj[o].seen.status = s.obj[o].curr
                 THEN [s.obj[o] EXCEPT !.seen.age = 0] ELSE s.obj[o]]
    /\ hw' = s.hw
    /\ current_status' = s.current_status
    /\ prev' = s.prev
    /\ flag' = s.flag

\* DSM_MSGTYPE_WAKEUP: iphb ends the wait it was asked for.
WAKEUP(o, on) ==
  /\ obj[o].wait # "none"
  /\ Become(thermal_object_request_update(
             [S EXCEPT !.obj[o].wait = "none", !.obj[o].left = 0], o, on))
  /\ UNCHANGED connected

\* thermal_sensor_generic_sensor_notify_cb()
thermal_sensor_generic_sensor_notify_cb(o) ==
  /\ obj[o].notify_id
  /\ Become(thermal_object_handle_update([S EXCEPT !.obj[o].notify_id = FALSE], o))
  /\ UNCHANGED connected

\* One object of tsg_objects_register_all(): enabled, read, registered, and the
\* first request; or deleted.
Register(s, o, usable) ==
  LET Read(r) == IF r.obj[o].sg_temp = NoTemp THEN [s EXCEPT !.obj[o] = Created]
                 ELSE thermal_object_request_update(
                        [r EXCEPT !.obj[o].registered = TRUE], o, TRUE)
  IN  IF thermal_sensor_generic_is_valid(o) /\ o \in usable
      THEN Read(thermal_sensor_generic_read_sensor(s, o, TRUE))
      ELSE [s EXCEPT !.obj[o] = Created]

\* tsg_objects_register_all(), object by object.
RegisterAll(s, usable) ==
  LET reg[i \in 0 .. Len(Config)] ==
        IF i = 0 THEN s ELSE Register(reg[i - 1], Config[i], usable)
  IN  reg[Len(Config)]

\* DSM_MSGTYPE_DBUS_CONNECTED: tsg_objects_init().
DBUS_CONNECTED(usable) ==
  /\ ~connected
  /\ connected' = TRUE
  /\ Become(RegisterAll([S EXCEPT !.obj = [o \in Objects |-> Created]], usable))

\* DSM_MSGTYPE_DBUS_DISCONNECT: tsg_objects_quit(); a wake-up still to come is for
\* nobody.
DBUS_DISCONNECT ==
  /\ connected
  /\ connected' = FALSE
  /\ Become([S EXCEPT !.obj = [o \in Objects |-> Created]])

Older(age) == IF age \in 0 .. TRANSITION_DELAY THEN age + 1 ELSE age

\* Environment: a temperature changes; a sensor breaks, is repaired or is turned
\* off by another process.
Hardware(o, h) ==
  /\ ~IsMeta(o) /\ h # hw[o]
  /\ h.state = "broken" => h.raw = Min(Raw)
  /\ h.state = "off" => Sensors[o].mode
  /\ hw' = [hw EXCEPT ![o] = h]
  /\ obj' = [obj EXCEPT ![o].hot = 0]
  /\ UNCHANGED <<connected, current_status, prev, flag>>

\* A sensor whose file says so is overheated; the code believes no temperature out
\* of bounds, whatever the configuration makes of it.
FatalTemp(o, temp) ==
  LevelOf(o, temp) = FATAL /\ temp \in IGNORE_TEMP_BELOW .. IGNORE_TEMP_ABOVE
Hot(o) == ~IsMeta(o) /\ FatalTemp(o, FileTemp(hw[o], o))

\* Environment: time passes; a callback that is ready to run comes first, and so
\* does a wake-up at the end of its window.
Tick ==
  /\ \A o \in Objects : /\ ~obj[o].notify_id
                        /\ obj[o].wait # "none" => obj[o].left > 0
  /\ obj' = [o \in Objects |->
       [obj[o] EXCEPT !.change = Older(@),
          !.left = IF obj[o].wait # "none" THEN @ - 1 ELSE @,
          !.hot = IF Hot(o) /\ obj[o].registered
                  THEN IF @ > Patience THEN @ ELSE @ + 1 ELSE 0,
          !.seen.age = IF obj[o].seen.status = obj[o].curr THEN 0 ELSE Older(@)]]
  /\ UNCHANGED <<connected, hw, current_status, prev, flag>>

Init ==
  /\ connected = FALSE
  /\ obj = [o \in Objects |-> Created]
  /\ hw = [o \in Objects |-> [raw |-> FirstRaw[o], state |-> "ok"]]
  /\ current_status = NORMAL /\ prev = "NORMAL"
  /\ flag = FALSE \* thermalflagger's module_init() removes the file

Hw == [raw : Raw, state : {"ok", "off", "broken"}]

Next ==
  \/ \E o \in Objects, on \in BOOLEAN : WAKEUP(o, on)
  \/ \E o \in Objects : thermal_sensor_generic_sensor_notify_cb(o)
  \/ \E usable \in SUBSET Objects : DBUS_CONNECTED(usable)
  \/ DBUS_DISCONNECT
  \/ \E o \in Restless, h \in Hw : Hardware(o, h)
  \/ Tick

Spec == Init /\ [][Next]_vars
-----------------------------------------------------------------------------
(***************************************************************************)
(* Properties.                                                             *)
(***************************************************************************)
TypeOK ==
  /\ connected \in BOOLEAN
  /\ obj \in [Objects -> ObjectType]
  /\ hw \in [Objects -> [raw : Int, state : {"ok", "off", "broken"}]]
  /\ current_status \in Status \ {INVALID}
  /\ prev \in {"LOWTEMP", "NORMAL", "OVERHEATED"}
  /\ flag \in BOOLEAN

\* A reading of the object, or of one it depends on, is on its way.
Underway(o) == \/ obj[o].notify_id /\ obj[o].pending
               \/ /\ obj[o].pending
                  /\ \E b \in Sensors[o].depends_on : obj[b].notify_id /\ obj[b].pending

\* thermalobject.c, thermal_object_request_update(): an object is never
\* forgotten; while it is registered, a reading is on its way or a wake-up is
\* booked, unless thermal_manager_handle_sensor_update() has cancelled it.
PollAlive ==
  \A o \in Objects : obj[o].registered =>
    obj[o].wait # "none" \/ Underway(o) \/ obj[o].dropped

\* thermalobject.c, thermal_object_handle_update() "make sure it is not a
\* glitch": a status is taken over only when all readings for longer than
\* TRANSITION_DELAY have shown it.
NoGlitch ==
  [][\A o \in Objects :
       obj[o].registered /\ obj'[o].registered /\ obj'[o].curr # obj[o].curr =>
         /\ obj[o].seen.status = obj'[o].curr
         /\ obj[o].seen.age > TRANSITION_DELAY]_vars

\* thermalmanager.c: what dsme and D-Bus have been told is the worst that the
\* objects say, however many of them change: an overheated object is always
\* reported, and the flag file is there; the report ends only when no object is
\* overheated.
ReportIsWorst ==
  LET fatal == {o \in Objects : obj[o].registered /\ obj[o].curr = FATAL}
      fresh == {o \in Objects : obj[o].registered /\ obj[o].pending}
  IN  /\ fatal # {} => prev = "OVERHEATED" /\ flag /\ current_status = FATAL
      /\ fatal = {} /\ fresh = {} /\ (\E o \in Objects : obj[o].registered)
           => prev # "OVERHEATED"

\* The thermal policy, and THERMAL_STATUS_TRANSITION_DELAY: while dsme watches it,
\* a sensor that stays fatally hot is reported to the rest of dsme within
\* Patience of an awake device: outside a transition the WAIT of
\* thermal_manager_schedule_object_poll() does not ask to be resumed for.
OverheatReported ==
  \A o \in Objects : obj[o].hot > Patience => prev = "OVERHEATED"
=============================================================================
