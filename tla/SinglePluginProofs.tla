------------------------- MODULE SinglePluginProofs -------------------------
(***************************************************************************)
(* The smaller plug-ins, for any alarm times and plug-ins and without a    *)
(* bound on what happens: the alarm file is whole and catches up, an alarm *)
(* that comes near is announced, time and power-up alarm survive restarts, *)
(* a mount is tracked, and the bus is in step with what is bound over      *)
(* every connection.                                                       *)
(***************************************************************************)
EXTENDS SinglePlugin, SequenceTheorems, TLAPS

(***************************************************************************)
(* The alarm tracker.                                                      *)
(***************************************************************************)
Times == AlarmTimes \union {0}

AlarmTypes ==
  /\ {file, current, cached} \subseteq Times
  /\ now \in Int
  /\ wait \in Nat \union {Alarm!None}
  /\ evaluate_id \in Nat \union {Alarm!None}
  /\ saving \in {"no", "opened", "written"}

\* What alarmtime_save() has done so far, and what is left of it.
SaveOK ==
  /\ saving # "no" => up
  /\ saving = "written" => tmp = current
  /\ up => /\ file = cached
           /\ current # cached => (wait # Alarm!None \/ saving # "no" \/ unsaved)

\* No alarm is looked out for.
Unwatched == current \in {0, 1} \/ (dsmestate = "ACTDEAD" /\ encrypted)

\* What is announced, and the timer that keeps it true: while an alarm is to come,
\* it runs out exactly when that comes within a snooze.
Announced ==
  \/ /\ alarm_set = TRUE /\ Alarm!AlarmSet(current, dsmestate)
     /\ evaluate_id = Alarm!None
  \/ /\ alarm_set = FALSE
     /\ evaluate_id # 0 => ~Alarm!AlarmSet(current, dsmestate)
     /\ IF Unwatched THEN evaluate_id = Alarm!None
        ELSE /\ evaluate_id # Alarm!None
             /\ current > 0 => current - now = evaluate_id + SnoozeTimeout

\* It is so from module_init() on, and the statics are reset before that.
AnnounceOK ==
  /\ ~up => (alarm_set = FALSE /\ evaluate_id = Alarm!None /\ current = 0 /\ saving = "no")
  /\ (up /\ ~slept) => Announced

AlarmInv == AlarmTypes /\ SaveOK /\ AnnounceOK

\* Times are numbers, and none is Torn.
LEMMA TimesAreInts ==
  Times \subseteq Int /\ Alarm!Torn \notin Times /\ SnoozeTimeout \in Nat /\ SaveWindow \in Nat
BY AlarmAssumption DEF Times, Alarm!Torn

\* An evaluation leaves the announcement right and the timer set for its end.
LEMMA EvaluateAnnounces ==
  ASSUME NEW t \in Times, NEW s, now \in Int,
         Alarm!alarmstate_evaluate(t, s),
         current' = t, dsmestate' = s, UNCHANGED <<now, encrypted>>
  PROVE  Announced' /\ evaluate_id' \in Nat \union {Alarm!None}
<1> DEFINE in == Alarm!alarmtime_in(t)
           set == Alarm!AlarmSet(t, s)
<1>1. /\ t \in Int /\ SnoozeTimeout \in Nat
      /\ t <= 0 => in = 9999
      /\ t > 0 => (t <= now => in = 0) /\ (t > now => in = t - now)
      /\ in \in Nat
  BY TimesAreInts DEF Alarm!alarmtime_in, Alarm!FarAway
<1>2. set <=> ~(s = "ACTDEAD" /\ encrypted) /\ t # 0 /\ (t = 1 \/ in <= SnoozeTimeout)
  BY DEF Alarm!AlarmSet
<1>3. Alarm!AlarmSet(current, dsmestate)' <=> set
  BY DEF Alarm!AlarmSet, Alarm!alarmtime_in
<1>4. Unwatched' <=> (t \in {0, 1} \/ (s = "ACTDEAD" /\ encrypted))
  BY DEF Unwatched
<1>5. /\ alarm_set' = set
      /\ evaluate_id' = IF set \/ t \in {0, 1} \/ (s = "ACTDEAD" /\ encrypted)
                        THEN Alarm!None ELSE in - SnoozeTimeout
  BY DEF Alarm!alarmstate_evaluate
<1> HIDE DEF in, set
<1>6. CASE set
  <2>1. alarm_set' = TRUE /\ evaluate_id' = Alarm!None
    BY <1>5, <1>6, Zenon
  <2> QED
    BY <1>3, <1>6, <2>1 DEF Announced
<1>7. CASE ~set
  <2>1. alarm_set' = FALSE
    BY <1>5, <1>7, <1>2
  <2>2. CASE t \in {0, 1} \/ (s = "ACTDEAD" /\ encrypted)
    <3>1. evaluate_id' = Alarm!None
      BY <1>5, <2>2
    <3> QED
      BY <1>3, <1>4, <1>7, <2>1, <2>2, <3>1 DEF Announced
  <2>3. CASE ~(t \in {0, 1} \/ (s = "ACTDEAD" /\ encrypted))
    <3>1. evaluate_id' = in - SnoozeTimeout
      BY <1>5, <1>7, <2>3
    <3>2. in > SnoozeTimeout
      BY <1>1, <1>2, <1>7, <2>3
    <3>3. /\ evaluate_id' \in Nat /\ evaluate_id' # Alarm!None
          /\ t > 0 => t - now = evaluate_id' + SnoozeTimeout
      BY <1>1, <3>1, <3>2 DEF Alarm!None
    <3> QED
      BY <1>3, <1>4, <1>7, <2>1, <2>3, <3>3 DEF Announced
  <2> QED
    BY <2>2, <2>3
<1> QED
  BY <1>6, <1>7

\* A step that touches none of these keeps the announcement.
LEMMA AnnouncedStays ==
  ASSUME UNCHANGED <<current, alarm_set, evaluate_id, dsmestate, encrypted, now>>
  PROVE  Announced' <=> Announced
BY DEF Announced, Unwatched, Alarm!AlarmSet, Alarm!alarmtime_in

\* Reports, timers and state changes evaluate anew, or change nothing.
LEMMA EvaluationsKeepAlarm ==
  ASSUME AlarmInv,
         \/ \E t \in AlarmTimes : Alarm!next_bootup_event_cb(t)
         \/ Alarm!alarmstate_evaluate_cb
         \/ \E s \in {"ACTDEAD", "USER"} : Alarm!STATE_CHANGE_IND(s)
  PROVE  AlarmInv'
<1> USE DEF AlarmInv
<1>1. ASSUME NEW t \in AlarmTimes, Alarm!next_bootup_event_cb(t)
      PROVE  AlarmInv'
  <2>1. /\ up /\ saving = "no" /\ current' = t /\ t \in Times
        /\ UNCHANGED <<up, cached, dsmestate, saving, file, tmp, encrypted, now>>
        /\ wait' = IF t # cached THEN SaveWindow ELSE wait
    BY <1>1 DEF Alarm!next_bootup_event_cb, Alarm!alarmtime_update, Times
  <2>2. /\ ~slept' => Announced'
        /\ evaluate_id' \in Nat \union {Alarm!None}
    <3>1. CASE t # current
      <4>1. Alarm!alarmstate_evaluate(t, dsmestate)
        BY <1>1, <3>1 DEF Alarm!next_bootup_event_cb, Alarm!alarmtime_update
      <4> QED
        BY <2>1, <4>1, EvaluateAnnounces DEF AlarmTypes
    <3>2. CASE t = current
      <4>1. UNCHANGED <<alarm_set, evaluate_id, slept>>
        BY <1>1, <3>2 DEF Alarm!next_bootup_event_cb, Alarm!alarmtime_update
      <4> QED
        BY <2>1, <3>2, <4>1, AnnouncedStays DEF AlarmTypes, AnnounceOK
    <3> QED
      BY <3>1, <3>2
  <2>3. AlarmTypes'
    BY <2>1, <2>2, TimesAreInts DEF AlarmTypes
  <2>4. SaveOK'
    BY <2>1, TimesAreInts DEF SaveOK, Alarm!None
  <2> QED
    BY <2>1, <2>2, <2>3, <2>4 DEF AnnounceOK
<1>2. ASSUME Alarm!alarmstate_evaluate_cb
      PROVE  AlarmInv'
  <2>1. /\ up /\ saving = "no" /\ Alarm!alarmstate_evaluate(current, dsmestate)
        /\ UNCHANGED <<up, current, cached, dsmestate, wait, saving, file, tmp, encrypted,
                       now, unsaved>>
    BY <1>2 DEF Alarm!alarmstate_evaluate_cb
  <2>2. Announced' /\ evaluate_id' \in Nat \union {Alarm!None}
    BY <2>1, EvaluateAnnounces DEF AlarmTypes
  <2> QED
    BY <2>1, <2>2 DEF AlarmTypes, SaveOK, AnnounceOK
<1>3. ASSUME NEW s \in {"ACTDEAD", "USER"}, Alarm!STATE_CHANGE_IND(s)
      PROVE  AlarmInv'
  <2>1. /\ up /\ saving = "no" /\ dsmestate' = s /\ Alarm!alarmstate_evaluate(current, s)
        /\ UNCHANGED <<up, current, cached, wait, saving, file, tmp, encrypted, now,
                       unsaved>>
    BY <1>3 DEF Alarm!STATE_CHANGE_IND
  <2>2. Announced' /\ evaluate_id' \in Nat \union {Alarm!None}
    BY <2>1, EvaluateAnnounces DEF AlarmTypes
  <2> QED
    BY <2>1, <2>2 DEF AlarmTypes, SaveOK, AnnounceOK
<1> QED
  BY <1>1, <1>2, <1>3

\* Every call of alarmtime_save(), wherever it fails.
LEMMA SaveKeepsAlarm ==
  ASSUME AlarmInv,
         Alarm!WAKEUP \/ Alarm!save_writes \/ Alarm!save_renames \/ Alarm!save_fails
  PROVE  AlarmInv'
<1> USE DEF AlarmInv
<1>1. /\ UNCHANGED <<up, current, alarm_set, evaluate_id, dsmestate, encrypted, now, slept>>
      /\ saving # "no" => up
      /\ up
  BY DEF Alarm!WAKEUP, Alarm!save_writes, Alarm!save_renames, Alarm!save_fails, Alarm!Saved,
         SaveOK
<1>2. AnnounceOK'
  BY <1>1, AnnouncedStays DEF AnnounceOK
<1>3. CASE Alarm!WAKEUP
  BY <1>1, <1>2, <1>3 DEF Alarm!WAKEUP, Alarm!save_opens, AlarmTypes, SaveOK
<1>4. CASE Alarm!save_writes
  BY <1>1, <1>2, <1>4 DEF Alarm!save_writes, AlarmTypes, SaveOK
<1>5. CASE Alarm!save_renames
  BY <1>1, <1>2, <1>5 DEF Alarm!save_renames, AlarmTypes, SaveOK
<1>6. CASE Alarm!save_fails
  <2>1. unsaved' = TRUE /\ saving' = "no" /\ UNCHANGED <<cached, wait, file, tmp>>
    BY <1>6 DEF Alarm!save_fails
  <2> QED
    BY <1>1, <1>2, <2>1 DEF AlarmTypes, SaveOK
<1> QED
  BY <1>3, <1>4, <1>5, <1>6

\* Starts, ends and crashes of dsme, in the middle of a save too.
LEMMA RestartsKeepAlarm ==
  ASSUME AlarmInv, Alarm!module_init \/ Alarm!module_fini \/ Alarm!Crash
  PROVE  AlarmInv'
<1> USE DEF AlarmInv
<1>1. CASE Alarm!module_init
  <2>1. /\ ~up /\ up' = TRUE /\ current' = file /\ cached' = file
        /\ UNCHANGED <<dsmestate, wait, saving, file, tmp, encrypted, now>>
        /\ saving = "no" /\ file \in Times
        /\ IF file # 0 THEN Alarm!alarmstate_evaluate(file, dsmestate)
           ELSE UNCHANGED <<alarm_set, evaluate_id>>
    BY <1>1, TimesAreInts DEF Alarm!module_init, AlarmTypes, AnnounceOK
  <2>2. Announced' /\ evaluate_id' \in Nat \union {Alarm!None}
    <3>1. CASE file # 0
      BY <2>1, <3>1, EvaluateAnnounces DEF AlarmTypes
    <3>2. CASE file = 0
      BY <2>1, <3>2 DEF Announced, Unwatched, AnnounceOK, Alarm!AlarmSet
    <3> QED
      BY <3>1, <3>2
  <2> QED
    BY <2>1, <2>2 DEF AlarmTypes, SaveOK, AnnounceOK
<1>2. CASE Alarm!module_fini \/ Alarm!Crash
  <2>1. /\ up' = FALSE /\ alarm_set' = FALSE
        /\ current' = 0 /\ cached' = 0 /\ evaluate_id' = Alarm!None
        /\ wait' = Alarm!None /\ saving' = "no" /\ now' = now
        /\ file' \in {file, current}
    BY <1>2 DEF Alarm!module_fini, Alarm!Crash, Alarm!Reset
  <2> QED
    BY <2>1 DEF AlarmTypes, SaveOK, AnnounceOK, Times
<1> QED
  BY <1>1, <1>2

\* Time passes: an alarm comes within a snooze in the second its timer runs out.
LEMMA TimeKeepsAlarm ==
  ASSUME AlarmInv, Alarm!Tick \/ Alarm!Sleep
  PROVE  AlarmInv'
<1> USE DEF AlarmInv
<1>1. /\ UNCHANGED <<up, current, cached, alarm_set, dsmestate, saving, file, tmp, encrypted,
                     unsaved>>
      /\ now' = now + 1 /\ now' \in Int
      /\ wait' = (IF wait = 0 THEN 0 ELSE Alarm!Left(wait))
  BY DEF Alarm!Tick, Alarm!Sleep, AlarmTypes
<1>2. /\ wait' \in Nat \union {Alarm!None}
      /\ wait # Alarm!None => wait' # Alarm!None
  BY <1>1 DEF AlarmTypes, Alarm!Left, Alarm!None
<1>3. SaveOK'
  BY <1>1, <1>2 DEF SaveOK
<1>4. CASE Alarm!Sleep
  <2>1. slept' = TRUE /\ evaluate_id' = evaluate_id
    BY <1>4 DEF Alarm!Sleep
  <2> QED
    BY <1>1, <1>2, <1>3, <2>1 DEF AlarmTypes, AnnounceOK
<1>5. CASE Alarm!Tick
  <2>1. slept' = slept /\ evaluate_id # 0 /\ evaluate_id' = Alarm!Left(evaluate_id)
    BY <1>5 DEF Alarm!Tick
  <2>2. /\ evaluate_id' \in Nat \union {Alarm!None}
        /\ evaluate_id = Alarm!None => evaluate_id' = Alarm!None
        /\ evaluate_id # Alarm!None => /\ evaluate_id' # Alarm!None
                                       /\ evaluate_id' = evaluate_id - 1
    BY <2>1 DEF AlarmTypes, Alarm!Left, Alarm!None
  <2>3. AlarmTypes'
    BY <1>1, <1>2, <2>2 DEF AlarmTypes
  <2>4. ASSUME Announced
        PROVE  Announced'
    <3>1. current \in Int /\ now \in Int /\ SnoozeTimeout \in Nat
      BY TimesAreInts DEF AlarmTypes
    <3>2. Unwatched' <=> Unwatched
      BY <1>1 DEF Unwatched
    <3>3. CASE Alarm!AlarmSet(current, dsmestate)
      <4>1. Alarm!AlarmSet(current, dsmestate)'
        BY <1>1, <3>1, <3>3 DEF Alarm!AlarmSet, Alarm!alarmtime_in, Alarm!FarAway
      <4>2. alarm_set = TRUE /\ evaluate_id = Alarm!None
        BY <2>1, <2>4, <3>3 DEF Announced
      <4> QED
        BY <1>1, <2>2, <4>1, <4>2 DEF Announced
    <3>4. CASE ~Alarm!AlarmSet(current, dsmestate)
      <4>1. /\ alarm_set = FALSE
            /\ IF Unwatched THEN evaluate_id = Alarm!None
               ELSE /\ evaluate_id # Alarm!None
                    /\ current > 0 => current - now = evaluate_id + SnoozeTimeout
        BY <2>4, <3>4 DEF Announced
      <4>2. CASE Unwatched
        <5>1. ~Alarm!AlarmSet(current, dsmestate)'
          BY <1>1, <3>4, <4>2 DEF Alarm!AlarmSet, Unwatched
        <5> QED
          BY <1>1, <2>2, <3>2, <4>1, <4>2, <5>1 DEF Announced
      <4>3. CASE ~Unwatched
        <5>1. evaluate_id \in Nat /\ evaluate_id' = evaluate_id - 1
              /\ evaluate_id' # Alarm!None /\ evaluate_id' \in Nat
          BY <2>2, <4>1, <4>3 DEF AlarmTypes
        <5>2. current > 0 => current - now' = evaluate_id' + SnoozeTimeout
          BY <1>1, <3>1, <4>1, <4>3, <5>1
        <5>3. ASSUME evaluate_id' # 0
              PROVE  ~Alarm!AlarmSet(current, dsmestate)'
          <6>1. CASE current > 0
            <7>1. current - now' > SnoozeTimeout /\ now' \in Int /\ ~(current <= now')
              BY <1>1, <3>1, <5>1, <5>2, <5>3, <6>1
            <7> QED
              BY <1>1, <3>1, <4>3, <6>1, <7>1
              DEF Alarm!AlarmSet, Alarm!alarmtime_in, Unwatched
          <6>2. CASE current <= 0
            BY <1>1, <3>1, <3>4, <6>2 DEF Alarm!AlarmSet, Alarm!alarmtime_in
          <6> QED
            BY <3>1, <6>1, <6>2
        <5> QED
          BY <1>1, <3>2, <4>1, <4>3, <5>1, <5>2, <5>3 DEF Announced
      <4> QED
        BY <4>2, <4>3
    <3> QED
      BY <3>3, <3>4
  <2>5. AnnounceOK'
    BY <1>1, <2>1, <2>2, <2>4 DEF AnnounceOK
  <2> QED
    BY <1>3, <2>3, <2>5
<1> QED
  BY <1>4, <1>5

\* The alarm tracker keeps its invariant.
LEMMA AlarmKeepsInv ==
  ASSUME AlarmInv, Alarm!Next
  PROVE  AlarmInv'
<1>1. CASE \/ \E t \in AlarmTimes : Alarm!next_bootup_event_cb(t)
           \/ Alarm!alarmstate_evaluate_cb
           \/ \E s \in {"ACTDEAD", "USER"} : Alarm!STATE_CHANGE_IND(s)
  BY <1>1, EvaluationsKeepAlarm
<1>2. CASE Alarm!WAKEUP \/ Alarm!save_writes \/ Alarm!save_renames \/ Alarm!save_fails
  BY <1>2, SaveKeepsAlarm
<1>3. CASE Alarm!module_init \/ Alarm!module_fini \/ Alarm!Crash
  BY <1>3, RestartsKeepAlarm
<1>4. CASE Alarm!Tick \/ Alarm!Sleep
  BY <1>4, TimeKeepsAlarm
<1> QED
  BY <1>1, <1>2, <1>3, <1>4 DEF Alarm!Next

(***************************************************************************)
(* The bus.                                                                *)
(***************************************************************************)
BusTypes ==
  /\ service \in [se_requested : BOOLEAN, se_acquired : BOOLEAN]
  /\ conn \in {"none", "open", "closed"}

\* What the manager has is what the plug-ins bound.
BoundOK ==
  /\ handlers = members
  /\ handlers \subseteq bound /\ bound \subseteq loaded
  /\ manager = "enabled" => handlers = bound
  /\ manager # "enabled" => handlers = {} /\ conn = "none"
  /\ manager = "none" => bound = {}

\* What the manager believes of the bus, and what the bus has: both are forgotten
\* between connections.
MatchesOK ==
  /\ matches \subseteq handlers
  /\ conn = "open" => matches = handlers /\ rules = handlers
  /\ conn # "open" => rules = {}
  /\ conn = "none" => matches = {}

NameOK ==
  /\ conn = "open" => name = service.se_acquired
  /\ conn = "open" => (service.se_requested <=> members # {})
  /\ conn # "open" => name = FALSE
  /\ conn = "none" => service = Dbus!Unowned
  /\ members = {} => service = Dbus!Unowned

BusInv == BusTypes /\ BoundOK /\ MatchesOK /\ NameOK

\* A name that is asked for is ours, or somebody else's.
LEMMA AcquireAsks ==
  ASSUME Dbus!service_acquire_name("open"), service = Dbus!Unowned, name = FALSE
  PROVE  /\ service' \in [se_requested : BOOLEAN, se_acquired : BOOLEAN]
         /\ service'.se_requested
         /\ name' = service'.se_acquired
<1>1. ~service.se_requested
  BY DEF Dbus!Unowned
<1>2. CASE service' = [se_requested |-> TRUE, se_acquired |-> TRUE] /\ name' = TRUE
  <2>1. service'.se_requested = TRUE /\ service'.se_acquired = TRUE
    BY <1>2
  <2>2. service' \in [se_requested : BOOLEAN, se_acquired : BOOLEAN]
    BY <1>2
  <2> QED
    BY <1>2, <2>1, <2>2
<1>3. CASE service' = [se_requested |-> TRUE, se_acquired |-> FALSE] /\ name' = name
  <2>1. service'.se_requested = TRUE /\ service'.se_acquired = FALSE
    BY <1>3
  <2>2. service' \in [se_requested : BOOLEAN, se_acquired : BOOLEAN]
    BY <1>3
  <2> QED
    BY <1>3, <2>1, <2>2
<1> QED
  BY <1>1, <1>2, <1>3 DEF Dbus!service_acquire_name

\* A connection is made, or was there already, or is not to be had.
LEMMA ConnectKeepsBus ==
  ASSUME BusInv, Dbus!dsme_dbus_connect, manager' = manager
  PROVE  BusInv'
<1> USE DEF BusInv
<1>0. UNCHANGED <<bound, handlers, members, loaded>>
  BY DEF Dbus!dsme_dbus_connect
<1>1. CASE manager = "enabled" /\ conn = "none" /\ daemon.accepts
  <2>1. /\ conn' = "open"
        /\ matches' = matches \union handlers /\ rules' = rules \union (handlers \ matches)
    BY <1>1 DEF Dbus!dsme_dbus_connect, Dbus!manager_add_matches
  <2>2. matches = {} /\ rules = {} /\ name = FALSE /\ service = Dbus!Unowned
    BY <1>1 DEF MatchesOK, NameOK
  <2>3. CASE members = {}
    <3>1. UNCHANGED <<service, name>>
      BY <1>1, <2>3 DEF Dbus!dsme_dbus_connect
    <3> QED
      BY <1>0, <1>1, <2>1, <2>2, <2>3, <3>1
      DEF BusTypes, BoundOK, MatchesOK, NameOK, Dbus!Unowned
  <2>4. CASE members # {}
    <3>1. Dbus!service_acquire_name("open")
      BY <1>1, <2>4 DEF Dbus!dsme_dbus_connect
    <3>2. /\ service' \in [se_requested : BOOLEAN, se_acquired : BOOLEAN]
          /\ service'.se_requested
          /\ name' = service'.se_acquired
      BY <2>2, <3>1, AcquireAsks
    <3> QED
      BY <1>0, <1>1, <2>1, <2>2, <2>4, <3>2 DEF BusTypes, BoundOK, MatchesOK, NameOK
  <2> QED
    BY <2>3, <2>4
<1>2. CASE ~(manager = "enabled" /\ conn = "none" /\ daemon.accepts)
  <2>1. UNCHANGED <<conn, matches, rules, service, name>>
    BY <1>2 DEF Dbus!dsme_dbus_connect, BusTypes
  <2> QED
    BY <1>0, <2>1 DEF BusTypes, BoundOK, MatchesOK, NameOK
<1> QED
  BY <1>1, <1>2

\* CONNECTED: plug-ins that are not bound bind, with a connection or without.
LEMMA BindKeepsBus ==
  ASSUME BusInv, Dbus!BindAll, UNCHANGED <<manager, conn>>
  PROVE  BusInv'
<1> USE DEF BusInv
<1> DEFINE P == loaded \ bound
<1>1. CASE manager # "enabled" \/ P = {}
  <2>1. UNCHANGED <<bound, handlers, matches, members, service, loaded, rules, name>>
    BY <1>1 DEF Dbus!BindAll, Dbus!bindings
  <2> QED
    BY <2>1 DEF BusTypes, BoundOK, MatchesOK, NameOK
<1>2. CASE manager = "enabled" /\ P # {}
  <2>1. /\ bound' = bound \union P /\ handlers' = handlers \union P
        /\ members' = members \union P /\ loaded' = loaded
        /\ Dbus!manager_add_matches(P, conn)
        /\ IF members = {} THEN Dbus!service_acquire_name(conn)
           ELSE UNCHANGED <<service, name>>
    BY <1>2 DEF Dbus!BindAll
  <2>2. BoundOK'
    BY <1>2, <2>1 DEF BoundOK
  <2>3. MatchesOK'
    BY <2>1 DEF MatchesOK, Dbus!manager_add_matches
  <2>4. BusTypes' /\ NameOK'
    <3>1. CASE members # {} \/ conn # "open"
      <4>1. UNCHANGED <<service, name>>
        BY <2>1, <3>1 DEF Dbus!service_acquire_name
      <4> QED
        BY <1>2, <2>1, <3>1, <4>1 DEF BusTypes, NameOK
    <3>2. CASE members = {} /\ conn = "open"
      <4>1. service = Dbus!Unowned /\ name = FALSE
        BY <3>2 DEF NameOK, Dbus!Unowned
      <4>2. /\ service' \in [se_requested : BOOLEAN, se_acquired : BOOLEAN]
            /\ service'.se_requested
            /\ name' = service'.se_acquired
        BY <2>1, <3>2, <4>1, AcquireAsks
      <4> QED
        BY <1>2, <2>1, <3>2, <4>1, <4>2 DEF BusTypes, NameOK
    <3> QED
      BY <3>1, <3>2
  <2> QED
    BY <2>2, <2>3, <2>4
<1> QED
  BY <1>1, <1>2

\* A connection that goes takes along what was on the bus.
LEMMA DisconnectKeepsBus ==
  ASSUME BusInv, Dbus!manager_disconnect,
         UNCHANGED <<bound, handlers, members, loaded, manager>>
  PROVE  BusInv'
<1> USE DEF BusInv
<1>1. CASE conn = "none"
  <2>1. UNCHANGED <<conn, matches, rules, service, name>>
    BY <1>1 DEF Dbus!manager_disconnect
  <2> QED
    BY <2>1 DEF BusTypes, BoundOK, MatchesOK, NameOK
<1>2. CASE conn # "none"
  <2>1. /\ conn' = "none"
        /\ matches' = matches \ handlers
        /\ rules' = IF conn = "open" THEN rules \ handlers ELSE rules
        /\ IF members = {} THEN UNCHANGED <<service, name>> ELSE Dbus!service_release_name
    BY <1>2 DEF Dbus!manager_disconnect, Dbus!manager_rem_matches, Dbus!Open
  <2>2. MatchesOK' /\ BoundOK'
    BY <1>2, <2>1 DEF MatchesOK, BoundOK
  <2>3. service' = Dbus!Unowned
    BY <2>1 DEF NameOK, Dbus!service_release_name
  <2>4. name' = FALSE
    <3>1. CASE conn = "open" /\ service.se_acquired
      <4>1. members # {}
        BY <3>1 DEF NameOK, Dbus!Unowned
      <4> QED
        BY <2>1, <3>1, <4>1 DEF Dbus!service_release_name, Dbus!Open
    <3>2. CASE ~(conn = "open" /\ service.se_acquired)
      <4>1. name' = name
        BY <2>1, <3>2 DEF Dbus!service_release_name, Dbus!Open
      <4>2. name = FALSE
        BY <3>2 DEF NameOK, BusTypes
      <4> QED
        BY <4>1, <4>2
    <3> QED
      BY <3>1, <3>2
  <2> QED
    BY <2>1, <2>2, <2>3, <2>4 DEF BusTypes, NameOK, Dbus!Unowned
<1> QED
  BY <1>1, <1>2

\* The bindings of a plug-in go with it, and the service with the last of them.
LEMMA UnloadKeepsBus ==
  ASSUME BusInv, NEW p, Dbus!Unload(p)
  PROVE  BusInv'
<1> USE DEF BusInv
<1>1. /\ loaded' = loaded \ {p} /\ bound' = bound \ {p}
      /\ UNCHANGED <<manager, conn>>
  BY DEF Dbus!Unload
<1>2. CASE p \in bound /\ manager = "enabled"
  <2>1. /\ handlers' = handlers \ {p} /\ members' = members \ {p}
        /\ matches' = matches \ {p}
        /\ rules' = IF conn = "open" THEN rules \ {p} ELSE rules
        /\ IF members = {p} THEN Dbus!service_release_name ELSE UNCHANGED <<service, name>>
    BY <1>2 DEF Dbus!Unload, Dbus!manager_rem_matches, Dbus!Open
  <2>2. BoundOK' /\ MatchesOK'
    BY <1>1, <1>2, <2>1 DEF BoundOK, MatchesOK
  <2>3. CASE members = {p}
    <3>1. /\ service' = Dbus!Unowned /\ members' = {}
          /\ name' = IF conn = "open" /\ service.se_acquired THEN FALSE ELSE name
      BY <2>1, <2>3 DEF Dbus!service_release_name, Dbus!Open
    <3>2. name' = FALSE
      <4>1. CASE conn = "open" /\ service.se_acquired
        BY <3>1, <4>1
      <4>2. CASE ~(conn = "open" /\ service.se_acquired)
        <5>1. name' = name
          BY <3>1, <4>2
        <5>2. name = FALSE
          BY <4>2 DEF NameOK, BusTypes
        <5> QED
          BY <5>1, <5>2
      <4> QED
        BY <4>1, <4>2
    <3> QED
      BY <1>1, <2>2, <3>1, <3>2 DEF BusTypes, NameOK, Dbus!Unowned
  <2>4. CASE members # {p}
    <3>1. (members' = {}) <=> (members = {})
      BY <2>1, <2>4
    <3>2. UNCHANGED <<service, name>>
      BY <2>1, <2>4
    <3> QED
      BY <1>1, <2>2, <3>1, <3>2 DEF BusTypes, NameOK
  <2> QED
    BY <2>3, <2>4
<1>3. CASE ~(p \in bound /\ manager = "enabled")
  <2>1. UNCHANGED <<handlers, members, matches, rules, service, name>>
    BY <1>3 DEF Dbus!Unload
  <2>2. BoundOK'
    BY <1>1, <1>3, <2>1 DEF BoundOK
  <2> QED
    BY <1>1, <2>1, <2>2 DEF BusTypes, MatchesOK, NameOK
<1> QED
  BY <1>2, <1>3

\* Steps that leave the connection and the bindings alone.
LEMMA BusStays ==
  ASSUME BusInv, UNCHANGED <<manager, conn, Dbus!bindings>>
  PROVE  BusInv'
BY DEF BusInv, BusTypes, BoundOK, MatchesOK, NameOK, Dbus!bindings

\* The manager and the bus keep their invariant.
LEMMA BusKeepsInv ==
  ASSUME BusInv, Dbus!Next
  PROVE  BusInv'
<1>1. CASE Dbus!Handle
  <2>1. manager' = manager
    BY <1>1 DEF Dbus!Handle
  <2>2. CASE Dbus!dsme_dbus_connect
    BY <2>1, <2>2, ConnectKeepsBus
  <2>3. CASE Dbus!BindAll /\ UNCHANGED conn
    BY <2>1, <2>3, BindKeepsBus
  <2>4. CASE /\ IF manager = "enabled" THEN Dbus!manager_disconnect
                ELSE UNCHANGED <<conn, matches, rules, service, name>>
             /\ UNCHANGED <<bound, handlers, members, loaded>>
    <3>1. CASE manager = "enabled"
      BY <2>1, <2>4, <3>1, DisconnectKeepsBus
    <3>2. CASE manager # "enabled"
      BY <2>1, <2>4, <3>2, BusStays DEF Dbus!bindings
    <3> QED
      BY <3>1, <3>2
  <2> QED
    BY <1>1, <2>2, <2>3, <2>4 DEF Dbus!Handle
<1>2. ASSUME NEW p \in Plugins, Dbus!Unload(p)
      PROVE  BusInv'
  BY <1>2, UnloadKeepsBus
<1>3. CASE Dbus!dsme_dbus_startup
  <2>1. manager' = "enabled" /\ UNCHANGED <<conn, Dbus!bindings>>
    BY <1>3 DEF Dbus!dsme_dbus_startup
  <2>2. handlers = {} /\ bound = {}
    BY <1>3 DEF Dbus!dsme_dbus_startup, BusInv, BoundOK
  <2> QED
    BY <2>1, <2>2 DEF BusInv, BusTypes, BoundOK, MatchesOK, NameOK, Dbus!bindings
<1>4. CASE Dbus!dsme_dbus_shutdown
  <2>1. /\ manager' = "terminated" /\ conn' = "none"
        /\ handlers' = {} /\ members' = {} /\ matches' = {} /\ rules' = {}
        /\ service' = Dbus!Unowned /\ name' = FALSE
        /\ UNCHANGED <<bound, loaded>>
    BY <1>4 DEF Dbus!dsme_dbus_shutdown
  <2> QED
    BY <2>1 DEF BusInv, BusTypes, BoundOK, MatchesOK, NameOK, Dbus!Unowned
<1>5. CASE Dbus!DaemonDies
  <2>1. /\ conn' = IF conn = "open" THEN "closed" ELSE conn
        /\ rules' = {} /\ name' = FALSE
        /\ UNCHANGED <<manager, bound, handlers, matches, members, service, loaded>>
    BY <1>5 DEF Dbus!DaemonDies, Dbus!Open
  <2> QED
    BY <2>1 DEF BusInv, BusTypes, BoundOK, MatchesOK, NameOK
<1>6. CASE \/ Dbus!connect_timer_cb \/ Dbus!systembus_watcher_cb
           \/ Dbus!autoconnector_init \/ Dbus!autoconnector_init_state
           \/ Dbus!autoconnector_fini \/ Dbus!Disconnected
           \/ Dbus!DaemonStarts \/ Dbus!DaemonAccepts
           \/ \E m \in {"CONNECT", "DISCONNECT"} : Dbus!dsmetool(m)
  BY <1>6, BusStays
  DEF Dbus!connect_timer_cb, Dbus!systembus_watcher_cb, Dbus!autoconnector_init,
      Dbus!autoconnector_init_state, Dbus!autoconnector_fini, Dbus!Disconnected,
      Dbus!DaemonStarts, Dbus!DaemonAccepts, Dbus!dsmetool
<1> QED
  BY <1>1, <1>2, <1>3, <1>4, <1>5, <1>6 DEF Dbus!Next

(***************************************************************************)
(* The time and the power-up alarm.                                        *)
(***************************************************************************)
TimeTypes ==
  /\ {sys, rtc, real, floor, alarm_powerup, status_file, saved_time} \subseteq Nat
  /\ {delta, delta_file, rtc_alarm, wanted} \subseteq Int

\* The system time is the time since the start, and dsme is up on a device that is on.
ClockOK == up => on /\ sys = real

\* What timed asked for is known as long as dsme is up, and in the file after that.
RequestOK ==
  /\ up => wanted \in {Time!Unknown, alarm_powerup}
  /\ ~up => wanted \in {Time!Unknown, status_file}

\* Between an end of dsme and the next start of it the rtc is as far from its alarm as
\* the time is from the one asked for, and a device that is off has not missed it.
RtcAlarmOK ==
  (~up /\ ~device.encrypted /\ wanted > floor + StartupEstimate + ShutdownEstimate) =>
     /\ rtc_alarm > 0
     /\ rtc_alarm - rtc = wanted - StartupEstimate - real
     /\ ~on => real <= wanted - StartupEstimate

TimeInv == TimeTypes /\ ClockOK /\ RequestOK /\ RtcAlarmOK


\* The maximum of three numbers.
LEMMA MaxOfThree ==
  ASSUME NEW a \in Int, NEW b \in Int, NEW c \in Int
  PROVE  /\ Time!Max({a, b, c}) \in {a, b, c}
         /\ Time!Max({a, b, c}) >= a /\ Time!Max({a, b, c}) >= b /\ Time!Max({a, b, c}) >= c
<1> DEFINE S == {a, b, c}
<1>1. \E x \in S : \A y \in S : x >= y
  OBVIOUS
<1>2. Time!Max(S) \in S /\ \A y \in S : Time!Max(S) >= y
  BY <1>1 DEF Time!Max
<1> QED
  BY <1>2

\* The maximum and the minimum of two numbers.
LEMMA MaxOfTwo ==
  ASSUME NEW a \in Int, NEW b \in Int
  PROVE  /\ Time!Max({a, b}) \in {a, b}
         /\ Time!Max({a, b}) >= a /\ Time!Max({a, b}) >= b
         /\ Time!Min({a, b}) \in {a, b}
         /\ Time!Min({a, b}) <= a /\ Time!Min({a, b}) <= b
<1> DEFINE S == {a, b}
<1>1. (\E x \in S : \A y \in S : x >= y) /\ (\E x \in S : \A y \in S : x <= y)
  OBVIOUS
<1>2. /\ Time!Max(S) \in S /\ \A y \in S : Time!Max(S) >= y
      /\ Time!Min(S) \in S /\ \A y \in S : Time!Min(S) <= y
  BY <1>1 DEF Time!Max, Time!Min
<1> QED
  BY <1>2

\* The difference and its file hold numbers.
LEMMA DeltaIsInt ==
  ASSUME NEW s \in Int, NEW r \in Int, NEW d \in Int, NEW n, delta_file \in Int,
         Time!deltatime_update(s, r, d, n)
  PROVE  delta' \in Int /\ delta_file' \in Int
<1> DEFINE exact == IF n THEN s - r ELSE 0
           new == IF Time!Abs(exact) <= Jitter THEN 0 ELSE exact
<1>1. new \in Int
  OBVIOUS
<1>2. \/ delta' = new /\ delta_file' = new
      \/ delta' = d /\ delta_file' = delta_file
  BY DEF Time!deltatime_update
<1> QED
  BY <1>1, <1>2

\* The system time a start arrives at is at least the one before it.
LEMMA StartTimeIsNat ==
  ASSUME TimeTypes, Time!systemtime_init
  PROVE  {sys', rtc'} \subseteq Nat /\ {delta', delta_file'} \subseteq Int
<1> DEFINE d == IF device.writable THEN 0 ELSE delta_file
           t_rtc == Time!Max({Time!mintime_fetch, rtc + d})
           n == ~device.writable /\ (d # 0 \/ rtc + d < t_rtc)
<1>1. BuiltinTime \in Nat /\ sys \in Nat /\ saved_time \in Nat /\ rtc \in Nat /\ d \in Int
  BY TimeAssumption DEF TimeTypes
<1>2. Time!mintime_fetch \in Nat
  BY <1>1, MaxOfThree DEF Time!mintime_fetch
<1>3. t_rtc \in Nat
  <2>1. rtc + d \in Int
    BY <1>1
  <2> HIDE DEF d
  <2> QED
    BY <1>2, <2>1, MaxOfTwo
<1>4. /\ sys' = IF d = 0 \/ sys < t_rtc THEN t_rtc ELSE sys
      /\ rtc' = IF device.writable THEN t_rtc ELSE rtc
      /\ Time!deltatime_update(sys', rtc', delta_file, n)
  BY DEF Time!systemtime_init, Time!rtc_set_time_tv
<1> HIDE DEF d, t_rtc, n
<1>5. sys' \in Nat /\ rtc' \in Nat
  BY <1>1, <1>3, <1>4
<1>6. delta_file \in Int
  BY DEF TimeTypes
<1>7. delta' \in Int /\ delta_file' \in Int
  BY <1>4, <1>5, <1>6, DeltaIsInt
<1> QED
  BY <1>5, <1>7

\* A start takes over what the last end left.
LEMMA TimeStarts ==
  ASSUME TimeInv, Time!module_init
  PROVE  TimeInv'
<1>1. /\ on /\ ~up /\ up' = TRUE /\ alarm_powerup' = status_file /\ real' = sys'
      /\ Time!systemtime_init
      /\ UNCHANGED <<on, saved_time, status_file, rtc_alarm, floor, wanted>>
  BY DEF Time!module_init, Time!xtimed_status_load
<1>2. {sys', rtc'} \subseteq Nat /\ {delta', delta_file'} \subseteq Int
  BY <1>1, StartTimeIsNat DEF TimeInv
<1> QED
  BY <1>1, <1>2 DEF TimeInv, TimeTypes, ClockOK, RequestOK, RtcAlarmOK

\* What dsme does while it is up.
LEMMA TimeRuns ==
  ASSUME TimeInv,
         \/ Time!rtc_handle_input \/ Time!Rethink
         \/ \E t \in PowerupTimes : Time!xtimed_alarm_status_cb(t)
         \/ \E t \in SetTimes : Time!SetTime(t)
  PROVE  TimeInv'
<1> USE DEF TimeInv
<1>0. sys \in Nat /\ rtc \in Nat /\ delta \in Int /\ delta_file \in Int
  BY DEF TimeTypes
<1>1. CASE Time!rtc_handle_input
  <2>1. /\ up /\ real' = sys' /\ sys' = IF needed THEN sys ELSE rtc
        /\ Time!deltatime_update(sys', rtc, delta, needed)
        /\ UNCHANGED <<on, up, rtc, alarm_powerup, saved_time, status_file, rtc_alarm,
                       device, floor, wanted>>
    BY <1>1 DEF Time!rtc_handle_input
  <2>2. sys' \in Nat
    BY <1>0, <2>1
  <2>3. delta' \in Int /\ delta_file' \in Int
    BY <1>0, <2>1, <2>2, DeltaIsInt
  <2> QED
    BY <2>1, <2>2, <2>3 DEF TimeTypes, ClockOK, RequestOK, RtcAlarmOK
<1>2. CASE Time!Rethink
  <2>1. /\ up /\ Time!deltatime_update(sys, rtc, delta, needed)
        /\ UNCHANGED <<on, up, sys, rtc, alarm_powerup, saved_time, status_file, rtc_alarm,
                       device, real, floor, wanted>>
    BY <1>2 DEF Time!Rethink
  <2>2. delta' \in Int /\ delta_file' \in Int
    BY <1>0, <2>1, DeltaIsInt
  <2> QED
    BY <2>1, <2>2 DEF TimeTypes, ClockOK, RequestOK, RtcAlarmOK
<1>3. ASSUME NEW t \in PowerupTimes, Time!xtimed_alarm_status_cb(t)
      PROVE  TimeInv'
  <2>1. /\ up /\ Time!deltatime_update(sys, rtc, delta, needed)
        /\ alarm_powerup' = IF t < sys THEN 0 ELSE t
        /\ wanted' = alarm_powerup'
        /\ UNCHANGED <<on, up, sys, rtc, saved_time, status_file, rtc_alarm, device, real,
                       floor>>
    BY <1>3 DEF Time!xtimed_alarm_status_cb
  <2>2. delta' \in Int /\ delta_file' \in Int
    BY <1>0, <2>1, DeltaIsInt
  <2>3. alarm_powerup' \in Nat
    BY <2>1, TimeAssumption
  <2> QED
    BY <2>1, <2>2, <2>3 DEF TimeTypes, ClockOK, RequestOK, RtcAlarmOK
<1>4. ASSUME NEW t \in SetTimes, Time!SetTime(t)
      PROVE  TimeInv'
  <2>1. /\ up /\ sys' = t /\ real' = t /\ floor' = Time!Min({floor, t})
        /\ UNCHANGED <<on, up, rtc, delta, alarm_powerup, delta_file, saved_time,
                       status_file, rtc_alarm, device, wanted>>
    BY <1>4 DEF Time!SetTime
  <2>2. t \in Nat /\ floor \in Nat
    BY TimeAssumption DEF TimeTypes
  <2>3. floor' \in Nat
    <3>1. t \in Int /\ floor \in Int
      BY <2>2
    <3>2. Time!Min({floor, t}) \in {floor, t}
      BY <3>1, MaxOfTwo
    <3> QED
      BY <2>1, <2>2, <3>2
  <2> QED
    BY <2>1, <2>2, <2>3 DEF TimeTypes, ClockOK, RequestOK, RtcAlarmOK
<1> QED
  BY <1>1, <1>2, <1>3, <1>4

\* An end of dsme leaves the request in its file and the alarm in the rtc, as far
\* away by the rtc as it is by the system time.
LEMMA TimeEnds ==
  ASSUME TimeInv, Time!module_fini
  PROVE  TimeInv'
<1> USE DEF TimeInv
<1>1. /\ up /\ up' = FALSE
      /\ \/ status_file' = alarm_powerup /\ wanted' = wanted
         \/ status_file' = status_file /\ wanted' = Time!Unknown
      /\ rtc' = (IF device.writable THEN sys ELSE rtc)
      /\ saved_time' = sys /\ floor' = sys
      /\ Time!deltatime_update(sys, rtc', delta, needed)
      /\ rtc_alarm' = Time!rtc_set_alarm_powerup(sys, rtc')
      /\ UNCHANGED <<on, sys, alarm_powerup, device, real>>
  BY DEF Time!module_fini, Time!rtc_set_time_tv, Time!mintime_store
<1>2. /\ sys \in Nat /\ rtc' \in Nat /\ delta \in Int /\ delta_file \in Int
      /\ StartupEstimate \in Nat /\ ShutdownEstimate \in Nat /\ alarm_powerup \in Nat
  BY <1>1, TimeAssumption DEF TimeTypes
<1>3. delta' \in Int /\ delta_file' \in Int
  BY <1>1, <1>2, DeltaIsInt
<1> DEFINE left == (IF alarm_powerup > sys THEN alarm_powerup - sys ELSE 0) - StartupEstimate
<1>4. rtc_alarm' = IF left < ShutdownEstimate \/ device.encrypted THEN 0 ELSE rtc' + left
  BY <1>1 DEF Time!rtc_set_alarm_powerup
<1>5. rtc_alarm' \in Int
  BY <1>2, <1>4
<1>6. TimeTypes'
  BY <1>1, <1>2, <1>3, <1>5 DEF TimeTypes, Time!Unknown
<1>7. RequestOK' /\ ClockOK'
  BY <1>1 DEF RequestOK, ClockOK
<1>8. ASSUME ~device.encrypted, wanted' > sys + StartupEstimate + ShutdownEstimate
      PROVE  /\ rtc_alarm' > 0
             /\ rtc_alarm' - rtc' = wanted' - StartupEstimate - sys
             /\ sys <= wanted' - StartupEstimate
  <2>1. wanted' = alarm_powerup
    BY <1>1, <1>2, <1>8 DEF RequestOK, Time!Unknown
  <2>2. left = wanted' - sys - StartupEstimate /\ left > ShutdownEstimate /\ left \in Int
    BY <1>2, <1>8, <2>1
  <2> HIDE DEF left
  <2>3. rtc_alarm' = rtc' + left
    <3>1. ~(left < ShutdownEstimate)
      BY <1>2, <2>2
    <3> QED
      BY <1>4, <1>8, <3>1
  <2> QED
    <3>1. rtc_alarm' > 0
      BY <1>2, <2>2, <2>3
    <3>2. rtc_alarm' - rtc' = left
      BY <1>2, <2>2, <2>3
    <3>3. left = wanted' - StartupEstimate - sys /\ sys <= wanted' - StartupEstimate
      BY <1>2, <2>1, <2>2
    <3> QED
      BY <3>1, <3>2, <3>3
<1>9. sys = real
  BY <1>1 DEF ClockOK
<1> QED
  BY <1>1, <1>6, <1>7, <1>8, <1>9 DEF RtcAlarmOK

\* What dies with dsme, the device or the rtc is not waited for.
LEMMA TimeLost ==
  ASSUME TimeInv, Time!Crash \/ Time!PowerOff \/ Time!PowerOn \/ Time!RtcLoss
  PROVE  TimeInv'
<1> USE DEF TimeInv
<1>0. /\ {StartupEstimate, ShutdownEstimate, floor, real, rtc, sys} \subseteq Nat
      /\ wanted \in Int
  BY TimeAssumption DEF TimeTypes
<1>1. CASE Time!Crash \/ Time!PowerOff
  <2>1. /\ up' = FALSE
        /\ wanted' = IF up \/ real > wanted - StartupEstimate THEN Time!Unknown ELSE wanted
        /\ UNCHANGED <<sys, rtc, delta, alarm_powerup, delta_file, saved_time, status_file,
                       rtc_alarm, device, real, floor>>
    BY <1>1 DEF Time!Crash, Time!PowerOff, Time!Die
  <2>2. CASE wanted' = Time!Unknown
    BY <1>0, <2>1, <2>2 DEF TimeTypes, ClockOK, RequestOK, RtcAlarmOK, Time!Unknown
  <2>3. CASE wanted' # Time!Unknown
    <3>1. ~up /\ wanted' = wanted /\ real <= wanted - StartupEstimate
      BY <1>0, <2>1, <2>3
    <3> QED
      BY <2>1, <3>1 DEF TimeTypes, ClockOK, RequestOK, RtcAlarmOK
  <2> QED
    BY <2>2, <2>3
<1>2. CASE Time!PowerOn
  <2>1. /\ ~on /\ on' = TRUE /\ sys' = IF device.hctosys THEN rtc ELSE 0
        /\ UNCHANGED <<up, rtc, delta, alarm_powerup, delta_file, saved_time, status_file,
                       rtc_alarm, device, real, floor, wanted>>
    BY <1>2 DEF Time!PowerOn
  <2>2. ~up /\ sys' \in Nat
    BY <1>0, <2>1 DEF ClockOK
  <2> QED
    BY <2>1, <2>2 DEF TimeTypes, ClockOK, RequestOK, RtcAlarmOK
<1>3. CASE Time!RtcLoss
  <2>1. /\ rtc' = 0 /\ rtc_alarm' = 0 /\ wanted' = Time!Unknown
        /\ UNCHANGED <<on, up, sys, delta, alarm_powerup, delta_file, saved_time,
                       status_file, device, real, floor>>
    BY <1>3 DEF Time!RtcLoss
  <2> QED
    BY <1>0, <2>1 DEF TimeTypes, ClockOK, RequestOK, RtcAlarmOK, Time!Unknown
<1> QED
  BY <1>1, <1>2, <1>3

\* The rtc powers the device up before the time passes.
LEMMA TimePasses ==
  ASSUME TimeInv, Time!Tick
  PROVE  TimeInv'
<1> USE DEF TimeInv
<1>0. /\ {StartupEstimate, ShutdownEstimate, floor, real, rtc, sys} \subseteq Nat
      /\ {wanted, rtc_alarm} \subseteq Int
  BY TimeAssumption DEF TimeTypes
<1>1. /\ ~on => (rtc_alarm # rtc \/ rtc_alarm = 0)
      /\ sys' = IF on THEN sys + 1 ELSE sys
      /\ rtc' = rtc + 1 /\ real' = real + 1
      /\ UNCHANGED <<on, up, delta, alarm_powerup, delta_file, saved_time, status_file,
                     rtc_alarm, device, floor, wanted>>
  BY DEF Time!Tick
<1>2. TimeTypes' /\ ClockOK' /\ RequestOK'
  BY <1>0, <1>1 DEF TimeTypes, ClockOK, RequestOK
<1>3. RtcAlarmOK'
  BY <1>0, <1>1 DEF RtcAlarmOK
<1> QED
  BY <1>2, <1>3

\* The time and the power-up alarm keep their invariant.
LEMMA TimeKeepsInv ==
  ASSUME TimeInv, Time!Next
  PROVE  TimeInv'
BY TimeStarts, TimeRuns, TimeEnds, TimeLost, TimePasses DEF Time!Next


\* The file has the difference that is cached, and one that is too small to be used
\* is none.  A difference is needed at most while the rtc cannot be set.
DeltaOK ==
  /\ up => delta = delta_file
  /\ delta_file = 0 \/ Time!Abs(delta_file) > Jitter
  /\ up => (needed => ~device.writable) /\ (~needed => delta_file = 0)

\* The first update interrupt finds the time in the rtc, unless it is to be left.
InterruptOK ==
  up => /\ BuiltinTime <= sys
        /\ (to_system_time /\ ~needed) => /\ BuiltinTime <= rtc
                                          /\ known => rtc = real

\* While dsme is up, what a death would leave is the time, unless the user has set it.
WrittenOK ==
  (up /\ ~unwritten) =>
     /\ device.writable => rtc = sys
     /\ ~device.writable => Time!Abs(delta_file - (sys - rtc)) <= Jitter

\* What an end or a death leaves in the rtc and the files is the time, to within the
\* jitter, and no minimum is beyond that.
LeftOK ==
  (~up /\ known) =>
     /\ BuiltinTime <= real /\ saved_time <= real /\ sys <= real + Jitter
     /\ device.writable => rtc = real
     /\ ~device.writable => Time!Abs(delta_file - (real - rtc)) <= Jitter

KeptOK == DeltaOK /\ InterruptOK /\ WrittenOK /\ LeftOK


\* What does not differ.
LEMMA NoDifference ==
  /\ \A x \in Int : x - 0 = x
  /\ \A x, y \in Int : x = y => 0 - (y - x) = 0
OBVIOUS

\* deltatime_update() leaves a difference that is right to within the jitter.
LEMMA DeltaFollows ==
  ASSUME NEW s \in Int, NEW r \in Int, NEW d \in Int, NEW n,
         d = delta_file, d = 0 \/ Time!Abs(d) > Jitter,
         Time!deltatime_update(s, r, d, n)
  PROVE  /\ delta' = delta_file' /\ delta_file' \in Int
         /\ delta_file' = 0 \/ Time!Abs(delta_file') > Jitter
         /\ n => Time!Abs(delta_file' - (s - r)) <= Jitter
         /\ ~n => delta_file' = 0
<1> DEFINE exact == IF n THEN s - r ELSE 0
           new == IF Time!Abs(exact) <= Jitter THEN 0 ELSE exact
<1>0. Jitter \in Nat
  BY TimeAssumption
<1>1. /\ exact \in Int /\ (n => exact = s - r) /\ (~n => exact = 0)
      /\ new \in Int
      /\ \/ new = 0 /\ Time!Abs(exact) <= Jitter
         \/ new = exact /\ Time!Abs(exact) > Jitter
  BY <1>0 DEF Time!Abs
<1>2. \/ Time!Abs(d - new) > Jitter /\ delta' = new /\ delta_file' = new
      \/ ~(Time!Abs(d - new) > Jitter) /\ delta' = d /\ delta_file' = d
  BY DEF Time!deltatime_update
<1> HIDE DEF exact, new
<1>3. /\ delta' = delta_file' /\ delta_file' \in Int
      /\ delta_file' = 0 \/ Time!Abs(delta_file') > Jitter
  BY <1>1, <1>2
<1>4. Time!Abs(delta_file' - exact) <= Jitter
  BY <1>0, <1>1, <1>2 DEF Time!Abs
<1>5. ASSUME ~n
      PROVE  delta_file' = 0
  <2>1. Time!Abs(delta_file' - 0) <= Jitter
    BY <1>1, <1>4, <1>5
  <2>2. delta_file' \in Int
    BY <1>3
  <2>3. delta_file' - 0 = delta_file'
    BY <2>2, NoDifference, Zenon
  <2>4. Time!Abs(delta_file') <= Jitter
    BY <2>1, <2>3
  <2>5. Time!Abs(delta_file') \in Int
    BY <2>2 DEF Time!Abs
  <2> QED
    BY <1>0, <1>3, <2>4, <2>5
<1> QED
  BY <1>1, <1>3, <1>4, <1>5

\* A start finds the time, and leaves it for the first update interrupt.
LEMMA StartKeepsTime ==
  ASSUME TimeInv, KeptOK, Time!module_init
  PROVE  /\ KeptOK'
         /\ known => Time!Abs(sys' - real) <= Jitter
<1> DEFINE d == IF device.writable THEN 0 ELSE delta_file
           low == Time!mintime_fetch
           t_rtc == Time!Max({low, rtc + d})
           n == ~device.writable /\ (d # 0 \/ rtc + d < t_rtc)
<1>1. /\ ~up /\ up' = TRUE /\ real' = sys' /\ known' = TRUE /\ Time!systemtime_init
      /\ UNCHANGED device
  BY DEF Time!module_init
<1>2. /\ {BuiltinTime, Jitter, sys, saved_time, rtc, real} \subseteq Nat
      /\ delta_file \in Int /\ d \in Int
  BY TimeAssumption DEF TimeInv, TimeTypes
<1>3. /\ low \in {BuiltinTime, saved_time, sys}
      /\ low >= BuiltinTime /\ low >= saved_time /\ low >= sys
  <2>1. BuiltinTime \in Int /\ saved_time \in Int /\ sys \in Int
    BY <1>2
  <2> QED
    BY <2>1, MaxOfThree, Zenon DEF Time!mintime_fetch
<1>4. t_rtc \in {low, rtc + d} /\ t_rtc >= low /\ t_rtc >= rtc + d /\ t_rtc \in Nat
  <2>1. rtc + d \in Int /\ low \in Int /\ low >= 0
    BY <1>2, <1>3
  <2> HIDE DEF d, low
  <2>2. t_rtc \in {low, rtc + d} /\ t_rtc >= low /\ t_rtc >= rtc + d
    BY <2>1, MaxOfTwo
  <2> QED
    BY <2>1, <2>2
<1>5. /\ sys' = IF d = 0 \/ sys < t_rtc THEN t_rtc ELSE sys
      /\ rtc' = IF device.writable THEN t_rtc ELSE rtc
      /\ needed' = n
      /\ Time!deltatime_update(sys', rtc', delta_file, n)
  BY <1>1 DEF Time!systemtime_init, Time!rtc_set_time_tv
<1>6. /\ device.writable => d = 0
      /\ ~device.writable => d = delta_file
      /\ n => ~device.writable
      /\ ~n => device.writable \/ (d = 0 /\ ~(rtc + d < t_rtc))
  OBVIOUS
<1> HIDE DEF d, low, t_rtc, n
<1>7. sys' = t_rtc
  BY <1>2, <1>3, <1>4, <1>5
<1>8. DeltaOK' /\ WrittenOK'
  <2>1. sys' \in Int /\ rtc' \in Int /\ (delta_file = 0 \/ Time!Abs(delta_file) > Jitter)
    BY <1>2, <1>4, <1>5, <1>7 DEF KeptOK, DeltaOK
  <2>2. /\ delta' = delta_file'
        /\ delta_file' = 0 \/ Time!Abs(delta_file') > Jitter
        /\ n => Time!Abs(delta_file' - (sys' - rtc')) <= Jitter
        /\ ~n => delta_file' = 0
    BY <1>2, <1>5, <2>1, DeltaFollows
  <2>3. needed' = n /\ (n => ~device.writable)
    BY <1>5, <1>6
  <2>4. DeltaOK'
    BY <1>1, <2>2, <2>3 DEF DeltaOK
  <2>5. ~n => rtc' = sys'
    BY <1>2, <1>4, <1>5, <1>6, <1>7
  <2>6. ASSUME rtc' = sys'
        PROVE  Time!Abs(0 - (sys' - rtc')) <= Jitter
    <3>1. sys' \in Int /\ rtc' \in Int
      BY <2>1
    <3>2. 0 - (sys' - rtc') = 0
      BY <2>6, <3>1, NoDifference, Zenon
    <3>3. Jitter \in Nat
      BY <1>2
    <3>4. Time!Abs(0) <= Jitter
      BY <3>3 DEF Time!Abs
    <3> QED
      BY <3>2, <3>4, Zenon
  <2>7. WrittenOK'
    BY <1>1, <1>5, <1>6, <1>7, <2>2, <2>3, <2>5, <2>6 DEF WrittenOK
  <2> QED
    BY <2>4, <2>7
<1>9. InterruptOK'
  <2>1. BuiltinTime <= sys'
    BY <1>2, <1>3, <1>4, <1>7
  <2>2. ~needed' => rtc' = sys'
    BY <1>2, <1>4, <1>5, <1>6, <1>7
  <2> QED
    BY <1>1, <2>1, <2>2 DEF InterruptOK
<1>10. LeftOK'
  BY <1>1 DEF LeftOK
<1>11. ASSUME known
       PROVE  Time!Abs(sys' - real) <= Jitter
  <2>1. low <= real + Jitter
    BY <1>1, <1>2, <1>3, <1>11 DEF KeptOK, LeftOK
  <2>2. CASE device.writable
    BY <1>1, <1>2, <1>3, <1>4, <1>6, <1>7, <1>11, <2>1, <2>2 DEF KeptOK, LeftOK, Time!Abs
  <2>3. CASE ~device.writable
    <3>1. Time!Abs(d - (real - rtc)) <= Jitter
      BY <1>1, <1>6, <1>11, <2>3 DEF KeptOK, LeftOK
    <3> QED
      BY <1>2, <1>3, <1>4, <1>7, <2>1, <3>1 DEF Time!Abs
  <2> QED
    BY <2>2, <2>3
<1> QED
  BY <1>8, <1>9, <1>10, <1>11 DEF KeptOK

\* The first update interrupt does not move the time.
LEMMA InterruptKeepsTime ==
  ASSUME TimeInv, KeptOK, Time!rtc_handle_input
  PROVE  /\ KeptOK'
         /\ known => Time!Abs(sys' - real) <= Jitter
<1>1. /\ up /\ up' = up /\ to_system_time /\ to_system_time' = FALSE
      /\ sys' = IF needed THEN sys ELSE rtc
      /\ Time!deltatime_update(sys', rtc, delta, needed)
      /\ UNCHANGED <<rtc, needed, device, known>>
  BY DEF Time!rtc_handle_input
<1>2. /\ {BuiltinTime, Jitter, sys, rtc, real} \subseteq Nat
      /\ delta \in Int /\ sys = real
  BY <1>1, TimeAssumption DEF TimeInv, TimeTypes, ClockOK
<1>3. sys' \in Nat /\ BuiltinTime <= sys'
  BY <1>1, <1>2 DEF KeptOK, InterruptOK
<1>4. /\ delta' = delta_file'
      /\ delta_file' = 0 \/ Time!Abs(delta_file') > Jitter
      /\ needed => Time!Abs(delta_file' - (sys' - rtc)) <= Jitter
      /\ ~needed => delta_file' = 0
  <2>1. delta = delta_file /\ (delta = 0 \/ Time!Abs(delta) > Jitter)
    BY <1>1 DEF KeptOK, DeltaOK
  <2> QED
    BY <1>1, <1>2, <1>3, <2>1, DeltaFollows
<1>5. known => sys' = real
  BY <1>1, <1>2 DEF KeptOK, InterruptOK
<1>6. KeptOK'
  <2>1. (needed => ~device.writable)
    BY <1>1 DEF KeptOK, DeltaOK
  <2>2. ~needed => sys' = rtc /\ Time!Abs(0 - (sys' - rtc)) <= Jitter
    BY <1>1, <1>2, <1>3 DEF Time!Abs
  <2>3. WrittenOK'
    BY <1>1, <1>4, <2>1, <2>2 DEF WrittenOK
  <2> QED
    BY <1>1, <1>3, <1>4, <2>1, <2>3 DEF KeptOK, DeltaOK, InterruptOK, LeftOK
<1>7. known => Time!Abs(sys' - real) <= Jitter
  BY <1>2, <1>5 DEF Time!Abs
<1> QED
  BY <1>6, <1>7

\* The other steps of a dsme that is up.
LEMMA RunsKeepTime ==
  ASSUME TimeInv, KeptOK,
         \/ Time!Rethink
         \/ \E t \in PowerupTimes : Time!xtimed_alarm_status_cb(t)
         \/ \E t \in SetTimes : Time!SetTime(t)
  PROVE  KeptOK'
<1>1. CASE \/ Time!Rethink
           \/ \E t \in PowerupTimes : Time!xtimed_alarm_status_cb(t)
  <2>1. /\ up /\ Time!deltatime_update(sys, rtc, delta, needed)
        /\ UNCHANGED <<up, sys, rtc, needed, to_system_time, saved_time, device, real, known>>
        /\ Time!StillUnwritten
    BY <1>1 DEF Time!Rethink, Time!xtimed_alarm_status_cb
  <2>2. sys \in Int /\ rtc \in Int /\ delta \in Int
    BY DEF TimeInv, TimeTypes
  <2>3. delta = delta_file /\ (delta = 0 \/ Time!Abs(delta) > Jitter)
    BY <2>1 DEF KeptOK, DeltaOK
  <2>4. /\ delta' = delta_file'
        /\ delta_file' = 0 \/ Time!Abs(delta_file') > Jitter
        /\ needed => Time!Abs(delta_file' - (sys - rtc)) <= Jitter
        /\ ~needed => delta_file' = 0
    BY <2>1, <2>2, <2>3, DeltaFollows
  <2>5. (needed => ~device.writable) /\ (~needed => delta_file = 0)
    BY <2>1 DEF KeptOK, DeltaOK
  <2>6. ~unwritten' => ~unwritten \/ needed
    BY <2>1 DEF Time!StillUnwritten
  <2>7. WrittenOK'
    BY <2>1, <2>4, <2>5, <2>6 DEF KeptOK, WrittenOK
  <2> QED
    BY <2>1, <2>4, <2>5, <2>7 DEF KeptOK, DeltaOK, InterruptOK, LeftOK
<1>2. ASSUME NEW t \in SetTimes, Time!SetTime(t)
      PROVE  KeptOK'
  <2>1. /\ up /\ sys' = t /\ BuiltinTime <= t
        /\ known' = (known /\ (needed \/ ~to_system_time))
        /\ unwritten' = TRUE
        /\ UNCHANGED <<up, rtc, delta, needed, to_system_time, delta_file, device>>
    BY <1>2, TimeAssumption DEF Time!SetTime
  <2>2. (to_system_time /\ ~needed) => ~known'
    BY <2>1
  <2>3. DeltaOK' /\ WrittenOK' /\ LeftOK'
    BY <2>1 DEF KeptOK, DeltaOK, WrittenOK, LeftOK
  <2>4. InterruptOK'
    BY <2>1, <2>2 DEF KeptOK, InterruptOK
  <2> QED
    BY <2>3, <2>4 DEF KeptOK
<1> QED
  BY <1>1, <1>2

\* An end leaves the time in the rtc, or its difference in the file.
LEMMA EndKeepsTime ==
  ASSUME TimeInv, KeptOK, Time!module_fini
  PROVE  KeptOK'
<1>1. /\ up /\ up' = FALSE /\ saved_time' = sys
      /\ rtc' = (IF device.writable THEN sys ELSE rtc)
      /\ Time!deltatime_update(sys, rtc', delta, needed)
      /\ known' = ~Time!Unprobed
      /\ UNCHANGED <<sys, device, real>>
  BY DEF Time!module_fini, Time!rtc_set_time_tv, Time!mintime_store
<1>2. /\ {BuiltinTime, Jitter, sys, rtc, rtc', real} \subseteq Nat
      /\ delta \in Int /\ sys = real
  BY <1>1, TimeAssumption DEF TimeInv, TimeTypes, ClockOK
<1>3. delta = delta_file /\ (delta = 0 \/ Time!Abs(delta) > Jitter) /\ BuiltinTime <= sys
  BY <1>1 DEF KeptOK, DeltaOK, InterruptOK
<1>4. /\ delta' = delta_file' /\ delta_file' \in Int
      /\ delta_file' = 0 \/ Time!Abs(delta_file') > Jitter
      /\ needed => Time!Abs(delta_file' - (sys - rtc')) <= Jitter
      /\ ~needed => delta_file' = 0
  BY <1>1, <1>2, <1>3, DeltaFollows
<1>5. DeltaOK' /\ InterruptOK' /\ WrittenOK'
  BY <1>1, <1>4 DEF DeltaOK, InterruptOK, WrittenOK
<1>6. LeftOK'
  <2>1. known' => device.writable \/ needed \/ Time!Abs(sys - rtc) <= Jitter
    <3>1. known' => ~Time!Unprobed
      BY <1>1
    <3>2. Time!Abs(sys - rtc) \in Int
      BY <1>2 DEF Time!Abs
    <3> QED
      BY <1>2, <3>1, <3>2 DEF Time!Unprobed
  <2>2. (known' /\ ~device.writable) => Time!Abs(delta_file' - (sys - rtc')) <= Jitter
    <3>1. CASE needed
      BY <1>4, <3>1
    <3>2. CASE ~needed /\ Time!Abs(sys - rtc) <= Jitter /\ ~device.writable
      <4>1. delta_file' = 0 /\ rtc' = rtc
        BY <1>1, <1>4, <3>2
      <4> QED
        BY <1>2, <3>2, <4>1 DEF Time!Abs
    <3> QED
      BY <2>1, <3>1, <3>2
  <2> QED
    BY <1>1, <1>2, <1>3, <2>2 DEF LeftOK
<1> QED
  BY <1>5, <1>6 DEF KeptOK

\* What is lost is not taken for known, and clocks go on together.
LEMMA RestKeepsTime ==
  ASSUME TimeInv, KeptOK,
         Time!Crash \/ Time!PowerOff \/ Time!PowerOn \/ Time!RtcLoss \/ Time!Tick
  PROVE  KeptOK'
<1>0. /\ {BuiltinTime, Jitter, sys, rtc, real, saved_time} \subseteq Nat
      /\ delta_file \in Int
  BY TimeAssumption DEF TimeInv, TimeTypes
<1>1. CASE Time!Crash \/ Time!PowerOff
  <2>1. /\ up' = FALSE /\ known' = IF up THEN ~unwritten /\ saved_time <= sys ELSE known
        /\ UNCHANGED <<sys, rtc, delta, delta_file, saved_time, device, real>>
    BY <1>1 DEF Time!Crash, Time!PowerOff, Time!Die
  <2>2. DeltaOK' /\ InterruptOK' /\ WrittenOK'
    BY <2>1 DEF KeptOK, DeltaOK, InterruptOK, WrittenOK
  <2>3. CASE up
    <3>1. sys = real /\ BuiltinTime <= sys
      BY <2>3 DEF TimeInv, ClockOK, KeptOK, InterruptOK
    <3>2. known' => ~unwritten /\ saved_time <= sys
      BY <2>1, <2>3
    <3>3. LeftOK'
      BY <1>0, <2>1, <2>3, <3>1, <3>2 DEF KeptOK, WrittenOK, LeftOK
    <3> QED
      BY <2>2, <3>3 DEF KeptOK
  <2>4. CASE ~up
    <3>1. known' = known
      BY <2>1, <2>4
    <3>2. LeftOK'
      BY <2>1, <2>4, <3>1 DEF KeptOK, LeftOK
    <3> QED
      BY <2>2, <3>2 DEF KeptOK
  <2> QED
    BY <2>3, <2>4
<1>2. CASE Time!PowerOn
  <2>1. /\ ~on /\ sys' = IF device.hctosys THEN rtc ELSE 0
        /\ known' = (known /\ ~(device.hctosys /\ delta_file < 0))
        /\ UNCHANGED <<up, rtc, delta, delta_file, saved_time, device, real>>
    BY <1>2 DEF Time!PowerOn
  <2>2. ~up
    BY <2>1 DEF TimeInv, ClockOK
  <2>3. DeltaOK' /\ InterruptOK' /\ WrittenOK'
    BY <2>1, <2>2 DEF KeptOK, DeltaOK, InterruptOK, WrittenOK
  <2>4. known' => known /\ (device.hctosys => delta_file >= 0)
    <3>1. known' => known /\ ~(device.hctosys /\ delta_file < 0)
      BY <2>1, Zenon
    <3> QED
      BY <1>0, <3>1
  <2>5. known' => sys' <= real + Jitter
    <3>1. CASE device.writable
      BY <1>0, <2>1, <2>2, <2>4, <3>1 DEF KeptOK, LeftOK
    <3>2. CASE ~device.writable
      BY <1>0, <2>1, <2>2, <2>4, <3>2 DEF KeptOK, LeftOK, Time!Abs
    <3> QED
      BY <3>1, <3>2
  <2>6. LeftOK'
    BY <2>1, <2>2, <2>4, <2>5 DEF KeptOK, LeftOK
  <2> QED
    BY <2>3, <2>6 DEF KeptOK
<1>3. CASE Time!RtcLoss
  <2>1. /\ ~on /\ known' = FALSE /\ UNCHANGED <<up, delta, delta_file>>
    BY <1>3 DEF Time!RtcLoss
  <2>2. ~up
    BY <2>1 DEF TimeInv, ClockOK
  <2> QED
    BY <2>1, <2>2 DEF KeptOK, DeltaOK, InterruptOK, WrittenOK, LeftOK
<1>4. CASE Time!Tick
  <2>1. /\ sys' = IF on THEN sys + 1 ELSE sys
        /\ rtc' = rtc + 1 /\ real' = real + 1
        /\ UNCHANGED <<on, up, delta, needed, to_system_time, delta_file, saved_time, device,
                       known, unwritten>>
    BY <1>4 DEF Time!Tick
  <2>2. real' - rtc' = real - rtc /\ (on => sys' - rtc' = sys - rtc)
    BY <1>0, <2>1
  <2>3. DeltaOK' /\ InterruptOK'
    BY <1>0, <2>1 DEF KeptOK, DeltaOK, InterruptOK, TimeInv, ClockOK
  <2>5. WrittenOK'
    BY <1>0, <2>1, <2>2 DEF KeptOK, WrittenOK, TimeInv, ClockOK
  <2>4. LeftOK'
    BY <1>0, <2>1, <2>2 DEF KeptOK, LeftOK
  <2> QED
    BY <2>3, <2>4, <2>5 DEF KeptOK
<1> QED
  BY <1>1, <1>2, <1>3, <1>4

\* The time is kept by every step.
LEMMA StepsKeepTime ==
  ASSUME TimeInv, KeptOK, Time!Next
  PROVE  KeptOK'
BY StartKeepsTime, InterruptKeepsTime, RunsKeepTime, EndKeepsTime, RestKeepsTime
DEF Time!Next


(***************************************************************************)
(* The USB tracker.                                                        *)
(***************************************************************************)
Message ==
  [type : {"owner"}, running : BOOLEAN]
    \union [type : {"mode", "signal"}, mode : Modes \union {"error"}]

UsbTypes ==
  /\ usb_moded \in [on : BOOLEAN, mode : Modes]
  /\ calls \in [mode : BOOLEAN, owner : BOOLEAN]
  /\ inbox \in Seq(Message)
  /\ {up, systembus, prev, waiting, failed, unseen} \subseteq BOOLEAN

\* Messages that usb_moded is there, that it is there or gone, and what it says.
Start(m) == m.type = "owner" /\ m.running
Owner(m) == m.type = "owner"
Status(mode) == IF Usb!evaluate_status(mode) THEN "mounted" ELSE "not mounted"

\* After the messages q, usb_moded is taken to be running, which p says of it before.
RunsAfter(q, p) ==
  \/ \E i \in 1 .. Len(q) : Start(q[i]) /\ \A j \in 1 .. Len(q) : j > i => ~Owner(q[j])
  \/ p /\ \A i \in 1 .. Len(q) : ~Owner(q[i])

\* After the messages q, it is taken to be gone.
GoneAfter(q, p) ==
  \/ \E i \in 1 .. Len(q) : /\ Owner(q[i]) /\ ~Start(q[i])
                            /\ \A j \in 1 .. Len(q) : j > i => ~Owner(q[j])
  \/ ~p /\ \A i \in 1 .. Len(q) : ~Owner(q[i])

\* One of the messages q makes the tracker ask for the mode.
Queried(q, p) ==
  \E i \in 1 .. Len(q) :
    /\ Start(q[i])
    /\ ~p \/ \E j \in 1 .. Len(q) : j < i /\ Owner(q[j]) /\ ~Start(q[j])

\* The last that the messages q say is the mode, or k has been sent and stays.
Told(q, mode, w, k) ==
  \/ \E i \in 1 .. Len(q) : /\ ~Owner(q[i]) /\ Status(q[i].mode) = Status(mode)
                            /\ \A j \in 1 .. Len(q) : j > i => Owner(q[j])
  \/ /\ \A i \in 1 .. Len(q) : Owner(q[i])
     /\ ~w /\ k = Status(mode)

\* The bus says whether usb_moded is there, or will.
SyncOK ==
  /\ ~up => ~systembus
  /\ ~systembus => inbox = <<>> /\ ~calls.mode /\ ~calls.owner /\ (prev => unseen)
  /\ systembus => \/ usb_moded.on /\ RunsAfter(inbox, prev)
                  \/ ~usb_moded.on /\ GoneAfter(inbox, prev)
                  \/ /\ calls.owner /\ (prev => unseen)
                     /\ \A i \in 1 .. Len(inbox) : ~Owner(inbox[i])

\* The tracker asks, or will, or is told.
MountOK ==
  (systembus /\ usb_moded.on /\ ~failed /\ ~unseen) =>
     \/ calls.mode \/ Queried(inbox, prev)
     \/ calls.owner /\ GoneAfter(inbox, prev)
     \/ Told(inbox, usb_moded.mode, waiting, mounted)

UsbInv == UsbTypes /\ SyncOK /\ MountOK

\* What a message that arrives changes of that.
LEMMA AfterAppend ==
  ASSUME NEW q \in Seq(Message), NEW m \in Message, NEW p, NEW mode, NEW w, NEW k
  PROVE  LET r == Append(q, m) IN
         /\ Start(m) => RunsAfter(r, p) /\ (GoneAfter(q, p) => Queried(r, p))
                        /\ (~p => Queried(r, p))
         /\ (Owner(m) /\ ~Start(m)) => GoneAfter(r, p)
         /\ ~Owner(m) => /\ RunsAfter(q, p) => RunsAfter(r, p)
                         /\ GoneAfter(q, p) => GoneAfter(r, p)
                         /\ Status(m.mode) = Status(mode) => Told(r, mode, w, k)
                         /\ (\A i \in 1 .. Len(q) : ~Owner(q[i]))
                              => \A i \in 1 .. Len(r) : ~Owner(r[i])
         /\ Queried(q, p) => Queried(r, p)
         /\ (Owner(m) /\ Told(q, mode, w, k)) => Told(r, mode, w, k)
<1> DEFINE r == Append(q, m)
           n == Len(q)
<1>1. /\ n \in Nat /\ Len(r) = n + 1
      /\ \A i \in 1 .. n : r[i] = q[i]
      /\ r[n + 1] = m
  BY AppendProperties
<1>2. Start(m) => Owner(m)
  BY DEF Start, Owner
<1> HIDE DEF r
<1>3. Start(m) => RunsAfter(r, p)
  BY <1>1 DEF RunsAfter
<1>4. (Owner(m) /\ ~Start(m)) => GoneAfter(r, p)
  BY <1>1 DEF GoneAfter
<1>5. Start(m) => (GoneAfter(q, p) => Queried(r, p)) /\ (~p => Queried(r, p))
  BY <1>1 DEF GoneAfter, Queried
<1>6. ASSUME ~Owner(m), RunsAfter(q, p)
      PROVE  RunsAfter(r, p)
  <2>1. ASSUME NEW i \in 1 .. n, Start(q[i]), \A j \in 1 .. n : j > i => ~Owner(q[j])
        PROVE  RunsAfter(r, p)
    <3>1. i \in 1 .. Len(r) /\ Start(r[i])
      BY <1>1, <2>1
    <3>2. \A j \in 1 .. Len(r) : j > i => ~Owner(r[j])
      BY <1>1, <1>6, <2>1
    <3> QED
      BY <3>1, <3>2 DEF RunsAfter
  <2>2. ASSUME p, \A i \in 1 .. n : ~Owner(q[i])
        PROVE  RunsAfter(r, p)
    BY <1>1, <1>6, <2>2 DEF RunsAfter
  <2> QED
    BY <1>6, <2>1, <2>2 DEF RunsAfter
<1>7. ~Owner(m) => (GoneAfter(q, p) => GoneAfter(r, p))
  BY <1>1 DEF GoneAfter
<1>8. ~Owner(m) => (Status(m.mode) = Status(mode) => Told(r, mode, w, k))
  BY <1>1 DEF Told
<1>9. ~Owner(m) => ((\A i \in 1 .. n : ~Owner(q[i])) => \A i \in 1 .. Len(r) : ~Owner(r[i]))
  BY <1>1
<1>10. Queried(q, p) => Queried(r, p)
  BY <1>1 DEF Queried
<1>11. (Owner(m) /\ Told(q, mode, w, k)) => Told(r, mode, w, k)
  BY <1>1 DEF Told
<1> QED
  BY <1>3, <1>4, <1>5, <1>6, <1>7, <1>8, <1>9, <1>10, <1>11 DEF r

\* What reading the first message changes of that.
LEMMA AfterTail ==
  ASSUME NEW q \in Seq(Message), q # <<>>, NEW p, NEW mode, NEW w, NEW k
  PROVE  LET h == Head(q)
             r == Tail(q) IN
         /\ Owner(h) => /\ RunsAfter(q, p) => RunsAfter(r, h.running)
                        /\ GoneAfter(q, p) => GoneAfter(r, h.running)
                        /\ Queried(q, p) => Queried(r, h.running) \/ (h.running /\ ~p)
                        /\ (~h.running /\ RunsAfter(q, p)) => Queried(r, FALSE)
                        /\ Told(q, mode, w, k) => Told(r, mode, w, k)
                        /\ ~\A i \in 1 .. Len(q) : ~Owner(q[i])
         /\ ~Owner(h) => /\ RunsAfter(q, p) => RunsAfter(r, p)
                         /\ GoneAfter(q, p) => GoneAfter(r, p)
                         /\ Queried(q, p) => Queried(r, p)
                         /\ Told(q, mode, w, k) => Told(r, mode, FALSE, Status(h.mode))
                         /\ (\A i \in 1 .. Len(q) : ~Owner(q[i]))
                              => \A i \in 1 .. Len(r) : ~Owner(r[i])
<1> DEFINE h == Head(q)
           r == Tail(q)
           n == Len(q)
<1>1. /\ n \in Nat /\ n >= 1 /\ Len(r) = n - 1 /\ h = q[1]
      /\ \A i \in 1 .. n - 1 : r[i] = q[i + 1]
  BY HeadTailProperties, EmptySeq
<1>2. \A i \in 2 .. n : q[i] = r[i - 1] /\ i - 1 \in 1 .. n - 1
  BY <1>1
<1>3. Start(h) <=> Owner(h) /\ h.running
  BY DEF Start, Owner
<1> HIDE DEF r, h, n
<1>4. CASE Owner(h)
  <2>1. RunsAfter(q, p) => RunsAfter(r, h.running)
    BY <1>1, <1>2, <1>3, <1>4 DEF RunsAfter, n
  <2>2. GoneAfter(q, p) => GoneAfter(r, h.running)
    BY <1>1, <1>2, <1>3, <1>4 DEF GoneAfter, n
  <2>3. Queried(q, p) => Queried(r, h.running) \/ (h.running /\ ~p)
    BY <1>1, <1>2, <1>3, <1>4 DEF Queried, n
  <2>4. (~h.running /\ RunsAfter(q, p)) => Queried(r, FALSE)
    BY <1>1, <1>2, <1>3, <1>4 DEF Queried, RunsAfter, n
  <2>5. Told(q, mode, w, k) => Told(r, mode, w, k)
    BY <1>1, <1>2, <1>4 DEF Told, n
  <2>6. ~\A i \in 1 .. Len(q) : ~Owner(q[i])
    BY <1>1, <1>4 DEF n
  <2> QED
    BY <1>4, <2>1, <2>2, <2>3, <2>4, <2>5, <2>6 DEF r, h
<1>5. CASE ~Owner(h)
  <2>1. ASSUME RunsAfter(q, p) PROVE RunsAfter(r, p)
    <3>1. ASSUME NEW i \in 1 .. n, Start(q[i]), \A j \in 1 .. n : j > i => ~Owner(q[j])
          PROVE  RunsAfter(r, p)
      <4>1. i \in 2 .. n
        BY <1>1, <1>3, <1>5, <3>1
      <4>2. i - 1 \in 1 .. Len(r) /\ Start(r[i - 1])
        BY <1>1, <1>2, <3>1, <4>1
      <4>3. \A j \in 1 .. Len(r) : j > i - 1 => ~Owner(r[j])
        <5> SUFFICES ASSUME NEW j \in 1 .. Len(r), j > i - 1 PROVE ~Owner(r[j])
          OBVIOUS
        <5>1. j + 1 \in 1 .. n /\ j + 1 > i /\ r[j] = q[j + 1]
          BY <1>1, <4>1
        <5> QED
          BY <3>1, <5>1
      <4> QED
        BY <4>2, <4>3 DEF RunsAfter
    <3>2. ASSUME p, \A i \in 1 .. n : ~Owner(q[i])
          PROVE  RunsAfter(r, p)
      <4>1. \A j \in 1 .. Len(r) : ~Owner(r[j])
        BY <1>1, <3>2
      <4> QED
        BY <3>2, <4>1 DEF RunsAfter
    <3> QED
      BY <2>1, <3>1, <3>2 DEF RunsAfter, n
  <2>2. GoneAfter(q, p) => GoneAfter(r, p)
    BY <1>1, <1>2, <1>5 DEF GoneAfter, n
  <2>3. ASSUME Queried(q, p) PROVE Queried(r, p)
    <3>1. PICK i \in 1 .. n :
            /\ Start(q[i])
            /\ ~p \/ \E j \in 1 .. n : j < i /\ Owner(q[j]) /\ ~Start(q[j])
      BY <2>3 DEF Queried, n
    <3>2. i # 1 /\ \A j \in 1 .. n : Owner(q[j]) => j # 1
      BY <1>1, <1>3, <1>5, <3>1
    <3>3. /\ i - 1 \in 1 .. Len(r) /\ r[i - 1] = q[i]
          /\ \A j \in 1 .. n : Owner(q[j]) => j - 1 \in 1 .. Len(r) /\ r[j - 1] = q[j]
      BY <1>1, <1>2, <3>2
    <3>4. CASE ~p
      BY <3>1, <3>3, <3>4 DEF Queried
    <3>5. ASSUME NEW j \in 1 .. n, j < i, Owner(q[j]), ~Start(q[j])
          PROVE  Queried(r, p)
      <4>1. j - 1 < i - 1 /\ j - 1 \in 1 .. Len(r) /\ r[j - 1] = q[j]
        BY <3>3, <3>5
      <4> QED
        BY <3>1, <3>3, <3>5, <4>1 DEF Queried
    <3> QED
      BY <3>1, <3>4, <3>5
  <2>4. ASSUME Told(q, mode, w, k) PROVE Told(r, mode, FALSE, Status(h.mode))
    <3>1. PICK i \in 1 .. n : /\ ~Owner(q[i]) /\ Status(q[i].mode) = Status(mode)
                              /\ \A j \in 1 .. n : j > i => Owner(q[j])
      BY <1>1, <1>5, <2>4 DEF Told, n
    <3>2. \A j \in 1 .. Len(r) : j + 1 \in 1 .. n /\ r[j] = q[j + 1]
      BY <1>1
    <3>3. CASE i = 1
      <4>1. \A j \in 1 .. Len(r) : Owner(r[j])
        BY <3>1, <3>2, <3>3
      <4>2. Status(h.mode) = Status(mode)
        BY <1>1, <3>1, <3>3
      <4> QED
        BY <4>1, <4>2 DEF Told
    <3>4. CASE i # 1
      <4>1. i - 1 \in 1 .. Len(r) /\ r[i - 1] = q[i]
        BY <1>1, <1>2, <3>4
      <4>2. \A j \in 1 .. Len(r) : j > i - 1 => Owner(r[j])
        BY <3>1, <3>2
      <4> QED
        BY <3>1, <4>1, <4>2 DEF Told
    <3> QED
      BY <3>3, <3>4
  <2>5. (\A i \in 1 .. Len(q) : ~Owner(q[i])) => \A i \in 1 .. Len(r) : ~Owner(r[i])
    BY <1>1 DEF n
  <2> QED
    BY <1>5, <2>1, <2>2, <2>3, <2>4, <2>5 DEF r, h
<1> QED
  BY <1>4, <1>5

\* The next message is read.
LEMMA ReceiveKeepsUsb ==
  ASSUME UsbInv, Usb!Receive
  PROVE  UsbInv'
<1> DEFINE h == Head(inbox)
<1>1. /\ up /\ systembus /\ inbox # <<>> /\ inbox' = Tail(inbox)
      /\ UNCHANGED <<up, systembus, usb_moded, failed>>
  BY DEF Usb!Receive
<1>2. inbox \in Seq(Message)
  BY DEF UsbInv, UsbTypes
<1>3. h \in Message /\ inbox' \in Seq(Message)
  BY <1>1, <1>2, HeadTailProperties
<1>4. CASE Owner(h)
  <2>1. h.running \in BOOLEAN
    BY <1>3, <1>4 DEF Owner, Message
  <2>2. /\ prev' = h.running
        /\ unseen' = (unseen /\ h.running = prev)
        /\ waiting' = IF h.running = prev THEN waiting ELSE ~h.running
        /\ calls' = IF h.running /\ ~prev THEN [calls EXCEPT !.mode = TRUE] ELSE calls
        /\ mounted' = mounted
    BY <1>4 DEF Usb!Receive, Usb!xusbmoded_query_owner_cb, Usb!xusbmoded_set_runstate, Owner
  <2>3. /\ prev \in BOOLEAN /\ waiting \in BOOLEAN /\ unseen \in BOOLEAN
        /\ calls \in [mode : BOOLEAN, owner : BOOLEAN]
    BY DEF UsbInv, UsbTypes
  <2>4. /\ calls' \in [mode : BOOLEAN, owner : BOOLEAN]
        /\ calls'.owner = calls.owner
        /\ (h.running /\ ~prev) => calls'.mode
        /\ ~(h.running /\ ~prev) => calls' = calls
    BY <2>2, <2>3
  <2>5. UsbTypes'
    BY <1>1, <1>3, <2>1, <2>2, <2>3, <2>4 DEF UsbInv, UsbTypes
  <2>6. /\ RunsAfter(inbox, prev) => RunsAfter(inbox', prev')
        /\ GoneAfter(inbox, prev) => GoneAfter(inbox', prev')
        /\ Queried(inbox, prev) => Queried(inbox', prev') \/ (h.running /\ ~prev)
        /\ (~h.running /\ RunsAfter(inbox, prev)) => Queried(inbox', FALSE)
        /\ Told(inbox, usb_moded.mode, waiting, mounted)
             => Told(inbox', usb_moded.mode, waiting, mounted)
        /\ ~\A i \in 1 .. Len(inbox) : ~Owner(inbox[i])
    BY <1>1, <1>2, <1>4, <2>2, AfterTail
  <2>7. SyncOK'
    BY <1>1, <2>6 DEF UsbInv, SyncOK
  <2>8. MountOK'
    <3>1. CASE h.running /\ ~prev
      BY <2>4, <3>1 DEF MountOK
    <3>2. CASE ~h.running /\ prev
      <4>1. prev' = FALSE
        BY <2>1, <2>2, <3>2
      <4>2. usb_moded.on => Queried(inbox', prev')
        BY <1>1, <2>6, <3>2, <4>1 DEF UsbInv, SyncOK
      <4> QED
        BY <1>1, <4>2 DEF MountOK
    <3>3. CASE h.running = prev
      <4>1. UNCHANGED <<prev, waiting, calls, mounted, usb_moded, failed, systembus>>
        BY <1>1, <2>1, <2>2, <2>3, <3>3
      <4>2. unseen' = unseen
        BY <2>2, <2>3, <3>3
      <4> QED
        BY <2>6, <3>3, <4>1, <4>2 DEF UsbInv, MountOK
    <3> QED
      BY <2>1, <2>3, <3>1, <3>2, <3>3
  <2> QED
    BY <2>5, <2>7, <2>8 DEF UsbInv
<1>5. CASE ~Owner(h)
  <2>1. /\ waiting' = FALSE /\ mounted' = Status(h.mode)
        /\ UNCHANGED <<prev, calls>>
        /\ unseen' \in {unseen, unseen \/ ~prev}
    BY <1>5 DEF Usb!Receive, Usb!xusbmoded_mode_changed_cb, Usb!xusbmoded_query_mode_cb,
                Usb!update_status, Owner, Status
  <2>2. unseen' \in BOOLEAN /\ (unseen => unseen')
    BY <2>1 DEF UsbInv, UsbTypes
  <2>3. UsbTypes'
    BY <1>1, <1>3, <2>1, <2>2 DEF UsbInv, UsbTypes
  <2>4. /\ RunsAfter(inbox, prev) => RunsAfter(inbox', prev)
        /\ GoneAfter(inbox, prev) => GoneAfter(inbox', prev)
        /\ Queried(inbox, prev) => Queried(inbox', prev)
        /\ Told(inbox, usb_moded.mode, waiting, mounted)
             => Told(inbox', usb_moded.mode, FALSE, Status(h.mode))
        /\ (\A i \in 1 .. Len(inbox) : ~Owner(inbox[i]))
             => \A i \in 1 .. Len(inbox') : ~Owner(inbox'[i])
    BY <1>1, <1>2, <1>5, AfterTail
  <2>5. SyncOK'
    BY <1>1, <2>1, <2>2, <2>4 DEF UsbInv, SyncOK
  <2>6. MountOK'
    BY <1>1, <2>1, <2>2, <2>4 DEF UsbInv, MountOK
  <2> QED
    BY <2>3, <2>5, <2>6 DEF UsbInv
<1> QED
  BY <1>4, <1>5

\* The wait for usb_moded ends, and the tracker is connected, loaded and unloaded.
LEMMA TrackerKeepsUsb ==
  ASSUME UsbInv,
         \/ Usb!wait_for_usb_moded_cb \/ Usb!DBUS_CONNECTED \/ Usb!DBUS_DISCONNECT
         \/ Usb!module_init \/ Usb!module_fini
  PROVE  UsbInv'
<1> USE DEF UsbInv
<1>0. Len(<< >>) = 0 /\ << >> \in Seq(Message)
  BY EmptySeq
<1>1. CASE Usb!wait_for_usb_moded_cb
  <2>1. /\ waiting /\ waiting' = FALSE
        /\ UNCHANGED <<up, systembus, prev, inbox, calls, usb_moded, failed, unseen>>
    BY <1>1 DEF Usb!wait_for_usb_moded_cb, Usb!update_status
  <2>2. Told(inbox, usb_moded.mode, waiting, mounted)
          => Told(inbox, usb_moded.mode, FALSE, mounted')
    BY <2>1 DEF Told
  <2> QED
    BY <2>1, <2>2 DEF UsbTypes, SyncOK, MountOK
<1>2. CASE Usb!DBUS_CONNECTED
  <2>1. /\ up /\ ~systembus /\ systembus' = TRUE
        /\ calls' = [calls EXCEPT !.owner = TRUE]
        /\ UNCHANGED <<up, prev, waiting, mounted, inbox, usb_moded, failed, unseen>>
    BY <1>2 DEF Usb!DBUS_CONNECTED
  <2>2. calls' \in [mode : BOOLEAN, owner : BOOLEAN] /\ calls'.owner
    BY <2>1 DEF UsbTypes
  <2>3. inbox = << >> /\ (prev => unseen)
    BY <2>1 DEF SyncOK
  <2>4. SyncOK'
    BY <1>0, <2>1, <2>2, <2>3 DEF SyncOK
  <2>5. ~prev => GoneAfter(inbox', prev')
    BY <1>0, <2>1, <2>3 DEF GoneAfter
  <2>6. MountOK'
    BY <2>1, <2>2, <2>3, <2>5 DEF MountOK
  <2> QED
    BY <2>1, <2>2, <2>4, <2>6 DEF UsbTypes
<1>3. CASE Usb!DBUS_DISCONNECT
  <2>1. /\ up /\ systembus' = FALSE /\ inbox' = << >>
        /\ calls' = [mode |-> FALSE, owner |-> FALSE]
        /\ unseen' = (unseen \/ prev)
        /\ UNCHANGED <<up, prev, waiting, mounted, usb_moded, failed>>
    BY <1>3 DEF Usb!DBUS_DISCONNECT
  <2>2. calls' \in [mode : BOOLEAN, owner : BOOLEAN] /\ ~calls'.mode /\ ~calls'.owner
    BY <2>1
  <2>3. unseen' \in BOOLEAN /\ (prev => unseen')
    BY <2>1 DEF UsbTypes
  <2> QED
    BY <1>0, <2>1, <2>2, <2>3 DEF UsbTypes, SyncOK, MountOK
<1>4. CASE Usb!module_init
  <2>1. /\ ~up /\ up' = TRUE /\ waiting' = TRUE
        /\ UNCHANGED <<systembus, prev, mounted, inbox, calls, usb_moded, failed, unseen>>
    BY <1>4 DEF Usb!module_init
  <2> QED
    BY <2>1 DEF UsbTypes, SyncOK, MountOK
<1>5. CASE Usb!module_fini
  <2>1. /\ up' = FALSE /\ systembus' = FALSE /\ prev' = FALSE /\ waiting' = FALSE
        /\ inbox' = << >> /\ unseen' = FALSE
        /\ calls' = [mode |-> FALSE, owner |-> FALSE]
        /\ UNCHANGED <<usb_moded, failed>>
    BY <1>5 DEF Usb!module_fini
  <2>2. calls' \in [mode : BOOLEAN, owner : BOOLEAN] /\ ~calls'.mode /\ ~calls'.owner
    BY <2>1
  <2> QED
    BY <1>0, <2>1, <2>2 DEF UsbTypes, SyncOK, MountOK
<1> QED
  BY <1>1, <1>2, <1>3, <1>4, <1>5

\* usb_moded starts, changes its mode and dies.
LEMMA UsbModedKeepsUsb ==
  ASSUME UsbInv,
         \/ \E mode \in Modes : Usb!UsbModedStarts(mode) \/ Usb!UsbModedChanges(mode)
         \/ Usb!UsbModedDies
  PROVE  UsbInv'
<1> USE DEF UsbInv
<1>0. inbox \in Seq(Message) /\ calls \in [mode : BOOLEAN, owner : BOOLEAN]
  BY DEF UsbTypes
<1>1. ASSUME NEW mode \in Modes, Usb!UsbModedStarts(mode)
      PROVE  UsbInv'
  <2> DEFINE m == [type |-> "owner", running |-> TRUE]
  <2>1. /\ ~usb_moded.on /\ usb_moded' = [on |-> TRUE, mode |-> mode]
        /\ inbox' = IF systembus THEN Append(inbox, m) ELSE inbox
        /\ failed' = FALSE
        /\ UNCHANGED <<up, systembus, prev, waiting, mounted, calls, unseen>>
    BY <1>1 DEF Usb!UsbModedStarts, Usb!Send
  <2>2. m \in Message /\ Start(m)
    BY DEF Message, Start
  <2>3. usb_moded' \in [on : BOOLEAN, mode : Modes] /\ usb_moded'.on
    BY <2>1
  <2> HIDE DEF m
  <2>4. inbox' \in Seq(Message)
    BY <1>0, <2>1, <2>2, AppendProperties
  <2>5. UsbTypes'
    BY <2>1, <2>3, <2>4 DEF UsbTypes
  <2>6. CASE systembus
    <3>0. inbox' = Append(inbox, m)
      BY <2>1, <2>6
    <3>1. /\ RunsAfter(inbox', prev)
          /\ GoneAfter(inbox, prev) => Queried(inbox', prev)
          /\ ~prev => Queried(inbox', prev)
      <4> DEFINE q == inbox
                 r == Append(q, m)
      <4>1. q \in Seq(Message) /\ m \in Message /\ Start(m) /\ inbox' = r
        BY <1>0, <2>2, <3>0
      <4>2. /\ RunsAfter(r, prev)
            /\ GoneAfter(q, prev) => Queried(r, prev)
            /\ ~prev => Queried(r, prev)
        <5> HIDE DEF q
        <5> QED BY ONLY <4>1, AfterAppend
      <4> QED BY <4>1, <4>2
    <3>2. Queried(inbox', prev) \/ unseen
      BY <2>1, <2>6, <3>1 DEF SyncOK
    <3> QED
      BY <2>1, <2>3, <2>5, <2>6, <3>1, <3>2 DEF SyncOK, MountOK
  <2>7. CASE ~systembus
    BY <2>1, <2>5, <2>7 DEF SyncOK, MountOK
  <2> QED
    BY <2>6, <2>7
<1>2. ASSUME NEW mode \in Modes, Usb!UsbModedChanges(mode)
      PROVE  UsbInv'
  <2> DEFINE m == [type |-> "signal", mode |-> mode]
  <2>1. /\ usb_moded.on /\ usb_moded' = [usb_moded EXCEPT !.mode = mode]
        /\ inbox' = IF systembus THEN Append(inbox, m) ELSE inbox
        /\ failed' = FALSE
        /\ UNCHANGED <<up, systembus, prev, waiting, mounted, calls, unseen>>
    BY <1>2 DEF Usb!UsbModedChanges, Usb!Send
  <2>2. m \in Message /\ ~Owner(m) /\ m.mode = mode
    BY DEF Message, Owner
  <2>3. /\ usb_moded' \in [on : BOOLEAN, mode : Modes]
        /\ usb_moded'.on = usb_moded.on /\ usb_moded'.mode = mode
    BY <2>1 DEF UsbTypes
  <2> HIDE DEF m
  <2>4. inbox' \in Seq(Message)
    BY <1>0, <2>1, <2>2, AppendProperties
  <2>5. UsbTypes'
    BY <2>1, <2>3, <2>4 DEF UsbTypes
  <2>6. CASE systembus
    <3>1. Status(m.mode) = Status(usb_moded'.mode)
      BY <2>2, <2>3
    <3>2. /\ RunsAfter(inbox, prev) => RunsAfter(inbox', prev)
          /\ (\A i \in 1 .. Len(inbox) : ~Owner(inbox[i]))
               => \A i \in 1 .. Len(inbox') : ~Owner(inbox'[i])
          /\ Status(m.mode) = Status(mode) => Told(inbox', mode, waiting, mounted)
      <4>1. inbox' = Append(inbox, m)
        BY <2>1, <2>6
      <4> QED
        BY <1>0, <2>2, <4>1, AfterAppend
    <3>3. Told(inbox', usb_moded'.mode, waiting', mounted')
      BY <2>1, <2>3, <3>1, <3>2
    <3> QED
      BY <2>1, <2>3, <2>5, <2>6, <3>2, <3>3 DEF SyncOK, MountOK
  <2>7. CASE ~systembus
    BY <2>1, <2>5, <2>7 DEF SyncOK, MountOK
  <2> QED
    BY <2>6, <2>7
<1>3. CASE Usb!UsbModedDies
  <2> DEFINE m == [type |-> "owner", running |-> FALSE]
             e == [type |-> "mode", mode |-> "error"]
             q == inbox \o (IF calls.mode THEN <<e>> ELSE <<>>)
  <2>1. /\ usb_moded' = [usb_moded EXCEPT !.on = FALSE]
        /\ inbox' = IF systembus THEN q \o <<m>> ELSE inbox
        /\ calls' = [calls EXCEPT !.mode = FALSE]
        /\ UNCHANGED <<up, systembus, prev, waiting, mounted, failed, unseen>>
    BY <1>3 DEF Usb!UsbModedDies
  <2>2. m \in Message /\ e \in Message /\ Owner(m) /\ ~Start(m)
    BY DEF Message, Owner, Start
  <2>3. usb_moded' \in [on : BOOLEAN, mode : Modes] /\ ~usb_moded'.on
    BY <2>1 DEF UsbTypes
  <2>4. calls' \in [mode : BOOLEAN, owner : BOOLEAN] /\ calls'.owner = calls.owner
        /\ ~calls'.mode
    BY <2>1 DEF UsbTypes
  <2> HIDE DEF m, e
  <2>5. q \in Seq(Message)
    <3>1. <<e>> \in Seq(Message) /\ << >> \in Seq(Message)
      BY <2>2
    <3> QED
      BY <1>0, <3>1, ConcatProperties
  <2> HIDE DEF q
  <2>6. q \o <<m>> = Append(q, m) /\ Append(q, m) \in Seq(Message)
    BY <2>2, <2>5, AppendIsConcat, AppendProperties
  <2>7. UsbTypes'
    BY <1>0, <2>1, <2>3, <2>4, <2>6 DEF UsbTypes
  <2>8. systembus => GoneAfter(inbox', prev)
    <3>1. GoneAfter(Append(q, m), prev)
      BY <2>2, <2>5, AfterAppend
    <3> QED
      BY <2>1, <2>6, <3>1
  <2> QED
    BY <2>1, <2>3, <2>4, <2>7, <2>8 DEF SyncOK, MountOK
<1> QED
  BY <1>1, <1>2, <1>3

\* Calls are answered, or fail.
LEMMA AnswersKeepUsb ==
  ASSUME UsbInv, Usb!AnswerMode \/ Usb!AnswerOwner
  PROVE  UsbInv'
<1> USE DEF UsbInv
<1>0. /\ inbox \in Seq(Message) /\ calls \in [mode : BOOLEAN, owner : BOOLEAN]
      /\ usb_moded \in [on : BOOLEAN, mode : Modes]
  BY DEF UsbTypes
<1>1. CASE Usb!AnswerMode
  <2>1. /\ calls.mode /\ calls' = [calls EXCEPT !.mode = FALSE]
        /\ UNCHANGED <<up, systembus, prev, waiting, mounted, usb_moded, unseen>>
    BY <1>1 DEF Usb!AnswerMode
  <2>2. /\ calls' \in [mode : BOOLEAN, owner : BOOLEAN] /\ calls'.owner = calls.owner
        /\ systembus
    BY <1>0, <2>1 DEF SyncOK
  <2>3. PICK mode \in Modes \union {"error"} :
          /\ inbox' = Append(inbox, [type |-> "mode", mode |-> mode])
          /\ failed' = FALSE => mode = usb_moded.mode
          /\ failed' \in BOOLEAN
    <3>1. CASE Usb!Send([type |-> "mode", mode |-> usb_moded.mode]) /\ failed' = FALSE
      BY <1>0, <2>2, <3>1 DEF Usb!Send
    <3>2. CASE Usb!Send([type |-> "mode", mode |-> "error"]) /\ failed' = TRUE
      BY <2>2, <3>2 DEF Usb!Send
    <3> QED
      BY <1>1, <3>1, <3>2 DEF Usb!AnswerMode
  <2> DEFINE m == [type |-> "mode", mode |-> mode]
  <2>4. m \in Message /\ ~Owner(m) /\ m.mode = mode
    BY DEF Message, Owner
  <2>5. inbox' = Append(inbox, m)
    BY <2>3
  <2> HIDE DEF m
  <2>6. inbox' \in Seq(Message)
    BY <1>0, <2>4, <2>5, AppendProperties
  <2>7. /\ RunsAfter(inbox, prev) => RunsAfter(inbox', prev)
        /\ GoneAfter(inbox, prev) => GoneAfter(inbox', prev)
        /\ (\A i \in 1 .. Len(inbox) : ~Owner(inbox[i]))
             => \A i \in 1 .. Len(inbox') : ~Owner(inbox'[i])
        /\ Status(m.mode) = Status(usb_moded.mode)
             => Told(inbox', usb_moded.mode, waiting, mounted)
    BY <1>0, <2>4, <2>5, AfterAppend
  <2>8. ~failed' => Told(inbox', usb_moded.mode, waiting, mounted)
    BY <2>3, <2>4, <2>7
  <2> QED
    BY <2>1, <2>2, <2>3, <2>6, <2>7, <2>8 DEF UsbTypes, SyncOK, MountOK
<1>2. CASE Usb!AnswerOwner
  <2> DEFINE m == [type |-> "owner", running |-> usb_moded.on]
  <2>1. /\ calls.owner /\ calls' = [calls EXCEPT !.owner = FALSE]
        /\ inbox' = IF systembus THEN Append(inbox, m) ELSE inbox
        /\ UNCHANGED <<up, systembus, prev, waiting, mounted, usb_moded, failed, unseen>>
    BY <1>2 DEF Usb!AnswerOwner, Usb!Send
  <2>2. /\ calls' \in [mode : BOOLEAN, owner : BOOLEAN] /\ calls'.mode = calls.mode
        /\ systembus
    BY <1>0, <2>1 DEF SyncOK
  <2>3. /\ usb_moded.on \in BOOLEAN
        /\ Owner(m) /\ m.running = usb_moded.on /\ m.type = "owner"
    BY <1>0 DEF Owner
  <2>4. m \in Message
    BY <2>3 DEF Message
  <2>5. Start(m) <=> usb_moded.on
    BY <2>3 DEF Start
  <2>6. inbox' = Append(inbox, m)
    BY <2>1, <2>2
  <2> HIDE DEF m
  <2>7. inbox' \in Seq(Message)
    BY <1>0, <2>4, <2>6, AppendProperties
  <2>8. /\ Start(m) => RunsAfter(inbox', prev) /\ (GoneAfter(inbox, prev) => Queried(inbox', prev))
        /\ (Owner(m) /\ ~Start(m)) => GoneAfter(inbox', prev)
        /\ Queried(inbox, prev) => Queried(inbox', prev)
        /\ (Owner(m) /\ Told(inbox, usb_moded.mode, waiting, mounted))
             => Told(inbox', usb_moded.mode, waiting, mounted)
    BY <1>0, <2>4, <2>6, AfterAppend
  <2> QED
    BY <2>1, <2>2, <2>3, <2>5, <2>7, <2>8 DEF UsbTypes, SyncOK, MountOK
<1> QED
  BY <1>1, <1>2

\* The USB tracker keeps its invariant.
LEMMA UsbKeepsInv ==
  ASSUME UsbInv, Usb!Next
  PROVE  UsbInv'
BY ReceiveKeepsUsb, TrackerKeepsUsb, UsbModedKeepsUsb, AnswersKeepUsb DEF Usb!Next


(***************************************************************************)
(* dsme with one of them.                                                  *)
(***************************************************************************)
SInv ==
  /\ plugin = "alarmtracker" => AlarmInv
  /\ plugin = "dbusautoconnector" => BusInv
  /\ plugin = "iphb" => TimeInv /\ KeptOK
  /\ plugin = "usbtracker" => UsbInv

\* The initial state satisfies all of them.
LEMMA InitSInv == Init => SInv
<1> SUFFICES ASSUME Init PROVE SInv
  OBVIOUS
<1>1. AlarmInv
  BY DEF Init, Alarm!Init, AlarmInv, AlarmTypes, SaveOK, AnnounceOK, Times
<1>2. BusInv
  BY DEF Init, Dbus!Init, BusInv, BusTypes, BoundOK, MatchesOK, NameOK, Dbus!Unowned
<1>3. TimeInv
  <2>1. up = FALSE /\ wanted = 0 /\ status_file = 0 /\ floor = 0
    BY DEF Init, Time!Init
  <2>2. RequestOK /\ ClockOK /\ RtcAlarmOK
    BY <2>1, TimeAssumption DEF RequestOK, ClockOK, RtcAlarmOK
  <2>3. TimeTypes
    BY DEF Init, Time!Init, TimeTypes
  <2> QED
    BY <2>2, <2>3 DEF TimeInv
<1>4. KeptOK
  BY DEF Init, Time!Init, KeptOK, DeltaOK, InterruptOK, WrittenOK, LeftOK
<1>5. UsbInv
  <2>1. /\ up = FALSE /\ systembus = FALSE /\ inbox = << >> /\ prev = FALSE
        /\ waiting = FALSE /\ failed = FALSE /\ unseen = FALSE
        /\ calls = [mode |-> FALSE, owner |-> FALSE]
        /\ usb_moded \in [on : BOOLEAN, mode : Modes]
    BY DEF Init, Usb!Init
  <2>2. calls \in [mode : BOOLEAN, owner : BOOLEAN] /\ ~calls.mode /\ ~calls.owner
    BY <2>1
  <2>3. << >> \in Seq(Message)
    OBVIOUS
  <2> QED
    BY <2>1, <2>2, <2>3 DEF UsbInv, UsbTypes, SyncOK, MountOK
<1> QED
  BY <1>1, <1>2, <1>3, <1>4, <1>5 DEF SInv

\* A step is one of the plug-in that is looked at.
LEMMA NextSInv == SInv /\ [Next]_vars => SInv'
<1> SUFFICES ASSUME SInv, [Next]_vars PROVE SInv'
  OBVIOUS
<1>1. CASE plugin = "alarmtracker" /\ plugin' = plugin /\ Alarm!Next
  BY <1>1, AlarmKeepsInv DEF SInv
<1>2. CASE plugin = "dbusautoconnector" /\ plugin' = plugin /\ Dbus!Next
  BY <1>2, BusKeepsInv DEF SInv
<1>3. CASE plugin = "iphb" /\ plugin' = plugin /\ Time!Next
  BY <1>3, TimeKeepsInv, StepsKeepTime DEF SInv
<1>4. CASE plugin = "usbtracker" /\ plugin' = plugin /\ Usb!Next
  BY <1>4, UsbKeepsInv DEF SInv
<1>5. CASE UNCHANGED vars
  <2>1. AlarmInv => AlarmInv'
    BY <1>5, AnnouncedStays DEF vars, alarmVars, AlarmInv, AlarmTypes, SaveOK, AnnounceOK
  <2>2. BusInv => BusInv'
    BY <1>5, BusStays DEF vars, dbusVars, Dbus!bindings
  <2>3. TimeInv /\ KeptOK => TimeInv' /\ KeptOK'
    BY <1>5 DEF vars, timeVars, TimeInv, TimeTypes, ClockOK, RequestOK, RtcAlarmOK, KeptOK,
                DeltaOK, InterruptOK, WrittenOK, LeftOK
  <2>4. UsbInv => UsbInv'
    BY <1>5 DEF vars, usbVars, UsbInv, UsbTypes, SyncOK, MountOK
  <2> QED
    BY <1>5, <2>1, <2>2, <2>3, <2>4 DEF SInv, vars
<1> QED
  BY <1>1, <1>2, <1>3, <1>4, <1>5 DEF Next

\* The invariants of the four plug-ins hold in every behaviour.
THEOREM PluginSafety == Spec => []SInv
BY InitSInv, NextSInv, PTL DEF Spec

\* alarmtracker.c: whenever dsme dies, the alarm file holds a whole time, and while it
\* is not the last that timed reported a save is on its way, unless one failed.
THEOREM AlarmFileSurvives == Spec => []AlarmFileWhole
<1>1. SInv => AlarmFileWhole
  BY TimesAreInts
  DEF SInv, AlarmInv, AlarmTypes, SaveOK, AlarmFileWhole, Alarm!AlarmFileWhole
<1> QED
  BY <1>1, PluginSafety, PTL

\* alarmtracker.c: state.c knows of an alarm exactly when it rings or is at most a
\* snooze away, for every sequence of reports, restarts and state changes.
THEOREM AlarmsAnnounced == Spec => []AlarmAnnounced
<1>1. SInv => AlarmAnnounced
  <2> SUFFICES ASSUME AlarmInv, up, evaluate_id # 0, ~slept
               PROVE  alarm_set = Alarm!AlarmSet(current, dsmestate)
    BY DEF SInv, AlarmAnnounced, Alarm!AlarmAnnounced
  <2>1. Announced
    BY DEF AlarmInv, AnnounceOK
  <2>2. CASE alarm_set = TRUE /\ Alarm!AlarmSet(current, dsmestate)
    BY <2>2, Zenon DEF Alarm!AlarmSet
  <2>3. CASE alarm_set = FALSE /\ ~Alarm!AlarmSet(current, dsmestate)
    BY <2>3 DEF Alarm!AlarmSet
  <2> QED
    BY <2>1, <2>2, <2>3 DEF Announced
<1> QED
  BY <1>1, PluginSafety, PTL

\* iphb.c: a device that is off when it is time to start up for an alarm of timed has
\* been started by its rtc.
THEOREM AlarmStartsDevice == Spec => []AlarmPowersUp
<1>1. SInv => AlarmPowersUp
  BY DEF SInv, TimeInv, ClockOK, RtcAlarmOK, AlarmPowersUp, Time!AlarmPowersUp
<1> QED
  BY <1>1, PluginSafety, PTL

\* iphb.c: over regular ends, crashes and power losses the next start, and its first
\* update interrupt, find the time again to within the jitter, from the rtc or the
\* difference in the file, but for the cases that known leaves out: see TimeKept.
THEOREM TimeIsKept == Spec => TimeKept
<1>1. SInv /\ [Next]_vars =>
        [(plugin = "iphb" /\ (Time!module_init \/ Time!rtc_handle_input) /\ known)
           => Time!Abs(sys' - real) <= Jitter]_vars
  BY StartKeepsTime, InterruptKeepsTime DEF SInv
<1> QED
  BY <1>1, PluginSafety, PTL DEF Spec, TimeKept

\* usbtracker.c: when nothing is under way state.c has been told what usb_moded says.
THEOREM MountIsTracked == Spec => []MountTracked
<1>1. SInv => MountTracked
  <2> SUFFICES ASSUME UsbInv, up, systembus, usb_moded.on, inbox = << >>, ~calls.mode,
                      ~calls.owner, ~failed, ~unseen
               PROVE  mounted = Status(usb_moded.mode)
    BY DEF SInv, MountTracked, Usb!MountTracked, Status
  <2>1. Len(inbox) = 0
    OBVIOUS
  <2> QED
    BY <2>1 DEF UsbInv, MountOK, Queried, Told
<1> QED
  BY <1>1, PluginSafety, PTL

\* dsme_dbus.c: on every connection dbus-daemon has exactly the match rules of the
\* bound handlers and, unless somebody else has it, the name of the service.
THEOREM BusStaysInStep == Spec => []BusInStep
<1>1. SInv => BusInStep
  <2> SUFFICES ASSUME BusInv PROVE Dbus!BusInStep
    BY DEF SInv, BusInStep
  <2>1. conn = "open" => rules = handlers /\ name = service.se_acquired
    BY DEF BusInv, MatchesOK, NameOK
  <2>2. conn = "open" => service.se_requested = (members # {})
    <3>1. service.se_requested \in BOOLEAN
      BY DEF BusInv, BusTypes
    <3> QED
      BY <3>1 DEF BusInv, NameOK
  <2>3. handlers \union members \subseteq loaded
    BY DEF BusInv, BoundOK
  <2> QED
    BY <2>1, <2>2, <2>3 DEF Dbus!BusInStep, Dbus!Open
<1> QED
  BY <1>1, PluginSafety, PTL

=============================================================================
