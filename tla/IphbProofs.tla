----------------------------- MODULE IphbProofs -----------------------------
(***************************************************************************)
(* Proofs about the IP heartbeat service: for any clients, requests, table *)
(* of windows, interfaces and lengths of tick, second, slot and heartbeat, *)
(* a scheduled check holds its wakelock, the alarm covers the first client *)
(* as well as the age of the scan's time stamp allows, and a client that   *)
(* wants to be resumed is woken in time.                                   *)
(***************************************************************************)
EXTENDS Iphb, FiniteSetTheorems, WellFoundedInduction, TLAPS

USE DEF scanning

(***************************************************************************)
(* The inductive invariant.                                                *)
(***************************************************************************)
Types ==
  /\ now \in Nat
  /\ heartbeat \in 0 .. HEARTBEAT_INTERVAL * TPS
  /\ wakeup_timer \in {Off} \cup Nat
  /\ \A c \in DOMAIN clients : clients[c] \in ClientType
  /\ timed \in [alarm_powerup : Nat, alarm_resume : Nat]
  /\ suspended \in BOOLEAN /\ running \in BOOLEAN /\ wakeup_clients_id \in BOOLEAN
  /\ tv_now \in {Off} \cup 0 .. now /\ lag \in Nat
  /\ rtc_ok \in BOOLEAN /\ irq \in BOOLEAN
  /\ unguarded \in BOOLEAN

\* No window ends before it begins.
Windows(cl) == \A c \in Started(cl) : cl[c].mintime <= cl[c].maxtime

\* A device whose need has ended has none, and its alarm is ahead.
DevOK(d, t) ==
  /\ d \in DevType
  /\ d.ended_id => d.need = {}
  /\ d.alarm # Off => d.alarm > t

\* What rtc_set_alarm_raw() remembers to have programmed is the alarm of the
\* rtc, or one that has gone off since; the other interfaces do not use it.
PrevOK(d, t) ==
  /\ d.iface # "rtc" => d.prev = <<Off, "unset">>
  /\ (d.iface = "rtc" /\ d.prev[2] = "on") =>
       d.alarm = d.prev[1] * TPS \/ (d.alarm = Off /\ d.prev[1] * TPS <= t)

\* Locks and interrupts keep the device from suspending, and a module that is
\* not loaded has no clients, scan or timer.
SuspendOK ==
  /\ suspended => wakelocks = {} /\ ~irq
  /\ ~running => DOMAIN clients = {} /\ ~scanning /\ wakeup_timer = Off

\* The alarm stands for a client, or has gone off for it.
ByAlarm(c) ==
  /\ Watched
  /\ irq \/ (dev.armed /\ dev.alarm # Off /\ dev.alarm < clients[c].maxtime + TPS)

\* An alarm programmed from an old time stamp is one of the gaps.
StampOK == ~unguarded => lag = 0

\* Somebody will come for every client that wants to be resumed.
WakeOK ==
  (running /\ ~unguarded) =>
     \A c \in Resumed : /\ now < clients[c].maxtime + TPS
                        /\ wakeup_clients_id \/ scanning \/ InTime(c) \/ ByAlarm(c)

IInv ==
  /\ Types
  /\ Windows(clients)
  /\ DevOK(dev, now)
  /\ running => PrevOK(dev, now)
  /\ SuspendOK
  /\ CheckHoldsLock
  /\ AlarmCovers
  /\ StampOK
  /\ WakeOK
-----------------------------------------------------------------------------
(***************************************************************************)
(* Seconds, and the first of a set of times.                               *)
(***************************************************************************)
\* A set of natural numbers that is not empty has a least one, which is the one
\* that Min chooses: the scans of the client list find the first client.
LEMMA MinExists ==
  ASSUME NEW S, S \subseteq Nat, S # {}
  PROVE  /\ Min(S) \in S
         /\ \A y \in S : Min(S) <= y
<1>1. PICK n \in S : TRUE
  OBVIOUS
<1> DEFINE R == StrictSubsetOrdering(0 .. n)
           T == {0 .. y : y \in {z \in S : z <= n}}
<1>2. IsFiniteSet(0 .. n) /\ n \in Nat
  BY <1>1, FS_Interval
<1>3. IsWellFoundedOn(R, SUBSET (0 .. n))
  BY <1>2, FS_StrictSubsetOrderingWellFounded, FS_FiniteSubsetsOfFinite
<1>4. T \subseteq SUBSET (0 .. n) /\ T # {}
  BY <1>2
<1>5. PICK t \in T : \A u \in T : ~ (<<u, t>> \in R)
  <2> HIDE DEF R, T
  <2> QED BY <1>3, <1>4, WFMin
<1>6. PICK x \in S : x <= n /\ t = 0 .. x
  BY <1>5
<1>7. \A y \in S : x <= y
  <2> SUFFICES ASSUME NEW y \in S, ~(x <= y) PROVE FALSE
    OBVIOUS
  <2>1. x \in Nat /\ y \in Nat /\ y < x /\ y <= n
    BY <1>2, <1>6
  <2>2. 0 .. y \in T
    BY <2>1
  <2>3. (0 .. y) \subseteq (0 .. x) /\ 0 .. y # 0 .. x
    <3>1. x \in 0 .. x /\ x \notin 0 .. y
      BY <2>1
    <3> QED BY <3>1, <2>1
  <2>4. <<0 .. y, 0 .. x>> \in R
    BY <1>2, <1>6, <2>1, <2>3 DEF StrictSubsetOrdering
  <2> QED BY <1>5, <1>6, <2>2, <2>4
<1> QED BY <1>7 DEF Min

\* The lengths of tick, second, heartbeat and longest sleep are positive.
LEMMA Lengths ==
  /\ TPS \in Nat \ {0} /\ HEARTBEAT_INTERVAL \in Nat \ {0}
  /\ PERIOD_SLOTSIZE \in Nat \ {0} /\ MAXIMUM_WAKEUP \in Nat \ {0}
  /\ UpdateRounds \in Nat \ {0} /\ BOOT_ESTIMATE \in Nat \ {0}
BY IphbAssumption

\* A time stamp is within its second.
LEMMA SecBounds ==
  ASSUME NEW t \in Int
  PROVE  /\ Sec(t) \in Int
         /\ Sec(t) * TPS \in Int
         /\ Sec(t) * TPS <= t
         /\ t < Sec(t) * TPS + TPS
BY Lengths DEF Sec

\* Seconds and ticks are ordered alike.
LEMMA TicksGrow ==
  ASSUME NEW a \in Int, NEW b \in Int
  PROVE  /\ a * TPS \in Int /\ b * TPS \in Int
         /\ (a + b) * TPS = a * TPS + b * TPS
         /\ (b - a) * TPS = b * TPS - a * TPS
         /\ a <= b => a * TPS <= b * TPS
         /\ a < b => a * TPS + TPS <= b * TPS
BY Lengths

\* The seconds of a later time stamp are no fewer.
LEMMA SecGrows ==
  ASSUME NEW t \in Int, NEW u \in Int, t <= u
  PROVE  Sec(t) <= Sec(u)
<1>1. Sec(t) \in Int /\ Sec(u) \in Int
  BY SecBounds
<1>2. ASSUME Sec(u) < Sec(t) PROVE FALSE
  <2>1. Sec(u) * TPS + TPS <= Sec(t) * TPS
    BY <1>1, <1>2, TicksGrow
  <2> QED BY <2>1, SecBounds, Lengths, TicksGrow, <1>1
<1> QED BY <1>1, <1>2
-----------------------------------------------------------------------------
(***************************************************************************)
(* The rtc device.                                                         *)
(***************************************************************************)
\* rtc_attach() keeps the device in order, and the alarm as it is.
LEMMA Attached ==
  ASSUME NEW d, NEW t, DevOK(d, t)
  PROVE  LET a == rtc_attach(d) IN
         /\ DevOK(a, t)
         /\ a.iface = d.iface /\ a.prev = d.prev /\ a.alarm = d.alarm
         /\ a.armed = d.armed
         /\ d.need \subseteq a.need
         /\ d.fd => a.fd
<1> DEFINE n == IF d.initialized THEN d.need ELSE d.need \cup {"UPDATES"}
           i == IF d.initialized THEN [d EXCEPT !.fd = TRUE]
                ELSE systemtime_init([d EXCEPT !.fd = TRUE])
<1>1. CASE d.fd \/ ~rtc_ok
  BY <1>1 DEF rtc_attach
<1>2. CASE ~(d.fd \/ ~rtc_ok)
  <2>1. rtc_attach(d) = rtc_set_need(i, i.need)
    BY <1>2 DEF rtc_attach
  <2>2. /\ i \in DevType /\ i.need = n /\ i.fd = TRUE
        /\ i.iface = d.iface /\ i.prev = d.prev /\ i.alarm = d.alarm /\ i.armed = d.armed
    BY DEF DevOK, DevType, systemtime_init
  <2>3. d.need \subseteq n
    OBVIOUS
  <2> DEFINE a == rtc_attach(d)
  <2> HIDE DEF i, n
  <2>4. a = [i EXCEPT !.need = n, !.ended_id = (n = {})]
    BY <2>1, <2>2 DEF rtc_set_need
  <2>5. /\ a \in DevType /\ a.need = n /\ a.ended_id = (n = {}) /\ a.fd = TRUE
        /\ a.iface = d.iface /\ a.prev = d.prev /\ a.alarm = d.alarm /\ a.armed = d.armed
    BY <2>2, <2>4 DEF DevType
  <2> HIDE DEF a
  <2>6. DevOK(a, t)
    BY <2>5 DEF DevOK
  <2> QED BY <2>3, <2>5, <2>6 DEF a
<1> QED BY <1>1, <1>2

\* rtc_detach() keeps the device in order, and the alarm as it is.
LEMMA Detached ==
  ASSUME NEW d, NEW t, DevOK(d, t)
  PROVE  LET a == rtc_detach(d) IN
         /\ DevOK(a, t)
         /\ a.iface = d.iface /\ a.prev = d.prev /\ a.alarm = d.alarm
         /\ a.armed = d.armed
BY DEF DevOK, DevType, rtc_detach

\* rtc_handle_input() keeps the device in order, and the alarm as it is.
LEMMA InputHandled ==
  ASSUME NEW d, NEW t, DevOK(d, t)
  PROVE  LET a == rtc_handle_input(d) IN
         /\ DevOK(a, t)
         /\ a.iface = d.iface /\ a.prev = d.prev /\ a.alarm = d.alarm
         /\ a.armed = d.armed
<1> DEFINE todo == IF d.to_system_time THEN UpdateRounds ELSE d.updates_todo
           left == IF todo > 0 THEN todo - 1 ELSE 0
           d1   == [d EXCEPT !.to_system_time = FALSE, !.updates_todo = left]
           d2   == [d1 EXCEPT !.uie = FALSE]
           n    == d1.need \ {"UPDATES"}
<1>1. rtc_handle_input(d) = IF todo = 1 THEN rtc_set_need(d2, n) ELSE d1
  BY DEF rtc_handle_input
<1>2. left \in 0 .. UpdateRounds
  BY Lengths DEF DevOK, DevType
<1> HIDE DEF left, todo
<1>3. /\ d1 \in DevType /\ d1.need = d.need /\ d1.ended_id = d.ended_id
      /\ d1.iface = d.iface /\ d1.prev = d.prev /\ d1.alarm = d.alarm /\ d1.armed = d.armed
  BY <1>2 DEF DevOK, DevType
<1> HIDE DEF d1
<1>4. n \subseteq {"ALARM", "UPDATES"}
  BY <1>3 DEF DevType
<1> HIDE DEF n
<1>5. CASE todo = 1
  <2>1. rtc_handle_input(d) = [d1 EXCEPT !.uie = FALSE, !.need = n, !.ended_id = (n = {})]
    BY <1>1, <1>3, <1>5 DEF rtc_set_need, DevType
  <2> DEFINE h == rtc_handle_input(d)
  <2>2. h \in DevType
    <3> DEFINE h1 == [d1 EXCEPT !.uie = FALSE]
               h2 == [h1 EXCEPT !.need = n]
    <3>1. h1 \in DevType
      BY <1>3 DEF DevType
    <3>2. h2 \in DevType
      <4> HIDE DEF h1
      <4> QED BY <1>4, <3>1 DEF DevType
    <3>3. h = [h2 EXCEPT !.ended_id = (n = {})]
      BY <2>1
    <3> HIDE DEF h, h2
    <3> QED BY <3>2, <3>3 DEF DevType
  <2>3. /\ h.need = n /\ h.ended_id = (n = {})
        /\ h.iface = d1.iface /\ h.prev = d1.prev /\ h.alarm = d1.alarm /\ h.armed = d1.armed
    BY <1>3, <2>1 DEF DevType
  <2> HIDE DEF h
  <2>4. DevOK(h, t)
    BY <1>3, <2>2, <2>3 DEF DevOK
  <2> QED BY <1>3, <2>3, <2>4 DEF h
<1>6. CASE todo # 1
  BY <1>1, <1>3, <1>6 DEF DevOK
<1> QED BY <1>5, <1>6

\* rtc_set_alarm_raw() keeps the device in order when the alarm is ahead, and
\* remembers what it programmed; enabled, it leaves the alarm it was asked for.
LEMMA RawSet ==
  ASSUME NEW d, NEW sec \in Int, NEW enabled \in BOOLEAN, now \in Nat,
         DevOK(d, now), enabled => sec * TPS > now
  PROVE  LET a == rtc_set_alarm_raw(d, sec, enabled) IN
         /\ DevOK(a, now)
         /\ a.iface = d.iface
         /\ a.armed = enabled
         /\ (d.iface = "rtc" /\ PrevOK(d, now)) =>
              /\ PrevOK(a, now)
              /\ enabled => a.alarm = sec * TPS
<1> DEFINE alrm == <<sec, IF enabled THEN "on" ELSE "off">>
           a    == rtc_set_alarm_raw(d, sec, enabled)
<1>1. sec * TPS \in Int
  BY Lengths
<1>2. CASE d.prev = alrm
  <2>1. a = [d EXCEPT !.armed = enabled]
    BY <1>2 DEF rtc_set_alarm_raw
  <2>2. DevOK(a, now) /\ a.iface = d.iface /\ a.armed = enabled
        /\ a.prev = d.prev /\ a.alarm = d.alarm
    BY <2>1 DEF DevOK, DevType
  <2>3. ASSUME d.iface = "rtc", PrevOK(d, now)
        PROVE  PrevOK(a, now) /\ (enabled => a.alarm = sec * TPS)
    <3>1. PrevOK(a, now)
      BY <2>2, <2>3 DEF PrevOK
    <3>2. ASSUME enabled PROVE a.alarm = sec * TPS
      <4>1. d.prev[1] = sec /\ d.prev[2] = "on"
        BY <1>2, <3>2
      <4> QED BY <4>1, <2>2, <2>3, <3>2, <1>1 DEF PrevOK
    <3> QED BY <3>1, <3>2
  <2> QED BY <2>2, <2>3
<1>3. CASE d.prev # alrm
  <2> DEFINE n == IF enabled THEN d.need \cup {"ALARM"} ELSE d.need \ {"ALARM"}
             al == IF enabled THEN sec * TPS ELSE Off
  <2>1. a = [d EXCEPT !.need = n, !.ended_id = (n = {}), !.prev = alrm,
                      !.armed = enabled, !.alarm = al]
    BY <1>3 DEF rtc_set_alarm_raw, rtc_set_need, DevOK, DevType
  <2>2. n \in SUBSET {"ALARM", "UPDATES"}
    BY DEF DevOK, DevType
  <2>3. alrm \in Int \X {"on", "off"} /\ al \in Int
    BY <1>1 DEF Off
  <2> HIDE DEF n, alrm, al
  <2>4. DevOK(a, now) /\ a.iface = d.iface /\ a.armed = enabled
        /\ a.prev = alrm /\ a.alarm = al
    <3>1. a \in DevType
      <4> DEFINE a1 == [d EXCEPT !.need = n, !.ended_id = (n = {})]
                 a2 == [a1 EXCEPT !.prev = alrm]
                 a3 == [a2 EXCEPT !.armed = enabled]
      <4>1. a1 \in DevType
        BY <2>2 DEF DevOK, DevType
      <4>2. a2 \in DevType
        <5> HIDE DEF a1
        <5> QED BY <2>3, <4>1 DEF DevType
      <4>3. a3 \in DevType
        <5> HIDE DEF a2
        <5> QED BY <4>2 DEF DevType
      <4>4. a = [a3 EXCEPT !.alarm = al]
        BY <2>1
      <4> HIDE DEF a, a3
      <4> QED BY <2>3, <4>3, <4>4 DEF DevType
    <3>2. a.iface = d.iface /\ a.armed = enabled /\ a.prev = alrm /\ a.alarm = al
          /\ a.need = n /\ a.ended_id = (n = {})
      BY <2>1 DEF DevOK, DevType
    <3>3. al # Off => al > now
      BY DEF al
    <3> QED BY <3>1, <3>2, <3>3 DEF DevOK
  <2> QED BY <2>4, <1>1 DEF PrevOK, al, alrm, Off
<1> QED BY <1>2, <1>3

\* rtc_set_alarm_after() keeps the device in order.  An alarm it has armed, and
\* of which dsme will be told, goes off no later than asked for.
LEMMA AlarmSet ==
  ASSUME NEW d, NEW delay \in Nat, now \in Nat, DevOK(d, now), PrevOK(d, now),
         NEW a, a = rtc_set_alarm_after(d, delay)
  PROVE  /\ DevOK(a, now) /\ PrevOK(a, now)
         /\ a.iface = d.iface
         /\ (a.armed /\ a.iface \in {"timerfd", "rtc"}) =>
              a.alarm # Off /\ a.alarm <= now + delay * TPS
<1> DEFINE b == rtc_attach(d)
<1>1. DevOK(b, now) /\ b.iface = d.iface /\ b.prev = d.prev /\ b.alarm = d.alarm
  BY Attached
<1>2. PrevOK(b, now)
  BY <1>1 DEF PrevOK
<1>3. a = IF ~(b.fd /\ rtc_ok) THEN [b EXCEPT !.armed = FALSE]
          ELSE CASE b.iface = "timerfd"  -> linux_alarm_set(b, delay)
                 [] b.iface = "android"  -> android_alarm_set(b, delay)
                 [] OTHER                -> rtc_set_alarm_raw(b, Sec(now) + delay, delay > 0)
  BY DEF rtc_set_alarm_after
<1> HIDE DEF b
<1>4. delay * TPS \in Nat /\ (delay > 0 => delay * TPS > 0)
  BY Lengths, TicksGrow
<1>5. CASE ~(b.fd /\ rtc_ok)
  <2>1. a = [b EXCEPT !.armed = FALSE]
    BY <1>3, <1>5
  <2> QED BY <1>1, <1>2, <2>1 DEF DevOK, DevType, PrevOK
<1>6. CASE b.fd /\ rtc_ok /\ b.iface \in {"timerfd", "android"}
  <2> DEFINE on == delay > 0
             al == IF on THEN now + delay * TPS ELSE Off
  <2>1. a = [b EXCEPT !.alarm = al, !.armed = on]
    BY <1>3, <1>6 DEF linux_alarm_set, android_alarm_set
  <2>2. al \in Int /\ on \in BOOLEAN /\ (al # Off => al > now)
        /\ (on => al # Off /\ al <= now + delay * TPS)
    BY <1>4 DEF Off
  <2> HIDE DEF al, on
  <2>3. a \in DevType
    BY <1>1, <2>1, <2>2 DEF DevOK, DevType
  <2>4. /\ a.need = b.need /\ a.ended_id = b.ended_id /\ a.iface = b.iface
        /\ a.prev = b.prev /\ a.alarm = al /\ a.armed = on
    BY <1>1, <2>1 DEF DevOK, DevType
  <2>5. DevOK(a, now)
    BY <1>1, <2>2, <2>3, <2>4 DEF DevOK
  <2>6. PrevOK(a, now)
    BY <1>2, <1>6, <2>4 DEF PrevOK
  <2> QED BY <1>1, <2>2, <2>4, <2>5, <2>6
<1>7. CASE b.fd /\ rtc_ok /\ b.iface \notin {"timerfd", "android"}
  <2>1. a = rtc_set_alarm_raw(b, Sec(now) + delay, delay > 0)
    BY <1>3, <1>7
  <2>2. b.iface = "rtc"
    BY <1>1, <1>7 DEF DevOK, DevType
  <2>3. /\ Sec(now) + delay \in Int
        /\ (Sec(now) + delay) * TPS = Sec(now) * TPS + delay * TPS
        /\ (Sec(now) + delay) * TPS <= now + delay * TPS
    <3>1. Sec(now) \in Int /\ delay \in Int /\ now \in Int
          /\ Sec(now) * TPS \in Int /\ Sec(now) * TPS <= now
      BY SecBounds
    <3>2. (Sec(now) + delay) * TPS = Sec(now) * TPS + delay * TPS
      BY <3>1, TicksGrow
    <3> QED BY ONLY <3>1, <3>2, <1>4
  <2>4. delay > 0 => (Sec(now) + delay) * TPS > now
    <3>1. delay > 0 => TPS <= delay * TPS
      <4>1. 0 \in Int /\ 0 * TPS = 0
        BY Lengths
      <4> QED BY <4>1, TicksGrow, Lengths
    <3>2. now < Sec(now) * TPS + TPS /\ Sec(now) * TPS \in Int
      BY SecBounds
    <3> QED BY ONLY <3>1, <3>2, <2>3, Lengths, <1>4, now \in Nat
  <2>5. /\ DevOK(a, now) /\ a.iface = b.iface /\ a.armed = (delay > 0)
        /\ PrevOK(a, now)
        /\ delay > 0 => a.alarm = (Sec(now) + delay) * TPS
    <3> DEFINE sec == Sec(now) + delay
               on  == delay > 0
    <3>1. sec \in Int /\ on \in BOOLEAN /\ (on => sec * TPS > now)
      BY <2>3, <2>4
    <3>2. a = rtc_set_alarm_raw(b, sec, on)
      BY <2>1
    <3> HIDE DEF sec, on
    <3>3. /\ DevOK(a, now) /\ a.iface = b.iface /\ a.armed = on
          /\ PrevOK(a, now)
          /\ on => a.alarm = sec * TPS
      BY <1>1, <1>2, <2>2, <3>1, <3>2, RawSet
    <3> QED BY <3>3 DEF sec, on
  <2>6. delay > 0 => a.alarm # Off /\ a.alarm <= now + delay * TPS
    BY <2>3, <2>4, <2>5, <1>4 DEF Off
  <2> QED BY <1>1, <2>5, <2>6
<1> QED BY <1>1, <1>5, <1>6, <1>7
-----------------------------------------------------------------------------
(***************************************************************************)
(* Clients.                                                                *)
(***************************************************************************)
\* clientlist_get_alarm_time() is a delay.
LEMMA AlarmTime ==
  ASSUME NEW tm \in [alarm_powerup : Nat, alarm_resume : Nat], now \in Nat
  PROVE  clientlist_get_alarm_time(tm) \in Nat
<1> DEFINE times == {t \in {tm.alarm_powerup, tm.alarm_resume} : t > Sec(now)}
<1>1. Sec(now) \in Int
  BY SecBounds
<1>2. times \subseteq Nat /\ (\A t \in times : t > Sec(now))
  OBVIOUS
<1>3. clientlist_get_alarm_time(tm) = IF times = {} THEN 0 ELSE Min(times) - Sec(now)
  BY DEF clientlist_get_alarm_time
<1> HIDE DEF times
<1>4. CASE times # {}
  <2>1. Min(times) \in times
    BY <1>2, <1>4, MinExists
  <2>2. Min(times) \in Nat /\ Min(times) > Sec(now)
    BY <1>2, <2>1
  <2> HIDE DEF times
  <2> QED BY <1>1, <1>3, <1>4, <2>2
<1> QED BY <1>3, <1>4

\* clientlist_rethink_rtc_wakeup() programs a delay that is not longer than any
\* client that is still to come, by the time stamp of the scan, allows.
LEMMA SleepIsShort ==
  ASSUME NEW tm \in [alarm_powerup : Nat, alarm_resume : Nat], now \in Nat,
         NEW t \in Nat, NEW cl, \A c \in DOMAIN cl : cl[c] \in ClientType
  PROVE  /\ sleeptime(cl, tm, t) \in Nat
         /\ \A c \in Started(cl) : (cl[c].wakeup /\ cl[c].maxtime > t) =>
              sleeptime(cl, tm, t) <= Sec(cl[c].maxtime) - Sec(t)
<1> DEFINE C      == {x \in Started(cl) : cl[x].wakeup /\ cl[x].maxtime > t}
           ends   == {cl[c].maxtime : c \in C}
           first  == Sec(Min(ends)) - Sec(t)
           timed_ == clientlist_get_alarm_time(tm)
           delays == (IF ends = {} THEN {} ELSE {first}) \cup ({timed_} \ {0})
                     \cup {MAXIMUM_WAKEUP}
<1>1. \A c \in C : cl[c].maxtime \in Nat /\ cl[c].maxtime > t
  BY DEF Started, ClientType
<1>2. ends \subseteq Nat /\ (\A e \in ends : e > t)
  BY <1>1
<1>3. sleeptime(cl, tm, t) = Min(delays)
  BY DEF sleeptime
<1>4. \A c \in Started(cl) : (cl[c].wakeup /\ cl[c].maxtime > t) => cl[c].maxtime \in ends
  OBVIOUS
<1>5. timed_ \in Nat
  BY AlarmTime
<1> HIDE DEF ends, timed_, C
<1>6. ends # {} => Min(ends) \in ends /\ (\A e \in ends : Min(ends) <= e)
  BY <1>2, MinExists
<1>7. ends # {} => first \in Nat /\ (\A e \in ends : first <= Sec(e) - Sec(t))
  <2> SUFFICES ASSUME ends # {}
               PROVE  first \in Nat /\ (\A e \in ends : first <= Sec(e) - Sec(t))
    OBVIOUS
  <2>1. Min(ends) \in Int /\ t \in Int /\ t <= Min(ends)
    <3>1. Min(ends) \in ends
      BY <1>6
    <3>2. Min(ends) \in Nat /\ Min(ends) > t
      BY <1>2, <3>1
    <3> QED BY <3>2
  <2>2. Sec(t) <= Sec(Min(ends)) /\ Sec(t) \in Int /\ Sec(Min(ends)) \in Int
    BY <2>1, SecGrows, SecBounds
  <2>3. ASSUME NEW e \in ends PROVE first <= Sec(e) - Sec(t)
    <3>1. e \in Int /\ Min(ends) <= e
      BY <1>2, <1>6
    <3>2. Sec(Min(ends)) <= Sec(e) /\ Sec(e) \in Int
      BY <2>1, <3>1, SecGrows, SecBounds
    <3> QED BY <2>2, <3>2
  <2> QED BY <2>2, <2>3
<1> HIDE DEF first
<1>8. delays \subseteq Nat /\ delays # {} /\ (ends # {} => first \in delays)
  BY <1>5, <1>7, Lengths
<1> HIDE DEF delays
<1>9. Min(delays) \in Nat /\ (\A x \in delays : Min(delays) <= x)
  BY <1>8, MinExists
<1>10. ASSUME NEW c \in Started(cl), cl[c].wakeup, cl[c].maxtime > t
       PROVE  Min(delays) <= Sec(cl[c].maxtime) - Sec(t)
  <2>1. cl[c].maxtime \in ends
    BY <1>4, <1>10
  <2>2. first \in Nat /\ first <= Sec(cl[c].maxtime) - Sec(t) /\ Min(delays) <= first
    <3>1. ends # {}
      BY <2>1
    <3>2. first \in Nat /\ (\A e \in ends : first <= Sec(e) - Sec(t))
      BY <3>1, <1>7
    <3>3. Min(delays) <= first
      BY <3>1, <1>8, <1>9
    <3> QED BY <2>1, <3>2, <3>3
  <2>3. Sec(cl[c].maxtime) \in Int /\ Sec(t) \in Int
    <3>1. cl[c].maxtime \in Int
      BY DEF Started, ClientType
    <3> QED BY <3>1, SecBounds
  <2> QED BY <2>2, <2>3, <1>9
<1> QED BY <1>3, <1>9, <1>10

\* client_adjust_mintime() begins a window no later than it ends.
LEMMA MintimeAdjusted ==
  ASSUME NEW min \in Nat, NEW max \in Nat
  PROVE  /\ client_adjust_mintime(min, max) \in Int
         /\ client_adjust_mintime(min, max) <= max
<1> DEFINE rows == {i \in DOMAIN Lut : max >= Lut[i][1]}
           diff == Lut[Min(rows)][2]
           m    == IF rows # {} /\ min + diff < max THEN max - diff ELSE min
<1>1. \A i \in DOMAIN Lut : Lut[i][2] \in Nat /\ i \in Nat
  BY IphbAssumption
<1>2. rows \subseteq DOMAIN Lut /\ rows \subseteq Nat
  BY <1>1
<1>3. client_adjust_mintime(min, max) = IF m > max THEN max ELSE m
  BY DEF client_adjust_mintime
<1> HIDE DEF rows
<1>4. rows # {} => diff \in Nat
  BY <1>1, <1>2, MinExists
<1> HIDE DEF diff
<1> QED BY <1>3, <1>4

\* client_adjust_period() gives a slot that is not zero.
LEMMA PeriodAdjusted ==
  ASSUME NEW p \in Nat
  PROVE  client_adjust_period(p) \in Nat \ {0}
BY Lengths DEF client_adjust_period

\* client_handle_wait_req() starts a window that does not end before now, and
\* resumes the device only for a request that wants that.
LEMMA RequestHandled ==
  ASSUME NEW req \in [mintime : Nat, maxtime : Nat, wakeup : BOOLEAN], now \in Nat,
         NEW n, n = client_handle_wait_req(req)
  PROVE  /\ n \in ClientType
         /\ n.started => n.mintime <= n.maxtime /\ now <= n.maxtime
         /\ n.wakeup => req.wakeup
<1> DEFINE slot == client_adjust_period(req.mintime)
           k    == Sec(now) + slot - ((slot + Sec(now)) % slot)
           m    == client_adjust_mintime(req.mintime, req.maxtime)
           a    == now + TPS * m
           b    == now + TPS * req.maxtime
           r    == k * TPS
<1>1. n = CASE req.mintime = 0 /\ req.maxtime = 0 -> NotStarted
            [] req.mintime = req.maxtime /\ req.mintime # 0 ->
                 [started |-> TRUE, mintime |-> r, maxtime |-> r, wakeup |-> req.wakeup]
            [] OTHER -> [started |-> TRUE, wakeup |-> req.wakeup,
                         mintime |-> a, maxtime |-> b]
  BY DEF client_handle_wait_req
<1>2. r \in Int /\ now <= r
  <2>1. slot \in Nat \ {0} /\ Sec(now) \in Int
    BY PeriodAdjusted, SecBounds
  <2>2. k \in Int /\ Sec(now) < k
    <3> HIDE DEF slot
    <3> QED BY <2>1
  <2> HIDE DEF k, slot
  <2>3. k * TPS \in Int /\ Sec(now) * TPS + TPS <= k * TPS
    BY <2>1, <2>2, TicksGrow
  <2>4. Sec(now) * TPS \in Int /\ now < Sec(now) * TPS + TPS
    BY SecBounds
  <2> QED BY ONLY <2>3, <2>4, Lengths, now \in Nat
<1>3. a \in Int /\ b \in Int /\ a <= b /\ now <= b
  <2>1. m \in Int /\ m <= req.maxtime /\ req.maxtime \in Nat
    BY MintimeAdjusted
  <2> HIDE DEF m
  <2>2. TPS * m \in Int /\ TPS * req.maxtime \in Nat /\ TPS * m <= TPS * req.maxtime
    BY <2>1, Lengths
  <2> QED BY <2>2
<1> HIDE DEF a, b, r
<1>4. CASE req.mintime = 0 /\ req.maxtime = 0
  BY <1>1, <1>4 DEF NotStarted, ClientType
<1>5. CASE req.mintime = req.maxtime /\ req.mintime # 0
  <2>1. n = [started |-> TRUE, mintime |-> r, maxtime |-> r, wakeup |-> req.wakeup]
    BY <1>1, <1>5
  <2> QED BY <1>2, <2>1 DEF ClientType
<1>6. CASE req.mintime # req.maxtime
  <2>1. n = [started |-> TRUE, wakeup |-> req.wakeup, mintime |-> a, maxtime |-> b]
    BY <1>1, <1>6
  <2> QED BY <1>3, <2>1 DEF ClientType
<1> QED BY <1>4, <1>5, <1>6

\* A scan leaves no client without the timer or the next heartbeat, counted from
\* its time stamp, whichever of the clients it could not send to are dropped.
LEMMA Scanned ==
  ASSUME NEW t \in Nat, NEW cl, \A c \in DOMAIN cl : cl[c] \in ClientType,
         Windows(cl), NEW dead, NEW new, new = client_wakeup(cl, Due(cl, t), dead)
  PROVE  /\ DOMAIN new \subseteq DOMAIN cl
         /\ \A c \in DOMAIN new : new[c] \in ClientType
         /\ Windows(new)
         /\ sleep_time(cl, t) \in {Off} \cup Nat
         /\ \A c \in Started(new) : new[c].wakeup =>
              \/ sleep_time(cl, t) # Off /\ t + sleep_time(cl, t) <= new[c].maxtime
              \/ t + HEARTBEAT_INTERVAL * TPS <= new[c].maxtime
<1> DEFINE S == {x \in Started(cl) :
                   t < cl[x].mintime /\ cl[x].wakeup /\ BeforeHeartbeat(cl[x], t)}
           soon == {cl[c].maxtime - t : c \in S}
<1>1. DOMAIN new = DOMAIN cl \ dead
      /\ \A c \in DOMAIN new : new[c] = IF c \in Due(cl, t) THEN NotStarted ELSE cl[c]
  BY DEF client_wakeup
<1>2. NotStarted \in ClientType /\ ~NotStarted.started
  BY DEF NotStarted, ClientType
<1>3. \A c \in DOMAIN new : new[c] \in ClientType
  BY <1>1, <1>2
<1>4. \A c \in Started(new) : c \in Started(cl) /\ new[c] = cl[c] /\ c \notin Due(cl, t)
  BY <1>1, <1>2 DEF Started
<1>5. Windows(new)
  BY <1>4 DEF Windows
<1>6. \A c \in Started(cl) : /\ cl[c].mintime \in Int /\ cl[c].maxtime \in Int
                             /\ cl[c].mintime <= cl[c].maxtime
  BY DEF Started, ClientType, Windows
<1>7. soon \subseteq Nat
  BY <1>6
<1>8. sleep_time(cl, t) = IF soon = {} THEN Off ELSE Min(soon)
  BY DEF sleep_time
<1>9. \A c \in S : cl[c].maxtime - t \in soon
  OBVIOUS
<1> HIDE DEF soon
<1>10. soon # {} => Min(soon) \in Nat /\ (\A y \in soon : Min(soon) <= y)
  BY <1>7, MinExists
<1>11. sleep_time(cl, t) \in {Off} \cup Nat
  BY <1>8, <1>10
<1>12. ASSUME NEW c \in Started(new), new[c].wakeup
       PROVE  \/ sleep_time(cl, t) # Off /\ t + sleep_time(cl, t) <= new[c].maxtime
              \/ t + HEARTBEAT_INTERVAL * TPS <= new[c].maxtime
  <2>1. c \in Started(cl) /\ new[c] = cl[c] /\ c \notin Due(cl, t) /\ cl[c].wakeup
    BY <1>4, <1>12
  <2>2. cl[c].maxtime \in Int /\ cl[c].mintime \in Int /\ cl[c].maxtime - t \in Int
    BY <1>6, <2>1
  <2>3. CASE BeforeHeartbeat(cl[c], t)
    <3>1. ~(t >= cl[c].mintime)
      BY <2>1, <2>3 DEF Due, must_wake
    <3>2. c \in S
      BY <2>1, <2>2, <2>3, <3>1
    <3>3. cl[c].maxtime - t \in soon
      BY <1>9, <3>2
    <3>4. sleep_time(cl, t) = Min(soon) /\ Min(soon) \in Nat /\ Min(soon) <= cl[c].maxtime - t
      BY <1>8, <1>10, <3>3
    <3> QED BY <2>1, <2>2, <3>4 DEF Off
  <2>4. CASE ~BeforeHeartbeat(cl[c], t)
    <3> DEFINE left == cl[c].maxtime - t
    <3>1. Sec(left) \in Int /\ HEARTBEAT_INTERVAL <= Sec(left)
      BY <2>2, <2>4, SecBounds, Lengths DEF BeforeHeartbeat
    <3>2. HEARTBEAT_INTERVAL * TPS <= Sec(left) * TPS
      BY <3>1, Lengths, TicksGrow
    <3>3. Sec(left) * TPS <= left /\ Sec(left) * TPS \in Int
      BY <2>2, SecBounds
    <3>4. HEARTBEAT_INTERVAL * TPS \in Int
      BY Lengths
    <3> QED BY <2>1, <2>2, <3>2, <3>3, <3>4
  <2> QED BY <2>3, <2>4
<1> QED BY <1>1, <1>3, <1>5, <1>11, <1>12

\* The alarm that clientlist_rethink_rtc_wakeup() programs, when it is armed and
\* dsme is told of it, covers every client that was not yet due when the scan took
\* its time stamp, but for the age of the stamp.
LEMMA Rethought ==
  ASSUME now \in Nat, NEW t \in Nat, NEW cl, \A c \in DOMAIN cl : cl[c] \in ClientType,
         NEW tm \in [alarm_powerup : Nat, alarm_resume : Nat],
         NEW d, DevOK(d, now), PrevOK(d, now),
         NEW a, a = rtc_set_alarm_after(d, sleeptime(cl, tm, t))
  PROVE  /\ DevOK(a, now) /\ PrevOK(a, now)
         /\ a.iface = d.iface
         /\ (a.armed /\ a.iface \in {"timerfd", "rtc"}) =>
              \A c \in Started(cl) : (cl[c].wakeup /\ cl[c].maxtime > t) =>
                a.alarm # Off /\ a.alarm < cl[c].maxtime + TPS + (now - t)
<1> DEFINE delay == sleeptime(cl, tm, t)
<1>1. /\ delay \in Nat
      /\ \A c \in Started(cl) : (cl[c].wakeup /\ cl[c].maxtime > t) =>
           delay <= Sec(cl[c].maxtime) - Sec(t)
  BY SleepIsShort
<1>2. a = rtc_set_alarm_after(d, delay)
  OBVIOUS
<1> HIDE DEF delay
<1>3. /\ DevOK(a, now) /\ PrevOK(a, now) /\ a.iface = d.iface
      /\ (a.armed /\ a.iface \in {"timerfd", "rtc"}) =>
           a.alarm # Off /\ a.alarm <= now + delay * TPS
  BY <1>1, <1>2, AlarmSet
<1>4. ASSUME a.armed, a.iface \in {"timerfd", "rtc"},
             NEW c \in Started(cl), cl[c].wakeup, cl[c].maxtime > t
      PROVE  a.alarm # Off /\ a.alarm < cl[c].maxtime + TPS + (now - t)
  <2> DEFINE e == cl[c].maxtime
  <2>1. e \in Int /\ now \in Int /\ t \in Int /\ delay \in Int /\ delay <= Sec(e) - Sec(t)
    BY <1>1, <1>4 DEF Started, ClientType
  <2> HIDE DEF e
  <2>2. /\ Sec(e) \in Int /\ Sec(t) \in Int /\ Sec(e) - Sec(t) \in Int
        /\ Sec(e) * TPS <= e /\ t < Sec(t) * TPS + TPS
    BY <2>1, SecBounds
  <2>3. /\ delay * TPS \in Int /\ Sec(e) * TPS \in Int /\ Sec(t) * TPS \in Int
        /\ delay * TPS <= Sec(e) * TPS - Sec(t) * TPS
    <3>1. (Sec(e) - Sec(t)) * TPS = Sec(e) * TPS - Sec(t) * TPS
      BY <2>2, TicksGrow
    <3>2. delay * TPS <= (Sec(e) - Sec(t)) * TPS
      BY <2>1, <2>2, TicksGrow
    <3> QED BY <2>1, <2>2, <3>1, <3>2, TicksGrow
  <2>4. a.alarm # Off /\ a.alarm <= now + delay * TPS /\ a.alarm \in Int
    BY <1>3, <1>4 DEF DevOK, DevType
  <2>5. now + delay * TPS < e + TPS + (now - t)
    BY ONLY <2>1, <2>2, <2>3, Lengths
  <2>6. a.alarm < e + TPS + (now - t)
    BY ONLY <2>1, <2>3, <2>4, <2>5, Lengths
  <2> QED BY <2>4, <2>6 DEF e
<1> QED BY <1>3, <1>4
-----------------------------------------------------------------------------
(***************************************************************************)
(* Steps that several handlers share.                                      *)
(***************************************************************************)
\* A finished scan, by whichever callback, restores the whole invariant: every
\* client is left to the timer or the next heartbeat, and the alarm covers it, as
\* seen from the time stamp of the scan.
LEMMA ScanKeeps ==
  ASSUME IInv, NEW t \in 0 .. now, clientlist_wakeup_clients_now(t), running, ~suspended,
         now' = now, running' = running, suspended' = suspended, timed' = timed,
         rtc_ok' = rtc_ok, irq' = irq,
         heartbeat' \in 0 .. HEARTBEAT_INTERVAL * TPS,
         tv_now' = Off, wakeup_clients_id' \in BOOLEAN, CheckHoldsLock'
  PROVE  IInv'
<1> USE DEF IInv
<1>1. PICK dead : clients' = client_wakeup(clients, Due(clients, t), dead)
                  /\ dev' = rtc_set_alarm_after(dev, sleeptime(clients', timed, t))
  BY DEF clientlist_wakeup_clients_now
<1>2. wakeup_timer' = sleep_time(clients, t) /\ unguarded' = (t # now) /\ lag' = now - t
  BY DEF clientlist_wakeup_clients_now
<1>3. now \in Nat /\ (\A c \in DOMAIN clients : clients[c] \in ClientType)
      /\ timed \in [alarm_powerup : Nat, alarm_resume : Nat]
      /\ t \in Nat /\ now - t \in Nat
  BY DEF Types
<1>4. /\ DOMAIN clients' \subseteq DOMAIN clients
      /\ \A c \in DOMAIN clients' : clients'[c] \in ClientType
      /\ Windows(clients')
      /\ wakeup_timer' \in {Off} \cup Nat
      /\ \A c \in Started(clients') : clients'[c].wakeup =>
           \/ wakeup_timer' # Off /\ t + wakeup_timer' <= clients'[c].maxtime
           \/ t + HEARTBEAT_INTERVAL * TPS <= clients'[c].maxtime
  BY <1>1, <1>2, <1>3, Scanned
<1>5. /\ DevOK(dev', now) /\ PrevOK(dev', now)
      /\ (dev'.armed /\ dev'.iface \in {"timerfd", "rtc"}) =>
           \A c \in Started(clients') : (clients'[c].wakeup /\ clients'[c].maxtime > t) =>
             dev'.alarm # Off /\ dev'.alarm < clients'[c].maxtime + TPS + (now - t)
  BY <1>1, <1>3, <1>4, Rethought
<1>6. Types'
  BY <1>2, <1>3, <1>4 DEF Types
<1>7. SuspendOK' /\ StampOK'
  <2>1. t = now => lag' = 0
    BY <1>2, <1>3
  <2> QED BY <1>2, <2>1 DEF SuspendOK, StampOK
<1>8. \A c \in Started(clients') : clients'[c].maxtime \in Int
  BY <1>4 DEF Started, ClientType
<1>9. AlarmCovers'
  <2> SUFFICES ASSUME dev'.armed, Watched', NEW c \in Resumed', clients'[c].maxtime > now
               PROVE  dev'.alarm # Off /\ dev'.alarm < clients'[c].maxtime + TPS + (now - t)
    BY <1>2 DEF AlarmCovers
  <2>1. c \in Started(clients') /\ clients'[c].wakeup /\ clients'[c].maxtime > t
    BY <1>3, <1>8 DEF Resumed
  <2> QED BY <1>5, <2>1 DEF Watched
<1>10. WakeOK'
  <2> SUFFICES ASSUME t = now, NEW c \in Resumed'
               PROVE  now < clients'[c].maxtime + TPS /\ InTime(c)'
    BY <1>2 DEF WakeOK
  <2>1. c \in Started(clients') /\ clients'[c].wakeup /\ clients'[c].maxtime \in Int
    BY <1>8 DEF Resumed
  <2>2. heartbeat' \in Nat /\ heartbeat' <= HEARTBEAT_INTERVAL * TPS
        /\ HEARTBEAT_INTERVAL * TPS \in Nat
    BY Lengths
  <2>3. \/ wakeup_timer' # Off /\ now + wakeup_timer' <= clients'[c].maxtime
        \/ now + HEARTBEAT_INTERVAL * TPS <= clients'[c].maxtime
    BY <1>4, <2>1
  <2>4. InTime(c)'
    BY <1>3, <2>1, <2>2, <2>3 DEF InTime
  <2>5. now <= clients'[c].maxtime
    BY <1>3, <1>4, <2>1, <2>2, <2>3 DEF Off
  <2> QED BY <1>3, <2>1, <2>4, <2>5, Lengths
<1> QED BY <1>4, <1>5, <1>6, <1>7, <1>9, <1>10

\* Scheduling a check under its wakelock keeps the invariant, if the clients it
\* adds or changes are not due before now.
LEMMA CheckKeeps ==
  ASSUME IInv, Idle, running' = running, suspended' = suspended, now' = now,
         heartbeat' = heartbeat, rtc_ok' = rtc_ok, tv_now' = tv_now, lag' = lag, timed' = timed,
         wakeup_timer' = wakeup_timer, unguarded' = unguarded,
         wakeup_clients_id' = TRUE, "iphb_wakeup" \in wakelocks', irq' \in BOOLEAN,
         DevOK(dev', now), PrevOK(dev', now),
         \A c \in DOMAIN clients' :
           \/ c \in DOMAIN clients /\ clients'[c] = clients[c]
           \/ /\ clients'[c] \in ClientType
              /\ clients'[c].started => /\ clients'[c].mintime <= clients'[c].maxtime
                                        /\ now <= clients'[c].maxtime
  PROVE  IInv'
<1> USE DEF IInv
<1>1. now \in Nat /\ (\A c \in DOMAIN clients : clients[c] \in ClientType)
  BY DEF Types
<1>2. \A c \in DOMAIN clients' : clients'[c] \in ClientType
  BY <1>1
<1>3. Types'
  BY <1>2 DEF Types
<1>4. Windows(clients')
  BY DEF Windows, Started
<1>5. SuspendOK'
  BY DEF SuspendOK, Idle
<1>6. CheckHoldsLock' /\ AlarmCovers' /\ StampOK'
  BY DEF CheckHoldsLock, AlarmCovers, StampOK
<1>7. WakeOK'
  <2> SUFFICES ASSUME running, ~unguarded, NEW c \in Resumed'
               PROVE  now < clients'[c].maxtime + TPS
    BY DEF WakeOK
  <2>1. c \in DOMAIN clients' /\ clients'[c].started /\ clients'[c].wakeup
        /\ clients'[c].maxtime \in Int
    BY <1>2 DEF Resumed, Started, ClientType
  <2>2. CASE c \in DOMAIN clients /\ clients'[c] = clients[c]
    <3>1. c \in Resumed
      BY <2>1, <2>2 DEF Resumed, Started
    <3> QED BY <2>2, <3>1 DEF WakeOK
  <2>3. CASE now <= clients'[c].maxtime
    BY <1>1, <2>1, <2>3, Lengths
  <2> QED BY <2>1, <2>2, <2>3
<1> QED BY <1>3, <1>4, <1>5, <1>6, <1>7
-----------------------------------------------------------------------------
(***************************************************************************)
(* The callbacks of the main loop.                                         *)
(***************************************************************************)
\* The beginning of a scan, by heartbeat or timer: a check that is scheduled
\* becomes the rest of the scan.
LEMMA CancelAndScanKeeps ==
  ASSUME IInv, Idle, CancelAndScan, heartbeat' \in 0 .. HEARTBEAT_INTERVAL * TPS,
         now' = now, running' = running, suspended' = suspended, timed' = timed,
         rtc_ok' = rtc_ok, irq' = irq
  PROVE  IInv'
<1> USE DEF IInv
<1>1. /\ tv_now' = now /\ wakeup_timer' = Off
      /\ clients' = clients /\ dev' = dev /\ unguarded' = unguarded /\ lag' = lag
      /\ \/ wakeup_clients_id' = FALSE
         \/ wakeup_clients_id' = wakeup_clients_id /\ wakelocks' = wakelocks
  BY DEF CancelAndScan, clientlist_wakeup_clients_cancel
<1>2. now \in Nat /\ tv_now' # Off
  BY <1>1 DEF Types, Off
<1>3. Types'
  <2>1. tv_now' \in {Off} \cup 0 .. now
    BY <1>1, <1>2
  <2>2. wakeup_timer' \in {Off} \cup Nat
    BY <1>1
  <2>3. wakeup_clients_id' \in BOOLEAN
    BY <1>1 DEF Types
  <2> QED BY <1>1, <2>1, <2>2, <2>3 DEF Types
<1>4. SuspendOK' /\ CheckHoldsLock' /\ AlarmCovers' /\ StampOK'
  BY <1>1, <1>2 DEF SuspendOK, Idle, CheckHoldsLock, AlarmCovers, StampOK
<1>5. WakeOK'
  BY <1>1, <1>2 DEF WakeOK, Resumed
<1> QED BY <1>1, <1>3, <1>4, <1>5

\* DSM_MSGTYPE_HEARTBEAT
LEMMA HeartbeatKeeps == IInv /\ HEARTBEAT => IInv'
<1>1. HEARTBEAT_INTERVAL * TPS \in 0 .. HEARTBEAT_INTERVAL * TPS
  BY Lengths
<1> QED BY <1>1, CancelAndScanKeeps DEF HEARTBEAT

\* clientlist_handle_wakeup_timeout()
LEMMA TimeoutKeeps == IInv /\ clientlist_handle_wakeup_timeout => IInv'
BY CancelAndScanKeeps DEF clientlist_handle_wakeup_timeout, envVars, IInv, Types

\* The rest of the scan, which only a module that is loaded has.
LEMMA FinishKeeps == IInv /\ FinishScan => IInv'
<1> SUFFICES ASSUME IInv, FinishScan PROVE IInv'
  OBVIOUS
<1> USE DEF IInv
<1>1. /\ clientlist_wakeup_clients_now(tv_now) /\ ~suspended /\ now' = now
      /\ running' = running /\ suspended' = suspended /\ timed' = timed
      /\ rtc_ok' = rtc_ok /\ irq' = irq
      /\ heartbeat' = heartbeat /\ tv_now' = Off /\ scanning
      /\ wakeup_clients_id' = wakeup_clients_id /\ wakelocks' = wakelocks
  BY DEF FinishScan, envVars
<1>2. CheckHoldsLock' /\ wakeup_clients_id' \in BOOLEAN
      /\ heartbeat' \in 0 .. HEARTBEAT_INTERVAL * TPS
  BY <1>1 DEF CheckHoldsLock, Types
<1>3. running /\ tv_now \in 0 .. now
  BY <1>1 DEF SuspendOK, Types
<1> QED BY <1>1, <1>2, <1>3, ScanKeeps

\* clientlist_wakeup_clients_cb()
LEMMA CheckRunsKeeps == IInv /\ clientlist_wakeup_clients_cb => IInv'
<1> SUFFICES ASSUME IInv, clientlist_wakeup_clients_cb PROVE IInv'
  OBVIOUS
<1>1. /\ clientlist_wakeup_clients_now(now) /\ ~suspended /\ running /\ now' = now
      /\ running' = running /\ suspended' = suspended /\ timed' = timed
      /\ rtc_ok' = rtc_ok /\ irq' = irq
      /\ heartbeat' = heartbeat /\ tv_now' = Off /\ wakeup_clients_id' = FALSE
  BY DEF clientlist_wakeup_clients_cb, Idle, envVars, clientlist_wakeup_clients_cancel
<1>2. CheckHoldsLock' /\ wakeup_clients_id' \in BOOLEAN
      /\ heartbeat' \in 0 .. HEARTBEAT_INTERVAL * TPS
  BY <1>1 DEF CheckHoldsLock, IInv, Types
<1>3. now \in 0 .. now
  BY DEF IInv, Types
<1> QED BY <1>1, <1>2, <1>3, ScanKeeps

\* The end of epollfd_iowatch_cb(), after input that changed the device or the
\* clients as allowed.
LEMMA IowatchKeeps ==
  ASSUME IInv, Idle, NEW d, NEW w \in BOOLEAN, IowatchEnd(d, w), irq' \in BOOLEAN,
         DevOK(d, now), PrevOK(d, now),
         \A c \in DOMAIN clients' :
           \/ c \in DOMAIN clients /\ clients'[c] = clients[c]
           \/ /\ clients'[c] \in ClientType
              /\ clients'[c].started => /\ clients'[c].mintime <= clients'[c].maxtime
                                        /\ now <= clients'[c].maxtime
  PROVE  IInv'
<1>1. DevOK(dev', now) /\ PrevOK(dev', now)
  <2>1. dev' = rtc_attach(d)
    BY DEF IowatchEnd
  <2>2. DevOK(dev', now) /\ dev'.iface = d.iface /\ dev'.prev = d.prev
        /\ dev'.alarm = d.alarm
    BY <2>1, Attached
  <2> QED BY <2>2 DEF PrevOK
<1>2. wakeup_clients_id' = TRUE /\ "iphb_wakeup" \in wakelocks'
  BY DEF IowatchEnd
<1>3. running' = running /\ suspended' = suspended /\ now' = now
      /\ heartbeat' = heartbeat /\ rtc_ok' = rtc_ok /\ tv_now' = tv_now /\ lag' = lag
      /\ timed' = timed /\ wakeup_timer' = wakeup_timer /\ unguarded' = unguarded
  BY DEF IowatchEnd, envVars
<1> QED BY <1>1, <1>2, <1>3, CheckKeeps

\* listenfd_handle_connect(), clientlist_delete_client(): no window begins.
LEMMA ConnectKeeps ==
  ASSUME IInv, NEW c \in Externals,
         listenfd_handle_connect(c) \/ clientlist_delete_client(c)
  PROVE  IInv'
<1>1. Idle /\ IowatchEnd(dev, FALSE) /\ irq' = irq
  BY DEF listenfd_handle_connect, clientlist_delete_client
<1>2. irq' \in BOOLEAN /\ DevOK(dev, now) /\ PrevOK(dev, now)
  BY <1>1 DEF IInv, Types, Idle
<1>3. NotStarted \in ClientType /\ ~NotStarted.started
  BY DEF NotStarted, ClientType
<1>4. \A x \in DOMAIN clients' :
        \/ x \in DOMAIN clients /\ clients'[x] = clients[x]
        \/ clients'[x] = NotStarted
  BY DEF listenfd_handle_connect, clientlist_delete_client
<1> QED BY <1>1, <1>2, <1>3, <1>4, IowatchKeeps

\* IPHB_WAIT
LEMMA ClientWaitKeeps ==
  ASSUME IInv, NEW c \in Externals, NEW req \in Requests, ClientWait(c, req)
  PROVE  IInv'
<1>1. Idle /\ IowatchEnd(dev, FALSE) /\ irq' = irq
  BY DEF ClientWait
<1>2. irq' \in BOOLEAN /\ DevOK(dev, now) /\ PrevOK(dev, now) /\ now \in Nat
  BY <1>1 DEF IInv, Types, Idle
<1> DEFINE n == client_handle_wait_req(req)
<1>3. req \in [mintime : Nat, maxtime : Nat, wakeup : BOOLEAN]
  BY IphbAssumption
<1>4. n \in ClientType /\ (n.started => n.mintime <= n.maxtime /\ now <= n.maxtime)
  BY <1>2, <1>3, RequestHandled
<1>5. clients' = [clients EXCEPT ![c] = n]
  BY DEF ClientWait
<1> HIDE DEF n
<1>6. \A x \in DOMAIN clients' :
        \/ x \in DOMAIN clients /\ clients'[x] = clients[x]
        \/ clients'[x] = n
  BY <1>5
<1>7. \A x \in DOMAIN clients' :
           \/ x \in DOMAIN clients /\ clients'[x] = clients[x]
           \/ /\ clients'[x] \in ClientType
              /\ clients'[x].started => /\ clients'[x].mintime <= clients'[x].maxtime
                                        /\ now <= clients'[x].maxtime
  BY <1>4, <1>6
<1> QED BY <1>1, <1>2, <1>7, IowatchKeeps

\* kernelfd_handle_event(), IPHB_STAT
LEMMA KernelEventKeeps == IInv /\ kernelfd_handle_event => IInv'
<1> SUFFICES ASSUME IInv, kernelfd_handle_event PROVE IInv'
  OBVIOUS
<1>1. Idle /\ IowatchEnd(dev, FALSE) /\ irq' = irq /\ clients' = clients
  BY DEF kernelfd_handle_event
<1>2. irq' \in BOOLEAN /\ DevOK(dev, now) /\ PrevOK(dev, now)
  BY <1>1 DEF IInv, Types, Idle
<1> QED BY <1>1, <1>2, IowatchKeeps

\* rtc_handle_input() and the failed read
LEMMA RtcInputKeeps == IInv /\ RtcInput => IInv'
<1> SUFFICES ASSUME IInv, RtcInput PROVE IInv'
  OBVIOUS
<1>1. Idle /\ irq' \in BOOLEAN /\ clients' = clients
  BY DEF RtcInput, IInv, Types
<1>2. DevOK(dev, now) /\ PrevOK(dev, now)
  BY <1>1 DEF IInv, Idle
<1>3. CASE IowatchEnd(rtc_handle_input(dev), TRUE)
  <2> DEFINE d == rtc_handle_input(dev)
  <2>1. DevOK(d, now) /\ d.iface = dev.iface /\ d.prev = dev.prev /\ d.alarm = dev.alarm
    BY <1>2, InputHandled
  <2>2. PrevOK(d, now)
    BY <1>2, <2>1 DEF PrevOK
  <2> HIDE DEF d
  <2> QED BY <1>1, <1>3, <2>1, <2>2, IowatchKeeps DEF d
<1>4. CASE IowatchEnd(rtc_detach(dev), FALSE)
  <2> DEFINE d == rtc_detach(dev)
  <2>1. DevOK(d, now) /\ d.iface = dev.iface /\ d.prev = dev.prev /\ d.alarm = dev.alarm
    BY <1>2, Detached
  <2>2. PrevOK(d, now)
    BY <1>2, <2>1 DEF PrevOK
  <2> HIDE DEF d
  <2> QED BY <1>1, <1>4, <2>1, <2>2, IowatchKeeps DEF d
<1> QED BY <1>3, <1>4 DEF RtcInput

\* linux_alarm_handle_input(): what the rtc was told last is still unset when
\* the module falls back to it.
LEMMA LinuxAlarmKeeps == IInv /\ linux_alarm_handle_input => IInv'
<1> SUFFICES ASSUME IInv, linux_alarm_handle_input PROVE IInv'
  OBVIOUS
<1>1. Idle /\ irq' = FALSE /\ clients' = clients /\ dev.iface = "timerfd"
  BY DEF linux_alarm_handle_input
<1>2. DevOK(dev, now) /\ PrevOK(dev, now)
  BY <1>1 DEF IInv, Idle
<1>3. CASE IowatchEnd(dev, TRUE)
  BY <1>1, <1>2, <1>3, IowatchKeeps
<1>4. CASE IowatchEnd([dev EXCEPT !.iface = "rtc", !.alarm = Off], FALSE)
  <2> DEFINE d == [dev EXCEPT !.iface = "rtc", !.alarm = Off]
  <2>1. d \in DevType /\ d.iface = "rtc" /\ d.prev = dev.prev /\ d.alarm = Off
        /\ d.need = dev.need /\ d.ended_id = dev.ended_id
    <3>1. Off \in Int
      BY DEF Off
    <3>2. d \in DevType
      BY <1>2, <3>1 DEF DevOK, DevType
    <3> QED BY <1>2, <3>2 DEF DevOK, DevType
  <2>2. dev.prev = <<Off, "unset">>
    BY <1>1, <1>2 DEF PrevOK
  <2> HIDE DEF d
  <2>3. DevOK(d, now) /\ PrevOK(d, now)
    BY <1>2, <2>1, <2>2 DEF DevOK, PrevOK
  <2> QED BY <1>1, <1>4, <2>3, IowatchKeeps DEF d
<1> QED BY <1>3, <1>4 DEF linux_alarm_handle_input

\* A step that leaves alone what stands for the clients, and adds none that want
\* to be resumed, keeps the invariant.
LEMMA QuietKeeps ==
  ASSUME IInv, Types', Windows(clients'), SuspendOK', CheckHoldsLock',
         DevOK(dev', now), running => PrevOK(dev', now),
         now' = now, heartbeat' = heartbeat, wakeup_timer' = wakeup_timer,
         running' = running, tv_now' = tv_now, lag' = lag, wakeup_clients_id' = wakeup_clients_id,
         unguarded' = unguarded,
         dev'.armed = dev.armed, dev'.alarm = dev.alarm,
         Watched' <=> Watched, Watched => irq' = irq,
         \A c \in Resumed' : c \in Resumed /\ clients'[c] = clients[c]
  PROVE  IInv'
<1> USE DEF IInv
<1>1. AlarmCovers' /\ StampOK'
  BY DEF AlarmCovers, StampOK
<1>2. WakeOK'
  <2> SUFFICES ASSUME running, ~unguarded, NEW c \in Resumed'
               PROVE  /\ now < clients'[c].maxtime + TPS
                      /\ wakeup_clients_id \/ scanning \/ InTime(c)' \/ ByAlarm(c)'
    BY DEF WakeOK
  <2>1. c \in Resumed /\ clients'[c] = clients[c]
    OBVIOUS
  <2>2. /\ now < clients[c].maxtime + TPS
        /\ wakeup_clients_id \/ scanning \/ InTime(c) \/ ByAlarm(c)
    BY <2>1 DEF WakeOK
  <2>3. InTime(c) => InTime(c)'
    BY <2>1 DEF InTime
  <2>4. ByAlarm(c) => ByAlarm(c)'
    BY <2>1 DEF ByAlarm
  <2> QED BY <2>1, <2>2, <2>3, <2>4
<1> QED BY <1>1, <1>2

\* DSM_MSGTYPE_WAIT
LEMMA WaitKeeps ==
  ASSUME IInv, NEW c \in Internals, NEW req \in InternalRequests, WAIT(c, req)
  PROVE  IInv'
<1> DEFINE n == client_handle_wait_req(req)
<1>1. /\ Idle /\ running' = running /\ suspended' = suspended /\ now' = now
      /\ heartbeat' = heartbeat /\ rtc_ok' = rtc_ok /\ tv_now' = tv_now /\ lag' = lag
      /\ timed' = timed /\ wakeup_timer' = wakeup_timer /\ unguarded' = unguarded
      /\ dev' = dev /\ irq' = irq
  BY DEF WAIT, envVars
<1>2. /\ DevOK(dev', now) /\ PrevOK(dev', now) /\ irq' \in BOOLEAN /\ now \in Nat
      /\ \A x \in DOMAIN clients : clients[x] \in ClientType
  BY <1>1 DEF IInv, Types, Idle
<1>3. req \in [mintime : Nat, maxtime : Nat, wakeup : BOOLEAN]
  BY IphbAssumption
<1>4. /\ n \in ClientType /\ (n.started => n.mintime <= n.maxtime /\ now <= n.maxtime)
      /\ n.wakeup => req.wakeup
  BY <1>2, <1>3, RequestHandled
<1>5. clients' = [x \in DOMAIN clients \cup {c} |-> IF x = c THEN n ELSE clients[x]]
  BY DEF WAIT
<1> HIDE DEF n
<1>6. \A x \in DOMAIN clients' :
        (x \in DOMAIN clients /\ clients'[x] = clients[x]) \/ clients'[x] = n
  BY <1>5
<1>7. CASE req.wakeup
  <2>1. wakeup_clients_id' = TRUE /\ "iphb_wakeup" \in wakelocks'
    BY <1>7 DEF WAIT, clientlist_wakeup_clients_later
  <2>2. \A x \in DOMAIN clients' :
           \/ x \in DOMAIN clients /\ clients'[x] = clients[x]
           \/ /\ clients'[x] \in ClientType
              /\ clients'[x].started => /\ clients'[x].mintime <= clients'[x].maxtime
                                        /\ now <= clients'[x].maxtime
    BY <1>4, <1>6
  <2> QED BY <1>1, <1>2, <2>1, <2>2, CheckKeeps
<1>8. CASE ~req.wakeup
  <2>1. wakeup_clients_id' = wakeup_clients_id /\ wakelocks' = wakelocks
    BY <1>8 DEF WAIT
  <2>2. \A x \in DOMAIN clients' : clients'[x] \in ClientType
    BY <1>2, <1>4, <1>6
  <2>3. Types'
    BY <1>1, <2>1, <2>2 DEF IInv, Types
  <2>4. Windows(clients')
    BY <1>4, <1>6 DEF IInv, Windows, Started
  <2>5. SuspendOK' /\ CheckHoldsLock'
    BY <1>1, <2>1 DEF IInv, SuspendOK, CheckHoldsLock, Idle
  <2>6. \A x \in Resumed' : x \in Resumed /\ clients'[x] = clients[x]
    BY <1>4, <1>6, <1>8 DEF Resumed, Started
  <2>7. Watched' <=> Watched
    BY <1>1 DEF Watched
  <2> QED BY <1>1, <1>2, <2>1, <2>3, <2>4, <2>5, <2>6, <2>7, QuietKeeps
<1> QED BY <1>7, <1>8

\* rtc_need_ended_cb(): nobody waits for an alarm of the rtc it closes.
LEMMA NeedEndedKeeps == IInv /\ rtc_need_ended_cb => IInv'
<1> SUFFICES ASSUME IInv, rtc_need_ended_cb PROVE IInv'
  OBVIOUS
<1>1. /\ running' = running /\ suspended' = suspended /\ now' = now
      /\ heartbeat' = heartbeat /\ rtc_ok' = rtc_ok /\ tv_now' = tv_now /\ lag' = lag
      /\ timed' = timed /\ wakeup_timer' = wakeup_timer /\ unguarded' = unguarded
      /\ wakeup_clients_id' = wakeup_clients_id /\ clients' = clients
      /\ wakelocks' = wakelocks
      /\ dev' = rtc_detach(dev) /\ irq' = (irq /\ dev.iface # "rtc")
      /\ Idle /\ dev.ended_id
  BY DEF rtc_need_ended_cb, envVars
<1>2. DevOK(dev, now) /\ PrevOK(dev, now)
  BY <1>1 DEF IInv, Idle
<1>3. /\ DevOK(dev', now) /\ dev'.iface = dev.iface /\ dev'.prev = dev.prev
      /\ dev'.alarm = dev.alarm /\ dev'.armed = dev.armed
  BY <1>1, <1>2, Detached
<1>4. PrevOK(dev', now)
  BY <1>2, <1>3 DEF PrevOK
<1>5. dev.need = {} /\ dev'.need = {}
  BY <1>1, <1>2 DEF DevOK, DevType, rtc_detach
<1>6. Watched' <=> Watched
  BY <1>3, <1>5 DEF Watched
<1>7. Watched => irq' = irq
  BY <1>1, <1>5 DEF Watched, IInv, Types
<1>8. Types'
  BY <1>1 DEF IInv, Types
<1>9. SuspendOK' /\ CheckHoldsLock' /\ Windows(clients')
  BY <1>1 DEF IInv, SuspendOK, CheckHoldsLock, Idle
<1>10. \A x \in Resumed' : x \in Resumed /\ clients'[x] = clients[x]
  BY <1>1 DEF Resumed
<1> QED BY <1>1, <1>3, <1>4, <1>6, <1>7, <1>8, <1>9, <1>10, QuietKeeps

\* Rethinking the alarm by itself, on a report of timed: a client that loses
\* what stood for it is what Stranded records.
LEMMA RethinkKeeps ==
  ASSUME IInv, Idle, timed' \in [alarm_powerup : Nat, alarm_resume : Nat],
         dev' = rtc_set_alarm_after(dev, sleeptime(clients, timed', now)),
         UNCHANGED <<envVars, running, clients, wakeup_timer, wakeup_clients_id,
                     tv_now, wakelocks, kernelfd, irq>>,
         lag' = 0, unguarded' = (unguarded \/ Stranded')
  PROVE  IInv'
<1> USE DEF IInv
<1>1. /\ running' = running /\ suspended' = suspended /\ now' = now
      /\ heartbeat' = heartbeat /\ rtc_ok' = rtc_ok /\ tv_now' = tv_now
      /\ wakeup_timer' = wakeup_timer /\ irq' = irq
      /\ wakeup_clients_id' = wakeup_clients_id /\ clients' = clients
      /\ wakelocks' = wakelocks
  BY DEF envVars
<1>2. DevOK(dev, now) /\ PrevOK(dev, now) /\ now \in Nat /\ running
      /\ (\A c \in DOMAIN clients : clients[c] \in ClientType)
  BY DEF Idle, Types
<1>3. /\ DevOK(dev', now) /\ PrevOK(dev', now)
      /\ (dev'.armed /\ dev'.iface \in {"timerfd", "rtc"}) =>
           \A c \in Started(clients) : (clients[c].wakeup /\ clients[c].maxtime > now) =>
             dev'.alarm # Off /\ dev'.alarm < clients[c].maxtime + TPS + (now - now)
  BY <1>2, Rethought
<1>4. Types'
  <2>1. unguarded' \in BOOLEAN
    BY DEF Types
  <2> QED BY <1>1, <2>1 DEF Types
<1>5. SuspendOK' /\ CheckHoldsLock' /\ Windows(clients') /\ StampOK'
  BY <1>1 DEF SuspendOK, CheckHoldsLock, Idle, StampOK
<1>6. ASSUME (Watched /\ dev.armed)', NEW c \in Resumed, clients[c].maxtime > now
      PROVE  dev'.alarm # Off /\ dev'.alarm < clients[c].maxtime + TPS
  <2>1. dev'.alarm # Off /\ dev'.alarm < clients[c].maxtime + TPS + (now - now)
    BY <1>3, <1>6 DEF Watched, Resumed
  <2>2. clients[c].maxtime + TPS + (now - now) = clients[c].maxtime + TPS
    BY <1>2, Lengths DEF Resumed, Started, ClientType
  <2> QED BY <2>1, <2>2
<1>7. AlarmCovers'
  <2> SUFFICES ASSUME (Watched /\ dev.armed)', NEW c \in Resumed, clients[c].maxtime > now
               PROVE  dev'.alarm # Off /\ dev'.alarm < clients[c].maxtime + TPS + 0
    BY <1>1 DEF AlarmCovers, Resumed
  <2>1. dev'.alarm # Off /\ dev'.alarm < clients[c].maxtime + TPS
    BY <1>6
  <2>2. clients[c].maxtime + TPS + 0 = clients[c].maxtime + TPS
    BY <1>2, Lengths DEF Resumed, Started, ClientType
  <2> QED BY <2>1, <2>2
<1>8. WakeOK'
  <2> SUFFICES ASSUME ~unguarded', NEW c \in Resumed'
               PROVE  /\ now' < clients'[c].maxtime + TPS
                      /\ (wakeup_clients_id \/ scanning \/ InTime(c) \/ ByAlarm(c))'
    BY DEF WakeOK
  <2>0. ~unguarded /\ ~Stranded' /\ c \in Resumed
    BY <1>1 DEF Resumed
  <2>1. now < clients[c].maxtime + TPS
    BY <1>2, <2>0 DEF WakeOK
  <2>2. clients[c].maxtime \in Int
    BY <1>2, <2>0 DEF Resumed, Started, ClientType
  <2>3. ASSUME ~wakeup_clients_id, ~InTime(c)' PROVE ByAlarm(c)'
    <3>1. c \notin Overdue' /\ (Watched /\ dev.armed)'
      BY <1>1, <2>0, <2>3 DEF Stranded
    <3>2. clients[c].maxtime > now
      BY <1>1, <1>2, <2>2, <3>1 DEF Overdue
    <3> QED BY <1>1, <1>6, <2>0, <3>1, <3>2 DEF ByAlarm
  <2> QED BY <1>1, <2>1, <2>3
<1> QED BY <1>1, <1>3, <1>4, <1>5, <1>7, <1>8

\* xtimed_alarm_status_cb()
LEMMA AlarmStatusKeeps ==
  ASSUME IInv, NEW p \in PowerupTimes, NEW r \in ResumeTimes,
         xtimed_alarm_status_cb(p, r)
  PROVE  IInv'
<1>1. p \in Nat /\ r \in Nat
  BY IphbAssumption
<1>2. timed' \in [alarm_powerup : Nat, alarm_resume : Nat]
  BY <1>1 DEF xtimed_alarm_status_cb
<1>3. /\ Idle /\ dev' = rtc_set_alarm_after(dev, sleeptime(clients, timed', now))
      /\ UNCHANGED <<envVars, running, clients, wakeup_timer, wakeup_clients_id,
                     tv_now, wakelocks, kernelfd, irq>>
      /\ lag' = 0 /\ unguarded' = (unguarded \/ Stranded')
  BY DEF xtimed_alarm_status_cb, clientlist_rethink_rtc_wakeup
<1> QED BY <1>2, <1>3, RethinkKeeps

\* xtimed_config_status_cb()
LEMMA ConfigStatusKeeps == IInv /\ xtimed_config_status_cb => IInv'
<1> SUFFICES ASSUME IInv, xtimed_config_status_cb PROVE IInv'
  OBVIOUS
<1>1. timed' = timed /\ timed' \in [alarm_powerup : Nat, alarm_resume : Nat]
  BY DEF xtimed_config_status_cb, IInv, Types
<1>2. /\ Idle /\ dev' = rtc_set_alarm_after(dev, sleeptime(clients, timed', now))
      /\ UNCHANGED <<envVars, running, clients, wakeup_timer, wakeup_clients_id,
                     tv_now, wakelocks, kernelfd, irq>>
      /\ lag' = 0 /\ unguarded' = (unguarded \/ Stranded')
  BY <1>1 DEF xtimed_config_status_cb, clientlist_rethink_rtc_wakeup
<1> QED BY <1>1, <1>2, RethinkKeeps
-----------------------------------------------------------------------------
(***************************************************************************)
(* Loading, unloading and crashing.                                        *)
(***************************************************************************)
\* A device nobody has touched, with the alarm that was left in the rtc.
LEMMA FreshDevOK ==
  ASSUME NEW i \in {"timerfd", "android", "rtc"}, NEW al \in Int, NEW t,
         al # Off => al > t
  PROVE  DevOK(FreshDev(i, al), t) /\ PrevOK(FreshDev(i, al), t)
<1> DEFINE d == FreshDev(i, al)
<1>1. d \in DevType
  BY Lengths DEF FreshDev, DevType
<1>2. d.ended_id = FALSE /\ d.need = {} /\ d.alarm = al /\ d.prev = <<Off, "unset">>
      /\ d.iface = i
  BY DEF FreshDev
<1>3. d.prev[2] = "unset"
  BY <1>2
<1> HIDE DEF d
<1>4. DevOK(d, t) /\ PrevOK(d, t)
  BY <1>1, <1>2, <1>3 DEF DevOK, PrevOK
<1> QED BY <1>4 DEF d

\* module_init()
LEMMA InitKeeps == IInv /\ module_init => IInv'
<1> SUFFICES ASSUME IInv, module_init PROVE IInv'
  OBVIOUS
<1> USE DEF IInv
<1>1. /\ ~running /\ ~suspended /\ running' = TRUE /\ suspended' = suspended
      /\ now' = now /\ heartbeat' = heartbeat /\ rtc_ok' = rtc_ok /\ clients' = clients
      /\ wakeup_timer' = wakeup_timer /\ wakeup_clients_id' = wakeup_clients_id
      /\ tv_now' = tv_now /\ lag' = lag /\ irq' = irq /\ timed' = timed /\ unguarded' = unguarded
      /\ wakelocks' = wakelocks \ {"rtc_wakeup", "rtc_input"}
  BY DEF module_init, envVars
<1>2. PICK i \in Interfaces : dev' = rtc_attach(FreshDev(i, dev.alarm))
  BY DEF module_init
<1>3. i \in {"timerfd", "android", "rtc"} /\ dev.alarm \in Int
      /\ (dev.alarm # Off => dev.alarm > now)
  BY IphbAssumption DEF DevOK, DevType
<1> DEFINE d == FreshDev(i, dev.alarm)
<1>4. DevOK(d, now) /\ PrevOK(d, now)
  BY <1>3, FreshDevOK
<1>5. dev' = rtc_attach(d)
  BY <1>2
<1> HIDE DEF d
<1>6. DevOK(dev', now) /\ dev'.iface = d.iface /\ dev'.prev = d.prev /\ dev'.alarm = d.alarm
  BY <1>4, <1>5, Attached
<1>7. PrevOK(dev', now)
  BY <1>4, <1>6 DEF PrevOK
<1>8. Types'
  BY <1>1 DEF Types
<1>9. Resumed' = {} /\ Windows(clients')
  BY <1>1 DEF SuspendOK, Resumed, Started, Windows
<1>10. AlarmCovers' /\ WakeOK' /\ StampOK'
  BY <1>1, <1>9 DEF AlarmCovers, WakeOK, StampOK
<1>11. SuspendOK' /\ CheckHoldsLock'
  BY <1>1 DEF SuspendOK, CheckHoldsLock
<1> QED BY <1>1, <1>6, <1>7, <1>8, <1>9, <1>10, <1>11

\* Once the module is gone nothing is promised but the order of the device.
LEMMA UnloadedKeeps ==
  ASSUME IInv, Unloaded, ~suspended, DevOK(dev', now)
  PROVE  IInv'
<1> USE DEF IInv
<1>1. /\ running' = FALSE /\ suspended' = suspended
      /\ now' = now /\ heartbeat' = heartbeat /\ rtc_ok' = rtc_ok /\ clients' = << >>
      /\ wakeup_timer' = Off /\ wakeup_clients_id' = FALSE
      /\ tv_now' = Off /\ lag' = 0 /\ irq' = FALSE /\ timed' = timed /\ unguarded' = FALSE
  BY DEF Unloaded, envVars
<1>2. DOMAIN clients' = {}
  BY <1>1
<1>3. Types'
  <2>1. tv_now' \in {Off} \cup 0 .. now /\ wakeup_timer' \in {Off} \cup Nat
        /\ lag' \in Nat
    BY <1>1
  <2>2. wakeup_clients_id' \in BOOLEAN /\ running' \in BOOLEAN /\ irq' \in BOOLEAN
        /\ unguarded' \in BOOLEAN
    BY <1>1
  <2> QED BY <1>1, <1>2, <2>1, <2>2 DEF Types
<1>4. Windows(clients') /\ SuspendOK' /\ CheckHoldsLock' /\ AlarmCovers' /\ WakeOK' /\ StampOK'
  BY <1>1, <1>2 DEF Windows, Started, SuspendOK, CheckHoldsLock, AlarmCovers, WakeOK, StampOK
<1> QED BY <1>1, <1>3, <1>4

\* module_fini(): the power-up alarm it leaves is ahead.
LEMMA FiniKeeps == IInv /\ module_fini => IInv'
<1> SUFFICES ASSUME IInv, module_fini PROVE IInv'
  OBVIOUS
<1>1. now \in Nat /\ DevOK(dev, now) /\ ~suspended /\ Unloaded
      /\ timed \in [alarm_powerup : Nat, alarm_resume : Nat]
  BY DEF IInv, Types, module_fini, Idle
<1> DEFINE off  == IF dev.iface = "rtc" THEN dev
                   ELSE [dev EXCEPT !.alarm = Off, !.iface = "rtc"]
           left == timed.alarm_powerup - Sec(now) - BOOT_ESTIMATE
           in   == IF left < BOOT_ESTIMATE THEN 0 ELSE left
           d    == rtc_attach(off)
           p    == rtc_set_alarm_powerup(off)
<1>2. dev' = rtc_detach(p)
  BY DEF module_fini
<1>3. DevOK(off, now)
  <2>1. Off \in Int
    BY DEF Off
  <2>2. off \in DevType
    BY <1>1, <2>1 DEF DevOK, DevType
  <2>3. off.need = dev.need /\ off.ended_id = dev.ended_id /\ off.alarm \in {Off, dev.alarm}
    BY <1>1 DEF DevOK, DevType
  <2> HIDE DEF off
  <2> QED BY <1>1, <2>2, <2>3 DEF DevOK
<1>4. Sec(now) \in Int /\ in \in Nat
  <2>1. Sec(now) \in Int
    BY <1>1, SecBounds
  <2>2. timed.alarm_powerup \in Nat
    BY <1>1
  <2>3. left \in Int
    BY <2>1, <2>2, Lengths
  <2> HIDE DEF left
  <2> QED BY <2>1, <2>3, Lengths
<1>5. p = IF d.fd /\ rtc_ok THEN rtc_set_alarm_raw(d, Sec(now) + in, in > 0) ELSE d
  BY DEF rtc_set_alarm_powerup
<1> HIDE DEF in
<1>6. Sec(now) + in \in Int /\ (in > 0 => (Sec(now) + in) * TPS > now)
  <2>1. in > 0 => Sec(now) < Sec(now) + in
    BY <1>4
  <2>2. in > 0 => Sec(now) * TPS + TPS <= (Sec(now) + in) * TPS
    BY <1>4, <2>1, TicksGrow
  <2>3. Sec(now) * TPS \in Int /\ (Sec(now) + in) * TPS \in Int /\ now < Sec(now) * TPS + TPS
    BY <1>1, <1>4, SecBounds, TicksGrow
  <2> QED BY <1>1, <1>4, <2>2, <2>3, Lengths
<1> HIDE DEF off
<1>7. DevOK(d, now)
  BY <1>3, Attached
<1> HIDE DEF d
<1>8. DevOK(p, now)
  <2> DEFINE sec == Sec(now) + in
             on  == in > 0
             r   == rtc_set_alarm_raw(d, sec, on)
  <2>1. p = r \/ p = d
    BY <1>5
  <2>2. sec \in Int /\ on \in BOOLEAN /\ (on => sec * TPS > now)
    BY <1>4, <1>6
  <2> HIDE DEF sec, on, p
  <2>3. DevOK(r, now)
    BY <1>1, <1>7, <2>2, RawSet
  <2> HIDE DEF r
  <2> QED BY <1>7, <2>1, <2>3
<1> HIDE DEF p
<1>9. DevOK(dev', now)
  BY <1>2, <1>8, Detached
<1> QED BY <1>1, <1>9, UnloadedKeeps

\* A crash leaves the alarm of the rtc, which is ahead.
LEMMA CrashKeeps == IInv /\ Crash => IInv'
<1> SUFFICES ASSUME IInv, Crash PROVE IInv'
  OBVIOUS
<1> DEFINE al == IF dev.iface = "rtc" THEN dev.alarm ELSE Off
<1>1. ~suspended /\ Unloaded /\ dev' = FreshDev("rtc", al)
  BY DEF Crash
<1>2. al \in Int /\ (al # Off => al > now)
  BY DEF IInv, DevOK, DevType, Off
<1> HIDE DEF al
<1>3. DevOK(dev', now)
  BY <1>1, <1>2, FreshDevOK
<1> QED BY <1>1, <1>3, UnloadedKeeps
-----------------------------------------------------------------------------
(***************************************************************************)
(* Time, suspend and resume.                                               *)
(***************************************************************************)
\* A tick takes the alarm when it is reached, and then somebody is told.
LEMMA AlarmTicks ==
  ASSUME IInv, AlarmAt(now + 1)
  PROVE  /\ DevOK(dev', now + 1)
         /\ running => PrevOK(dev', now + 1)
         /\ irq' \in BOOLEAN
         /\ dev'.armed = dev.armed
         /\ Watched' <=> Watched
         /\ \/ /\ dev.alarm = now + 1
               /\ dev'.alarm = Off
               /\ (running /\ Watched) => irq' = TRUE
            \/ /\ ~(dev.alarm # Off /\ now + 1 >= dev.alarm)
               /\ dev.alarm # Off => now + 1 < dev.alarm
               /\ dev' = dev
               /\ irq' = irq
<1>1. now \in Nat /\ irq \in BOOLEAN /\ running \in BOOLEAN
  BY DEF IInv, Types
<1>2. DevOK(dev, now) /\ (running => PrevOK(dev, now)) /\ dev \in DevType
      /\ dev.alarm \in Int /\ Off \in Int
  BY DEF IInv, DevOK, DevType, Off
<1>3. CASE dev.alarm # Off /\ now + 1 >= dev.alarm
  <2>1. dev' = [dev EXCEPT !.alarm = Off]
        /\ irq' = (running /\ (dev.iface = "timerfd" \/ (dev.iface = "rtc" /\ dev.fd)))
    BY <1>3 DEF AlarmAt
  <2>2. dev.alarm = now + 1
    BY <1>1, <1>2, <1>3 DEF DevOK
  <2>3. dev' \in DevType
    BY <1>2, <2>1 DEF DevType
  <2>4. /\ dev'.alarm = Off /\ dev'.armed = dev.armed /\ dev'.iface = dev.iface
        /\ dev'.fd = dev.fd /\ dev'.need = dev.need /\ dev'.prev = dev.prev
        /\ dev'.ended_id = dev.ended_id
    BY <1>2, <2>1 DEF DevType
  <2>5. DevOK(dev', now + 1)
    BY <1>2, <2>3, <2>4 DEF DevOK
  <2>6. ASSUME running PROVE PrevOK(dev', now + 1)
    <3>1. PrevOK(dev, now)
      BY <1>2, <2>6
    <3> QED BY <1>1, <1>3, <2>2, <2>4, <3>1 DEF PrevOK
  <2>7. Watched' <=> Watched
    BY <2>4 DEF Watched
  <2>8. (running /\ Watched) => irq' = TRUE
    BY <2>1 DEF Watched
  <2>9. irq' \in BOOLEAN
    BY <2>1
  <2> QED BY <2>2, <2>4, <2>5, <2>6, <2>7, <2>8, <2>9
<1>4. CASE ~(dev.alarm # Off /\ now + 1 >= dev.alarm)
  <2>1. dev' = dev /\ irq' = irq
    BY <1>4 DEF AlarmAt
  <2>2. dev.alarm # Off => now + 1 < dev.alarm
    BY <1>1, <1>2, <1>4
  <2>3. DevOK(dev', now + 1)
    BY <1>2, <2>1, <2>2 DEF DevOK
  <2>4. ASSUME running PROVE PrevOK(dev', now + 1)
    <3>1. PrevOK(dev, now)
      BY <1>2, <2>4
    <3>2. CASE dev.iface = "rtc" /\ dev.prev[2] = "on"
      <4>1. dev.prev[1] \in Int
        BY <1>2, <3>2 DEF DevType
      <4>2. dev.prev[1] * TPS \in Int
        BY <4>1, Lengths
      <4> QED BY <1>1, <2>1, <3>1, <3>2, <4>2 DEF PrevOK
    <3>3. CASE ~(dev.iface = "rtc" /\ dev.prev[2] = "on")
      BY <2>1, <3>1, <3>3 DEF PrevOK
    <3> QED BY <3>2, <3>3
  <2>5. Watched' <=> Watched
    BY <2>1 DEF Watched
  <2> QED BY <1>1, <1>4, <2>1, <2>2, <2>3, <2>4, <2>5
<1> QED BY <1>3, <1>4

\* A tick keeps the invariant when every client has the timer, the heartbeat or
\* an alarm that is in time.
LEMMA TimeKeeps ==
  ASSUME IInv, AlarmAt(now + 1), now' = now + 1, running' = running, clients' = clients,
         wakeup_clients_id' = wakeup_clients_id, tv_now' = tv_now, lag' = lag,
         wakelocks' = wakelocks, rtc_ok' = rtc_ok, timed' = timed,
         heartbeat' \in 0 .. HEARTBEAT_INTERVAL * TPS,
         wakeup_timer' \in {Off} \cup Nat, ~running => wakeup_timer' = Off,
         unguarded' \in BOOLEAN, unguarded => unguarded',
         suspended' = FALSE \/ (suspended /\ suspended' = ~(dev.alarm # Off /\ now + 1 >= dev.alarm)),
         (running /\ ~unguarded') => \A c \in Resumed :
            \/ InTime(c)' /\ now + 1 <= clients[c].maxtime
            \/ Watched /\ dev.armed /\ dev.alarm # Off /\ dev.alarm < clients[c].maxtime + TPS
  PROVE  IInv'
<1> USE DEF IInv
<1> DEFINE fires == dev.alarm # Off /\ now + 1 >= dev.alarm
<1>1. now \in Nat /\ now + 1 \in Nat /\ irq \in BOOLEAN /\ dev.alarm \in Int /\ Off \in Int
      /\ (\A c \in DOMAIN clients : clients[c] \in ClientType)
  BY DEF Types, DevOK, DevType, Off
<1>2. /\ DevOK(dev', now')
      /\ running' => PrevOK(dev', now')
      /\ irq' \in BOOLEAN
      /\ dev'.armed = dev.armed
      /\ Watched' <=> Watched
  BY AlarmTicks
<1>3. \/ /\ dev.alarm = now + 1
         /\ dev'.alarm = Off
         /\ (running /\ Watched) => irq' = TRUE
      \/ /\ ~fires
         /\ dev.alarm # Off => now + 1 < dev.alarm
         /\ dev' = dev
         /\ irq' = irq
  BY AlarmTicks
<1>4. Types'
  <2>1. suspended' \in BOOLEAN
    OBVIOUS
  <2> QED BY <1>1, <1>2, <2>1 DEF Types
<1>5. SuspendOK'
  <2>1. ASSUME suspended' PROVE wakelocks' = {} /\ ~irq'
    <3>1. suspended /\ ~fires
      BY <2>1
    <3>2. irq' = irq
      <4>1. ~(dev.alarm = now + 1)
        BY <1>1, <3>1 DEF Off
      <4> HIDE DEF fires
      <4> QED BY <1>3, <4>1
    <3> QED BY <3>1, <3>2 DEF SuspendOK
  <2> QED BY <2>1 DEF SuspendOK
<1>6. CheckHoldsLock' /\ Windows(clients') /\ StampOK'
  BY DEF CheckHoldsLock, StampOK
<1>7. Resumed' = Resumed /\ (\A c \in Resumed : clients[c].maxtime \in Int)
  BY <1>1 DEF Resumed, Started, ClientType
<1>8. AlarmCovers'
  <2> SUFFICES ASSUME running, ~wakeup_clients_id, ~scanning, ~irq', dev.armed, Watched,
                      NEW c \in Resumed, clients[c].maxtime > now + 1
               PROVE  dev'.alarm # Off /\ dev'.alarm < clients[c].maxtime + TPS + lag
    BY <1>2, <1>7 DEF AlarmCovers
  <2>1. dev' = dev /\ irq' = irq
    BY <1>3
  <2>2. clients[c].maxtime > now
    BY <1>1, <1>7
  <2> QED BY <2>1, <2>2 DEF AlarmCovers
<1>9. WakeOK'
  <2> SUFFICES ASSUME running, ~unguarded', NEW c \in Resumed
               PROVE  now + 1 < clients[c].maxtime + TPS /\ (InTime(c)' \/ ByAlarm(c)')
    BY <1>7 DEF WakeOK
  <2>1. CASE InTime(c)' /\ now + 1 <= clients[c].maxtime
    BY <1>1, <1>7, <2>1, Lengths
  <2>2. CASE Watched /\ dev.armed /\ dev.alarm # Off /\ dev.alarm < clients[c].maxtime + TPS
    <3>1. now + 1 < clients[c].maxtime + TPS
      BY <1>1, <1>3, <1>7, <2>2, Lengths
    <3>2. ByAlarm(c)'
      BY <1>2, <1>3, <2>2 DEF ByAlarm
    <3> QED BY <3>1, <3>2
  <2> QED BY <2>1, <2>2
<1> QED BY <1>2, <1>4, <1>5, <1>6, <1>8, <1>9

\* A tick of an awake device.
LEMMA TickKeeps == IInv /\ Tick => IInv'
<1> SUFFICES ASSUME IInv, Tick PROVE IInv'
  OBVIOUS
<1>1. /\ ~suspended /\ AlarmAt(now + 1) /\ now' = now + 1 /\ running' = running
      /\ clients' = clients /\ wakeup_clients_id' = wakeup_clients_id
      /\ tv_now' = tv_now /\ lag' = lag /\ wakelocks' = wakelocks /\ rtc_ok' = rtc_ok
      /\ timed' = timed /\ unguarded' = unguarded /\ suspended' = suspended
      /\ heartbeat' = (IF running THEN heartbeat - 1 ELSE heartbeat)
      /\ wakeup_timer' = (IF wakeup_timer = Off THEN Off ELSE wakeup_timer - 1)
  BY DEF Tick, otherThanTime
<1>2. running => /\ ~wakeup_clients_id /\ ~scanning /\ ~irq
                 /\ wakeup_timer # 0 /\ heartbeat > 0
  BY DEF Tick
<1>3. /\ now \in Nat /\ heartbeat \in Nat /\ heartbeat <= HEARTBEAT_INTERVAL * TPS
      /\ HEARTBEAT_INTERVAL * TPS \in Nat /\ wakeup_timer \in {Off} \cup Nat
      /\ unguarded' \in BOOLEAN /\ suspended' = FALSE
      /\ \A c \in DOMAIN clients : clients[c] \in ClientType
  BY <1>1, Lengths DEF IInv, Types
<1>4. ~running => wakeup_timer = Off
  BY DEF IInv, SuspendOK
<1>5. heartbeat' \in 0 .. HEARTBEAT_INTERVAL * TPS
  BY <1>1, <1>2, <1>3
<1>6. wakeup_timer' \in {Off} \cup Nat /\ (~running => wakeup_timer' = Off)
  BY <1>1, <1>2, <1>3, <1>4
<1>7. ASSUME running, ~unguarded', NEW c \in Resumed
      PROVE  \/ InTime(c)' /\ now + 1 <= clients[c].maxtime
             \/ Watched /\ dev.armed /\ dev.alarm # Off
                /\ dev.alarm < clients[c].maxtime + TPS
  <2>1. InTime(c) \/ ByAlarm(c)
    BY <1>1, <1>2, <1>7 DEF IInv, WakeOK
  <2>2. clients[c].maxtime \in Int
    BY <1>3 DEF Resumed, Started, ClientType
  <2>3. CASE ByAlarm(c)
    BY <1>2, <1>7, <2>3 DEF ByAlarm
  <2>4. CASE wakeup_timer # Off /\ now + wakeup_timer <= clients[c].maxtime
    <3>1. wakeup_timer \in Nat \ {0}
      BY <1>2, <1>3, <1>7, <2>4
    <3>2. wakeup_timer' = wakeup_timer - 1 /\ wakeup_timer' # Off
      BY <1>1, <2>4, <3>1 DEF Off
    <3> QED BY <1>1, <1>3, <2>2, <2>4, <3>1, <3>2 DEF InTime
  <2>5. CASE now + heartbeat <= clients[c].maxtime
    <3>1. heartbeat > 0 /\ heartbeat' = heartbeat - 1
      BY <1>1, <1>2, <1>7
    <3> QED BY <1>1, <1>3, <2>2, <2>5, <3>1 DEF InTime
  <2> QED BY <2>1, <2>3, <2>4, <2>5 DEF InTime
<1> QED BY <1>1, <1>3, <1>5, <1>6, <1>7, TimeKeeps

\* A tick of a suspended device: the alarm is what stands for the clients, or
\* unguarded says that nothing does.
LEMMA SuspendedTickKeeps == IInv /\ SuspendedTick => IInv'
<1> SUFFICES ASSUME IInv, SuspendedTick PROVE IInv'
  OBVIOUS
<1>1. /\ suspended /\ AlarmAt(now + 1) /\ now' = now + 1 /\ running' = running
      /\ clients' = clients /\ wakeup_clients_id' = wakeup_clients_id
      /\ tv_now' = tv_now /\ lag' = lag /\ wakelocks' = wakelocks /\ rtc_ok' = rtc_ok
      /\ timed' = timed /\ heartbeat' = heartbeat /\ wakeup_timer' = wakeup_timer
      /\ suspended' = ~(dev.alarm # Off /\ now + 1 >= dev.alarm)
      /\ unguarded' = (unguarded \/ ~Guarded)
  BY DEF SuspendedTick, otherThanTime
<1>2. /\ now \in Nat /\ heartbeat' \in 0 .. HEARTBEAT_INTERVAL * TPS
      /\ wakeup_timer' \in {Off} \cup Nat
      /\ unguarded' \in BOOLEAN
      /\ \A c \in DOMAIN clients : clients[c] \in ClientType
  BY <1>1 DEF IInv, Types
<1>3. ~running => wakeup_timer' = Off
  BY <1>1 DEF IInv, SuspendOK
<1>4. ASSUME running, ~unguarded', NEW c \in Resumed
      PROVE  Watched /\ dev.armed /\ dev.alarm # Off
             /\ dev.alarm < clients[c].maxtime + TPS
  <2>1. Guarded
    BY <1>1, <1>4
  <2>2. ~wakeup_clients_id /\ ~irq
    BY <1>1 DEF IInv, SuspendOK, CheckHoldsLock
  <2>3. clients[c].maxtime \in Int
    BY <1>2 DEF Resumed, Started, ClientType
  <2>4. clients[c].maxtime > now
    BY <1>2, <2>1, <2>3 DEF Guarded, Overdue
  <2>5. dev.alarm < clients[c].maxtime + TPS + lag
    BY <1>4, <2>1, <2>2, <2>4 DEF Guarded, IInv, AlarmCovers
  <2>6. lag = 0
    BY <1>1, <1>4 DEF IInv, StampOK
  <2>7. clients[c].maxtime + TPS + 0 = clients[c].maxtime + TPS
    BY <2>3, Lengths
  <2> QED BY <2>1, <2>5, <2>6, <2>7 DEF Guarded
<1> QED BY <1>1, <1>2, <1>3, <1>4, TimeKeeps

\* The other steps of the device change nothing that stands for a client.
LEMMA DeviceKeeps ==
  ASSUME IInv, Suspend \/ Resume \/ RtcWakeupEnds \/ RtcAppears \/ UNCHANGED vars
  PROVE  IInv'
<1>1. /\ running' = running /\ now' = now /\ heartbeat' = heartbeat
      /\ tv_now' = tv_now /\ lag' = lag /\ timed' = timed /\ wakeup_timer' = wakeup_timer
      /\ unguarded' = unguarded /\ wakeup_clients_id' = wakeup_clients_id
      /\ clients' = clients /\ dev' = dev /\ irq' = irq
  BY DEF Suspend, Resume, RtcWakeupEnds, RtcAppears, vars, otherThanTime, envVars
<1>2. suspended' \in BOOLEAN /\ rtc_ok' \in BOOLEAN
  BY DEF Suspend, Resume, RtcWakeupEnds, RtcAppears, vars, otherThanTime, envVars,
         IInv, Types
<1>3. Types'
  BY <1>1, <1>2 DEF IInv, Types
<1>4. wakelocks' = wakelocks \/ wakelocks' = wakelocks \ {"rtc_wakeup"}
  BY DEF Suspend, Resume, RtcWakeupEnds, RtcAppears, vars, otherThanTime
<1>5. suspended' => (suspended \/ (wakelocks = {} /\ ~irq))
  BY DEF Suspend, Resume, RtcWakeupEnds, RtcAppears, vars, envVars
<1>6. SuspendOK'
  BY <1>1, <1>4, <1>5 DEF IInv, SuspendOK
<1>7. CheckHoldsLock'
  BY <1>1, <1>4 DEF IInv, CheckHoldsLock
<1>8. /\ Windows(clients') /\ DevOK(dev', now) /\ (running => PrevOK(dev', now))
      /\ (Watched' <=> Watched)
      /\ \A c \in Resumed' : c \in Resumed /\ clients'[c] = clients[c]
  BY <1>1 DEF IInv, Watched, Resumed
<1> QED BY <1>1, <1>3, <1>6, <1>7, <1>8, QuietKeeps
-----------------------------------------------------------------------------
(***************************************************************************)
(* The theorems.                                                           *)
(***************************************************************************)
\* IInv holds at the start, and every step of iphb.c and of the device keeps it:
\* the time stamps, the rtc, its remembered alarm, the wakelock of the check and
\* what stands for every client that wants to be resumed.  A scan may go on with a
\* time stamp that is older than a suspend; what it leaves then is accounted for by
\* lag and unguarded.
THEOREM IphbSafety == Spec => []IInv
<1>1. Init => IInv
  <2> SUFFICES ASSUME Init PROVE IInv
    OBVIOUS
  <2>1. DOMAIN clients = {}
    BY DEF Init
  <2>2. Types
    <3>1. rtc_ok \in BOOLEAN
      BY IphbAssumption DEF Init
    <3>2. HEARTBEAT_INTERVAL * TPS \in 0 .. HEARTBEAT_INTERVAL * TPS
      BY Lengths
    <3>3. timed \in [alarm_powerup : Nat, alarm_resume : Nat]
      BY DEF Init
    <3> QED BY <2>1, <3>1, <3>2, <3>3 DEF Init, Types
  <2>3. DevOK(dev, now)
    <3>1. Off \in Int
      BY DEF Off
    <3> QED BY <3>1, FreshDevOK DEF Init
  <2>4. Windows(clients) /\ SuspendOK /\ CheckHoldsLock /\ AlarmCovers /\ StampOK /\ WakeOK
    BY <2>1 DEF Init, Windows, Started, SuspendOK, CheckHoldsLock, AlarmCovers, WakeOK, StampOK
  <2> QED BY <2>2, <2>3, <2>4 DEF IInv, Init
<1>2. IInv /\ [Next]_vars => IInv'
  BY HeartbeatKeeps, FinishKeeps, TimeoutKeeps, CheckRunsKeeps, WaitKeeps, ConnectKeeps,
     ClientWaitKeeps, KernelEventKeeps, RtcInputKeeps, LinuxAlarmKeeps, NeedEndedKeeps,
     AlarmStatusKeeps, ConfigStatusKeeps, InitKeeps, FiniKeeps, CrashKeeps, TickKeeps,
     SuspendedTickKeeps, DeviceKeeps DEF Next
<1> QED BY <1>1, <1>2, PTL DEF Spec

\* "A wakelock must be held while waiting for timeout": whichever callbacks
\* schedule, run and cancel the delayed check of iphb.c.
THEOREM CheckAlwaysLocked == Spec => []CheckHoldsLock
BY IphbSafety, PTL DEF IInv

\* With no check pending, the alarm that clientlist_rethink_rtc_wakeup() armed is
\* late for every client that wants to be resumed by less than a second plus the age
\* of the time stamp it was programmed from.
THEOREM AlarmAlwaysCovers == Spec => []AlarmCovers
BY IphbSafety, PTL DEF IInv

\* A client that wants to be resumed is woken before its maxtime is a second
\* past, unless one of the gaps that Guarded and Stranded name was met, or the last
\* scan had a time stamp that was not the current time.
THEOREM WokenInTimeAlways == Spec => []WokenInTime
<1>1. IInv => WokenInTime
  BY DEF IInv, WakeOK, WokenInTime
<1> QED BY <1>1, IphbSafety, PTL
=============================================================================
