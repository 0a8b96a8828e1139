------------------------- MODULE PowerControlProofs -------------------------
(***************************************************************************)
(* Proofs about the device state policy, alone (Spec) and behind the dsme  *)
(* message queue (PSpec), for every build option, battery level, boot      *)
(* state, set of inputs, pattern of failures and length of the queue.      *)
(***************************************************************************)
EXTENDS PowerControl, StateProperties, SequenceTheorems, TLAPS

(***************************************************************************)
(* The policy.  Good(s) is the inductive invariant as a predicate of the   *)
(* record the C functions work on.  There is one lemma per function; a     *)
(* handler then follows by composing the lemmas of the functions it calls. *)
(***************************************************************************)
SentOK(s) == \A i \in DOMAIN s.sent : s.sent[i].type = "SHUTDOWN" => s.sent[i].arg \in Down

TimersOK(s) ==
  /\ "delayed_shutdown" \in s.timers => s.state \in Down
  /\ "delayed_actdead" \in s.timers => s.state = "ACTDEAD"
  /\ "delayed_user" \in s.timers => s.state = "USER"

HoldOK(s) == "emergency_call_ongoing" \in s.bits => s.timers \cap RunlevelTimer = {}

Good(s) == s \in Statics /\ SentOK(s) /\ TimersOK(s) /\ HoldOK(s)

InCall(s) == "emergency_call_ongoing" \in s.bits

\* The bits that hold or force a state: no change of state touches them.
Watched == {"shutdown_blocked", "device_overheated", "battery_empty",
            "emergency_call_ongoing"}

SameWatch(r, s) == \A b \in Watched : b \in r.bits <=> b \in s.bits

\* A blocked device that is not in the state of s is overheated or empty.
BlockHolds(r, s) ==
  "shutdown_blocked" \in r.bits /\ r.state # s.state
    => "device_overheated" \in r.bits \/ "battery_empty" \in r.bits

\* r differs from s in what no runlevel timer depends on.
SameRun(r, s) == r.state = s.state /\ r.timers = s.timers

\* Quitting the main loop touches nothing else.
LEMMA QuitChangesLoop ==
  ASSUME NEW s \in Statics
  PROVE  /\ dsme_main_loop_quit(s) \in Statics
         /\ dsme_main_loop_quit(s).sent = s.sent
         /\ dsme_main_loop_quit(s).bits = s.bits
         /\ SameRun(dsme_main_loop_quit(s), s)
BY DEF dsme_main_loop_quit, Statics, LoopState, SameRun

\* Setting any bit but the emergency call's keeps the invariant.
LEMMA SetBitGood ==
  ASSUME NEW s, Good(s), NEW b \in Bit \ {"emergency_call_ongoing"}, NEW v \in BOOLEAN
  PROVE  /\ Good(set_bit(s, b, v))
         /\ SameRun(set_bit(s, b, v), s)
         /\ InCall(set_bit(s, b, v)) = InCall(s)
BY DEF Good, SentOK, TimersOK, HoldOK, Statics, set_bit, SameRun, InCall

\* Broadcasting anything but a SHUTDOWN order keeps the invariant.
LEMMA BroadcastGood ==
  ASSUME NEW s, Good(s), NEW type \in MsgType \ {"SHUTDOWN"}, NEW arg \in DeviceState
  PROVE  /\ Good(broadcast(s, type, arg))
         /\ SameRun(broadcast(s, type, arg), s)
         /\ InCall(broadcast(s, type, arg)) = InCall(s)
<1> DEFINE r == broadcast(s, type, arg)
<1>1. Msg(type, arg) \in Message /\ Msg(type, arg).type # "SHUTDOWN"
  BY DEF Msg, Message
<1>2. s.sent \in Seq(Message)
  BY DEF Good, Statics
<1>3. Append(s.sent, Msg(type, arg)) \in Seq(Message)
  BY <1>1, <1>2
<1>4. r \in Statics
  BY <1>3 DEF Good, Statics, broadcast
<1>5. r.sent = Append(s.sent, Msg(type, arg))
  BY DEF Good, Statics, broadcast
<1>6. SentOK(r)
  BY <1>1, <1>2, <1>5 DEF Good, SentOK
<1>7. r.state = s.state /\ r.timers = s.timers /\ r.bits = s.bits
  BY DEF Good, Statics, broadcast
<1> QED
  BY <1>4, <1>6, <1>7 DEF Good, TimersOK, HoldOK, SameRun, InCall

\* set_charger_state() keeps the invariant.
LEMMA SetChargerGood ==
  ASSUME NEW s, Good(s), NEW c \in ChargerState
  PROVE  /\ Good(set_charger_state(s, c))
         /\ SameRun(set_charger_state(s, c), s)
BY DEF Good, SentOK, TimersOK, HoldOK, Statics, set_charger_state, SameRun

\* Stopping timers keeps the invariant.
LEMMA StopTimersGood ==
  ASSUME NEW s, Good(s), NEW ts
  PROVE  Good(stop_timers(s, ts)) /\ stop_timers(s, ts).state = s.state
BY DEF Good, SentOK, TimersOK, HoldOK, Statics, stop_timers

\* The timers that only delay a state bit may be started at any time.
LEMMA StartBitTimerGood ==
  ASSUME NEW s, Good(s), NEW t \in Timer \ RunlevelTimer
  PROVE  Good(start_timer(s, t)) /\ start_timer(s, t).state = s.state
BY DEF Good, SentOK, TimersOK, HoldOK, Statics, start_timer, Timer, RunlevelTimer

\* change_state() keeps everything but the timers' agreement with the state.
LEMMA ChangeState ==
  ASSUME NEW s, Good(s), NEW new \in DeviceState
  PROVE  LET r == change_state(s, new) IN
         /\ r \in Statics /\ SentOK(r) /\ HoldOK(r)
         /\ r.state = new /\ r.timers = s.timers /\ InCall(r) = InCall(s)
<1> DEFINE q == IF new \in Down THEN broadcast(s, "SAVE_DATA_IND", new) ELSE s
<1> DEFINE w == broadcast(q, "STATE_CHANGE_IND", new)
<1>1. Good(q) /\ SameRun(q, s) /\ InCall(q) = InCall(s)
  BY BroadcastGood DEF MsgType, SameRun
<1>2. Good(w) /\ SameRun(w, q) /\ InCall(w) = InCall(q)
  BY <1>1, BroadcastGood DEF MsgType
<1>3. change_state(s, new) = [w EXCEPT !.state = new]
  BY DEF change_state
<1> HIDE DEF q, w
<1> QED
  BY <1>1, <1>2, <1>3 DEF Good, SentOK, HoldOK, Statics, SameRun, InCall

\* Going down outside a call leaves at most the shutdown timer running.
LEMMA GoDownGood ==
  ASSUME NEW s, Good(s), ~InCall(s), NEW new \in Down, NEW e \in Env
  PROVE  /\ Good(go_down(s, new, e)) /\ go_down(s, new, e).state = new
         /\ ~InCall(go_down(s, new, e))
<1> DEFINE r == change_state(s, new)
<1>1. /\ r \in Statics /\ SentOK(r) /\ HoldOK(r)
      /\ r.state = new /\ r.timers = s.timers /\ ~InCall(r)
  BY ChangeState DEF Down, DeviceState
<1> HIDE DEF r
<1>2. CASE "delayed_shutdown" \in r.timers
  <2>1. go_down(s, new, e) = r
    BY <1>2 DEF go_down, start_delayed_shutdown_timer, r
  <2> QED
    BY <1>1, <1>2, <2>1 DEF Good, TimersOK, RunlevelTimer, Down
<1>3. CASE "delayed_shutdown" \notin r.timers
  <2> DEFINE q == stop_delayed_runlevel_timers(r)
  <2>1. /\ q \in Statics /\ SentOK(q) /\ q.state = new
        /\ q.timers \cap RunlevelTimer = {} /\ ~InCall(q)
    BY <1>1 DEF stop_delayed_runlevel_timers, stop_timers, Statics, SentOK, InCall
  <2>2. \/ go_down(s, new, e) = dsme_main_loop_quit(q)
        \/ go_down(s, new, e) = start_timer(q, "delayed_shutdown")
    BY <1>3 DEF go_down, start_delayed_shutdown_timer, r
  <2> HIDE DEF q
  <2>3. /\ Good(dsme_main_loop_quit(q)) /\ dsme_main_loop_quit(q).state = new
        /\ ~InCall(dsme_main_loop_quit(q))
    BY <2>1, QuitChangesLoop DEF Good, SentOK, TimersOK, HoldOK, SameRun,
                                 RunlevelTimer, InCall
  <2>4. /\ Good(start_timer(q, "delayed_shutdown"))
        /\ ~InCall(start_timer(q, "delayed_shutdown"))
        /\ start_timer(q, "delayed_shutdown").state = new
    BY <2>1 DEF Good, SentOK, TimersOK, HoldOK, Statics, start_timer,
                RunlevelTimer, Timer, Down, InCall
  <2> QED
    BY <2>2, <2>3, <2>4
<1> QED
  BY <1>2, <1>3

\* A direct switch between USER and ACTDEAD starts the timer of its target.
LEMMA SwitchRunlevelGood ==
  ASSUME NEW s, Good(s), ~InCall(s), NEW e \in Env, NEW new, NEW t,
         \/ new = "USER" /\ t = "delayed_user"
         \/ new = "ACTDEAD" /\ t = "delayed_actdead"
  PROVE  /\ Good(switch_runlevel(s, new, t, e))
         /\ switch_runlevel(s, new, t, e).state \in {s.state, new}
         /\ ~InCall(switch_runlevel(s, new, t, e))
<1>1. CASE s.timers \cap RunlevelTimer # {}
  BY <1>1 DEF switch_runlevel
<1>2. CASE s.timers \cap RunlevelTimer = {} /\ t \in e.fails
  BY <1>2, QuitChangesLoop DEF switch_runlevel, Good, SentOK, TimersOK, HoldOK,
                               SameRun, InCall
<1>3. CASE s.timers \cap RunlevelTimer = {} /\ t \notin e.fails
  <2> DEFINE q == start_timer(s, t)
             r == change_state(q, new)
  <2>1. switch_runlevel(s, new, t, e) = r
    BY <1>3 DEF switch_runlevel
  <2>2. /\ q \in Statics /\ SentOK(q) /\ q.timers = s.timers \cup {t}
        /\ q.state = s.state /\ ~InCall(q) /\ q.bits = s.bits
    BY DEF start_timer, Good, Statics, SentOK, InCall, Timer, RunlevelTimer
  <2> DEFINE w == broadcast(q, "STATE_CHANGE_IND", new)
  <2>3. r = [w EXCEPT !.state = new]
    BY DEF change_state, Down
  <2>5. w = start_timer(broadcast(s, "STATE_CHANGE_IND", new), t)
    BY DEF broadcast, start_timer, Good, Statics
  <2>6. /\ Good(broadcast(s, "STATE_CHANGE_IND", new))
        /\ SameRun(broadcast(s, "STATE_CHANGE_IND", new), s)
        /\ ~InCall(broadcast(s, "STATE_CHANGE_IND", new))
    BY BroadcastGood DEF MsgType, DeviceState
  <2> DEFINE b == broadcast(s, "STATE_CHANGE_IND", new)
  <2> HIDE DEF b, w, q, r
  <2>7. r = [start_timer(b, t) EXCEPT !.state = new]
    BY <2>3, <2>5 DEF b
  <2>8. Good(b) /\ SameRun(b, s) /\ ~InCall(b)
    BY <2>6 DEF b
  <2>9. Good(r) /\ r.state = new /\ ~InCall(r)
    BY <1>3, <2>7, <2>8 DEF Good, SentOK, TimersOK, HoldOK, Statics,
         start_timer, RunlevelTimer, Timer, SameRun, InCall, DeviceState
  <2> QED
    BY <2>1, <2>9
<1> QED
  BY <1>1, <1>2, <1>3

\* try_to_change_state() outside a call, to another state, is safe, and it
\* never leaves SHUTDOWN or REBOOT for a state the device is up in.
LEMMA TryToChangeStateGood ==
  ASSUME NEW s, Good(s), ~InCall(s), NEW e \in Env,
         NEW new \in DeviceState \ {"NOT_SET"}, new # s.state
  PROVE  /\ Good(try_to_change_state(s, new, e))
         /\ s.state \in Down => try_to_change_state(s, new, e).state \in Down
         /\ ~InCall(try_to_change_state(s, new, e))
<1> DEFINE r == try_to_change_state(s, new, e)
<1>1. CASE new \in Down
  BY <1>1, GoDownGood DEF try_to_change_state
<1>2. CASE new \notin Down /\ s.state = "NOT_SET"
  <2>1. r = change_state(s, new)
    BY <1>2 DEF try_to_change_state
  <2>2. s.timers \cap RunlevelTimer = {}
    BY <1>2 DEF Good, TimersOK, RunlevelTimer, Down
  <2> QED
    BY <1>2, <2>1, <2>2, ChangeState DEF Good, TimersOK, RunlevelTimer, Down
<1>3. CASE new = "USER" /\ s.state = "ACTDEAD"
  <2>1. r = leave_actdead(s, new, e)
    BY <1>3 DEF try_to_change_state, Down
  <2>2. CASE s.level < DSME_MINIMUM_BATTERY_TO_USER
    BY <1>3, <2>1, <2>2, SetBitGood DEF leave_actdead, Bit, Down
  <2>3. CASE ~(s.level < DSME_MINIMUM_BATTERY_TO_USER)
    <3> DEFINE q == set_bit(s, "user_switch_done", FALSE)
    <3>1. Good(q) /\ ~InCall(q) /\ q.state = "ACTDEAD"
      BY <1>3, SetBitGood DEF Bit, SameRun
    <3>2. r = IF DirectUserActdead THEN switch_runlevel(q, new, "delayed_user", e)
              ELSE go_down(q, "REBOOT", e)
      BY <2>1, <2>3 DEF leave_actdead
    <3> HIDE DEF q, r
    <3> QED
      BY <1>3, <3>1, <3>2, SwitchRunlevelGood, GoDownGood DEF Down, r
  <2> QED
    BY <2>2, <2>3
<1>4. CASE new = "ACTDEAD" /\ s.state = "USER"
  <2> DEFINE q == set_bit(s, "actdead_switch_done", FALSE)
  <2>1. Good(q) /\ ~InCall(q) /\ q.state = "USER"
    BY <1>4, SetBitGood DEF Bit, SameRun
  <2>2. r = IF DirectUserActdead THEN switch_runlevel(q, new, "delayed_actdead", e)
            ELSE go_down(q, IF e.use_reboot THEN "REBOOT" ELSE "SHUTDOWN", e)
    BY <1>4 DEF try_to_change_state, leave_user, Down
  <2> HIDE DEF q, r
  <2> QED
    BY <1>4, <2>1, <2>2, SwitchRunlevelGood, GoDownGood DEF Down, r
<1>5. CASE /\ new \notin Down /\ s.state # "NOT_SET"
           /\ ~(new = "USER" /\ s.state = "ACTDEAD")
           /\ ~(new = "ACTDEAD" /\ s.state = "USER")
  BY <1>5 DEF try_to_change_state
<1> QED
  BY <1>1, <1>2, <1>3, <1>4, <1>5

\* Changing the state changes no bit.
LEMMA ChangeStateKeepsBits ==
  ASSUME NEW s \in Statics, NEW new
  PROVE  change_state(s, new).bits = s.bits
BY DEF change_state, broadcast, Statics

\* Nor does going down, with or without a timer.
LEMMA GoDownKeepsBits ==
  ASSUME NEW s \in Statics, NEW new \in DeviceState, NEW e
  PROVE  go_down(s, new, e).bits = s.bits
<1> DEFINE r == change_state(s, new)
<1>1. r \in [bits : SUBSET Bit, charger : ChargerState,
             level : BatteryLevels \cup {DSME_BATTERY_LEVEL_UNKNOWN},
             state : DeviceState, timers : SUBSET Timer,
             sent : {r.sent}, loop : LoopState] /\ r.bits = s.bits
  BY DEF change_state, broadcast, Statics
<1> HIDE DEF r
<1>2. go_down(s, new, e) = start_delayed_shutdown_timer(r, e)
  BY DEF go_down, r
<1> QED
  BY <1>1, <1>2 DEF start_delayed_shutdown_timer, stop_delayed_runlevel_timers,
       stop_timers, start_timer, dsme_main_loop_quit

\* Nor does a direct switch of the runlevel.
LEMMA SwitchKeepsBits ==
  ASSUME NEW s \in Statics, NEW new, NEW t \in Timer, NEW e
  PROVE  switch_runlevel(s, new, t, e).bits = s.bits
<1>1. start_timer(s, t) \in Statics /\ start_timer(s, t).bits = s.bits
  BY DEF start_timer, Statics
<1>2. change_state(start_timer(s, t), new).bits = s.bits
  BY <1>1, ChangeStateKeepsBits
<1>3. dsme_main_loop_quit(s).bits = s.bits
  BY QuitChangesLoop
<1> QED
  BY <1>2, <1>3 DEF switch_runlevel

\* try_to_change_state() changes only requests and switch flags.
LEMMA TryKeepsWatch ==
  ASSUME NEW s \in Statics, NEW new \in DeviceState, NEW e
  PROVE  SameWatch(try_to_change_state(s, new, e), s)
<1>1. ASSUME NEW b \in {"shutdown_requested", "user_switch_done", "actdead_switch_done"},
             NEW v \in BOOLEAN
      PROVE  set_bit(s, b, v) \in Statics /\ SameWatch(set_bit(s, b, v), s)
  BY <1>1 DEF set_bit, Statics, SameWatch, Watched, Bit
<1>2. ASSUME NEW q \in Statics, SameWatch(q, s)
      PROVE  /\ \A n \in DeviceState : SameWatch(go_down(q, n, e), s)
             /\ \A t \in Timer : SameWatch(switch_runlevel(q, new, t, e), s)
  BY <1>2, GoDownKeepsBits, SwitchKeepsBits DEF SameWatch
<1>3. /\ {"REBOOT", "SHUTDOWN"} \subseteq DeviceState
      /\ {"delayed_user", "delayed_actdead"} \subseteq Timer
  BY DEF DeviceState, Timer, RunlevelTimer
<1>4. SameWatch(s, s)
  BY DEF SameWatch
<1>5. SameWatch(leave_actdead(s, new, e), s)
  <2> DEFINE q == set_bit(s, "user_switch_done", FALSE)
  <2>1. q \in Statics /\ SameWatch(q, s)
    BY <1>1
  <2>2. SameWatch(set_bit(s, "shutdown_requested", TRUE), s)
    BY <1>1
  <2>3. \/ leave_actdead(s, new, e) = set_bit(s, "shutdown_requested", TRUE)
        \/ leave_actdead(s, new, e) = switch_runlevel(q, new, "delayed_user", e)
        \/ leave_actdead(s, new, e) = go_down(q, "REBOOT", e)
    BY DEF leave_actdead
  <2> HIDE DEF q
  <2> QED
    BY <1>2, <1>3, <2>1, <2>2, <2>3
<1>6. SameWatch(leave_user(s, new, e), s)
  <2> DEFINE q == set_bit(s, "actdead_switch_done", FALSE)
  <2>1. q \in Statics /\ SameWatch(q, s)
    BY <1>1
  <2>2. \/ leave_user(s, new, e) = switch_runlevel(q, new, "delayed_actdead", e)
        \/ leave_user(s, new, e) = go_down(q, "REBOOT", e)
        \/ leave_user(s, new, e) = go_down(q, "SHUTDOWN", e)
    BY DEF leave_user
  <2> HIDE DEF q
  <2> QED
    BY <1>2, <1>3, <2>1, <2>2
<1>7. SameWatch(change_state(s, new), s)
  BY ChangeStateKeepsBits DEF SameWatch
<1>8. SameWatch(go_down(s, new, e), s)
  BY <1>2, <1>4
<1> QED
  BY <1>4, <1>5, <1>6, <1>7, <1>8 DEF try_to_change_state

\* select_state() selects a state; in a call it selects the current one.
LEMMA SelectState ==
  ASSUME NEW s, Good(s)
  PROVE  /\ select_state(s) \in DeviceState
         /\ InCall(s) => select_state(s) = s.state
         /\ select_state(s) # s.state => select_state(s) # "NOT_SET"
BY DEF Good, Statics, select_state, on, InCall, DeviceState

\* change_state_if_necessary() keeps the invariant and never returns from down.
LEMMA ChangeGood ==
  ASSUME NEW s, Good(s), NEW e \in Env
  PROVE  /\ Good(change_state_if_necessary(s, e))
         /\ s.state \in Down => change_state_if_necessary(s, e).state \in Down
         /\ InCall(s) => change_state_if_necessary(s, e) = s
         /\ InCall(change_state_if_necessary(s, e)) => InCall(s)
         /\ SameWatch(change_state_if_necessary(s, e), s)
         /\ BlockHolds(change_state_if_necessary(s, e), s)
<1>1. CASE select_state(s) = s.state
  BY <1>1 DEF change_state_if_necessary, SameWatch, BlockHolds
<1>2. CASE select_state(s) # s.state
  <2>1. change_state_if_necessary(s, e) = try_to_change_state(s, select_state(s), e)
    BY <1>2 DEF change_state_if_necessary
  <2>2. ~InCall(s) /\ select_state(s) \in DeviceState \ {"NOT_SET"}
    BY <1>2, SelectState
  <2>3. SameWatch(change_state_if_necessary(s, e), s)
    BY <2>1, <2>2, TryKeepsWatch DEF Good
  <2>4. "shutdown_blocked" \in s.bits
          => "device_overheated" \in s.bits \/ "battery_empty" \in s.bits
    BY <1>2 DEF select_state, on
  <2>5. BlockHolds(change_state_if_necessary(s, e), s)
    BY <2>3, <2>4 DEF SameWatch, Watched, BlockHolds
  <2> QED
    BY <1>2, <2>1, <2>2, <2>3, <2>5, TryToChangeStateGood
<1> QED
  BY <1>1, <1>2
-----------------------------------------------------------------------------
(***************************************************************************)
(* Handlers.  Sound(r, s): a handler may turn s into r.                    *)
(***************************************************************************)
Sound(r, s) ==
  /\ Good(r)
  /\ s.state \in Down => r.state \in Down
  /\ InCall(s) /\ InCall(r) => r.state = s.state
  /\ BlockHolds(r, s)

\* Re-selecting the state after a change of what is not a runlevel timer.
LEMMA ReselectSound ==
  ASSUME NEW s, NEW q, Good(q), q.state = s.state, NEW e \in Env,
         InCall(s) => InCall(q)
  PROVE  Sound(change_state_if_necessary(q, e), s)
BY ChangeGood DEF Sound, BlockHolds

\* The three callbacks that set a delayed bit.
LEMMA DelayedBitSound ==
  ASSUME NEW s, Good(s), NEW e \in Env
  PROVE  /\ Sound(delayed_overheat_fn(s, e), s)
         /\ Sound(delayed_battery_empty_fn(s, e), s)
         /\ Sound(delayed_charger_disconnect_fn(s, e), s)
<1> DEFINE h == set_bit(s, "device_overheated", TRUE)
           b == set_bit(s, "battery_empty", TRUE)
           c == set_charger_state(s, "DISCONNECTED")
<1>1. Good(h) /\ h.state = s.state /\ InCall(h) = InCall(s)
  BY SetBitGood DEF Bit, SameRun
<1>2. Good(b) /\ b.state = s.state /\ InCall(b) = InCall(s)
  BY SetBitGood DEF Bit, SameRun
<1>3. Good(c) /\ c.state = s.state /\ InCall(c) = InCall(s)
  BY SetChargerGood DEF ChargerState, SameRun, InCall, set_charger_state, Good, Statics
<1> HIDE DEF h, b, c
<1>4. ASSUME NEW r, Sound(r, s), NEW ts
      PROVE  Sound(stop_timers(r, ts), s)
  <2>1. InCall(stop_timers(r, ts)) = InCall(r) /\ stop_timers(r, ts).bits = r.bits
    BY <1>4 DEF stop_timers, InCall, Sound, Good, Statics
  <2> QED
    BY <1>4, <2>1, StopTimersGood DEF Sound, BlockHolds
<1>5. /\ Sound(change_state_if_necessary(h, e), s)
      /\ Sound(change_state_if_necessary(b, e), s)
      /\ Sound(change_state_if_necessary(c, e), s)
  BY <1>1, <1>2, <1>3, ReselectSound
<1> QED
  BY <1>4, <1>5 DEF delayed_overheat_fn, delayed_battery_empty_fn,
                    delayed_charger_disconnect_fn, h, b, c

\* Starting a timer that delays a bit, or its callback if glib fails.
LEMMA StartDelayedSound ==
  ASSUME NEW s, Good(s), NEW e \in Env
  PROVE  /\ Sound(start_overheat_timer(s, e), s)
         /\ Sound(start_battery_empty_timer(s, e), s)
         /\ Sound(start_charger_disconnect_timer(s, e), s)
<1>1. Sound(s, s)
  BY DEF Sound, BlockHolds
<1>2. \A t \in Timer \ RunlevelTimer : Sound(start_timer(s, t), s)
  BY StartBitTimerGood DEF Sound, BlockHolds
<1>3. {"overheat", "battery_empty", "charger_disconnect"} \subseteq Timer \ RunlevelTimer
  BY DEF Timer, RunlevelTimer
<1> QED
  BY <1>1, <1>2, <1>3, DelayedBitSound
  DEF start_overheat_timer, start_battery_empty_timer,
      start_charger_disconnect_timer

\* SET_CHARGER_STATE: a pending disconnect is settled first.
LEMMA StopChargerSound ==
  ASSUME NEW s, Good(s)
  PROVE  LET r == stop_charger_disconnect_timer(s) IN
         Good(r) /\ r.state = s.state /\ InCall(r) = InCall(s)
<1> DEFINE q == stop_timers(s, {"charger_disconnect"})
<1>1. Good(q) /\ q.state = s.state /\ InCall(q) = InCall(s)
  BY StopTimersGood DEF stop_timers, InCall, Good, Statics
<1>2. /\ Good(set_charger_state(q, "DISCONNECTED"))
      /\ set_charger_state(q, "DISCONNECTED").state = q.state
      /\ InCall(set_charger_state(q, "DISCONNECTED")) = InCall(q)
  BY <1>1, SetChargerGood DEF ChargerState, SameRun, set_charger_state, InCall,
       Good, Statics
<1> QED
  BY <1>1, <1>2 DEF stop_charger_disconnect_timer

\* Requests: denied, ignored, or recorded before re-selecting.
LEMMA RequestSound ==
  ASSUME NEW s, Good(s), NEW e \in Env, NEW conn,
         NEW req \in {"SHUTDOWN", "REBOOT", "ACTDEAD", "USER"}
  PROVE  Sound(handle_telinit(s, req, conn, e), s)
<1>1. Sound(s, s)
  BY DEF Sound, BlockHolds
<1>2. Sound(broadcast(s, "STATE_REQ_DENIED_IND", req), s)
  <2>1. "STATE_REQ_DENIED_IND" \in MsgType \ {"SHUTDOWN"} /\ req \in DeviceState
    BY DEF MsgType, DeviceState
  <2> QED
    BY <2>1, BroadcastGood DEF Sound, BlockHolds, SameRun
<1>3. /\ Good(accept_request(s, req))
      /\ accept_request(s, req).state = s.state
      /\ InCall(accept_request(s, req)) = InCall(s)
  <2>1. ASSUME NEW b \in {"shutdown_requested", "reboot_requested", "actdead_requested"},
               NEW q, NEW v \in BOOLEAN,
               Good(q), q.state = s.state, InCall(q) = InCall(s)
        PROVE  /\ Good(set_bit(q, b, v)) /\ set_bit(q, b, v).state = s.state
               /\ InCall(set_bit(q, b, v)) = InCall(s)
    BY <2>1, SetBitGood DEF Bit, SameRun
  <2> DEFINE r == set_bit(s, "actdead_requested", FALSE)
  <2>2. Good(r) /\ r.state = s.state /\ InCall(r) = InCall(s)
    BY <2>1
  <2> HIDE DEF r
  <2>3. CASE req = "ACTDEAD"
    BY <2>1, <2>3 DEF accept_request
  <2>4. CASE req = "REBOOT"
    <3>1. accept_request(s, req) = set_bit(r, "reboot_requested", TRUE)
      BY <2>4 DEF accept_request, r
    <3> QED
      BY <2>1, <2>2, <3>1
  <2>5. CASE req = "SHUTDOWN"
    <3>1. accept_request(s, req) = set_bit(r, "shutdown_requested", TRUE)
      BY <2>5 DEF accept_request, r
    <3> QED
      BY <2>1, <2>2, <3>1
  <2>6. CASE req = "USER"
    <3>1. accept_request(s, req) = set_bit(r, "shutdown_requested", FALSE)
      BY <2>6 DEF accept_request, r
    <3> QED
      BY <2>1, <2>2, <3>1
  <2> QED
    BY <2>3, <2>4, <2>5, <2>6
<1>4. Sound(change_state_if_necessary(accept_request(s, req), e), s)
  BY <1>3, ReselectSound
<1> QED
  BY <1>1, <1>2, <1>4 DEF handle_telinit

\* An emergency call stops the runlevel timers, its end re-selects.
LEMMA EmergencySound ==
  ASSUME NEW s, Good(s), NEW e \in Env, NEW v \in BOOLEAN
  PROVE  LET r == update_emergency_call_ongoing(s, v, e) IN
         Sound(r, s) /\ Sound(change_state_if_necessary(r, e), s)
<1> DEFINE q == set_bit(s, "emergency_call_ongoing", v)
           r == update_emergency_call_ongoing(s, v, e)
<1>1. ASSUME NEW w, Sound(w, s), InCall(w) => w.state = s.state
      PROVE  Sound(w, s) /\ Sound(change_state_if_necessary(w, e), s)
  BY <1>1, ChangeGood DEF Sound, BlockHolds, SameWatch, Watched
<1> SUFFICES Sound(r, s) /\ Sound(change_state_if_necessary(r, e), s)
  OBVIOUS
<1> HIDE DEF r
<1>2. CASE \/ InCall(s) /\ v = TRUE
           \/ ~InCall(s) /\ v = FALSE
  <2>1. r = s
    BY <1>2 DEF update_emergency_call_ongoing, on, InCall, r
  <2>2. Sound(s, s)
    BY DEF Sound, BlockHolds
  <2> QED
    BY <1>1, <2>1, <2>2
<1>3. CASE ~InCall(s) /\ v = TRUE
  <2>1. r = stop_delayed_runlevel_timers(q)
    BY <1>3 DEF update_emergency_call_ongoing, on, InCall, r
  <2>2. Good(r) /\ r.state = s.state
    BY <1>3, <2>1 DEF stop_delayed_runlevel_timers, stop_timers, set_bit, Good,
         Statics, SentOK, TimersOK, HoldOK, Bit
  <2>3. Sound(r, s)
    BY <2>2 DEF Sound, BlockHolds
  <2> QED
    BY <1>1, <2>2, <2>3
<1>4. CASE InCall(s) /\ v = FALSE
  <2>1. r = change_state_if_necessary(q, e)
    BY <1>4 DEF update_emergency_call_ongoing, on, InCall, r
  <2>2. Good(q) /\ q.state = s.state /\ ~InCall(q)
    BY <1>4 DEF set_bit, Good, Statics, SentOK, TimersOK, HoldOK, InCall
  <2>3. Sound(r, s) /\ ~InCall(r)
    BY <2>1, <2>2, ChangeGood DEF Sound, BlockHolds
  <2> QED
    BY <1>1, <2>3
<1>5. v = TRUE \/ v = FALSE
  OBVIOUS
<1> QED
  BY <1>2, <1>3, <1>4, <1>5

\* Blocking and unblocking shutdown.
LEMMA BlockSound ==
  ASSUME NEW s, Good(s), NEW e \in Env, NEW v \in BOOLEAN
  PROVE  Sound(update_shutdown_blocked(s, v, e), s)
<1> DEFINE q == set_bit(s, "shutdown_blocked", v)
           w == set_bit(q, "shutdown_requested", FALSE)
           z == set_bit(w, "reboot_requested", FALSE)
           r == update_shutdown_blocked(s, v, e)
<1>1. Good(q) /\ SameRun(q, s) /\ InCall(q) = InCall(s)
  BY SetBitGood DEF Bit
<1>2. Good(w) /\ SameRun(w, q) /\ InCall(w) = InCall(q)
  BY <1>1, SetBitGood DEF Bit
<1>3. Good(z) /\ SameRun(z, w) /\ InCall(z) = InCall(w)
  BY <1>2, SetBitGood DEF Bit
<1>4. r = s \/ r = q \/ r = change_state_if_necessary(z, e)
  BY DEF update_shutdown_blocked
<1> HIDE DEF q, w, z, r
<1>5. Sound(s, s) /\ Sound(q, s)
  BY <1>1 DEF Sound, BlockHolds, SameRun
<1>6. Sound(change_state_if_necessary(z, e), s)
  BY <1>1, <1>2, <1>3, ReselectSound DEF SameRun
<1>7. Sound(r, s)
  BY <1>4, <1>5, <1>6
<1> QED
  BY <1>7 DEF r

\* The callbacks that send init its order and clear their timer.
LEMMA RunlevelFnSound ==
  ASSUME NEW s, Good(s)
  PROVE  /\ "delayed_shutdown" \in s.timers => Sound(delayed_shutdown_fn(s), s)
         /\ Sound(delayed_actdead_fn(s), s)
         /\ Sound(delayed_user_fn(s), s)
<1>1. ASSUME NEW r, Good(r), SameRun(r, s), InCall(r) = InCall(s), NEW ts
      PROVE  Sound(stop_timers(r, ts), s)
  BY <1>1, StopTimersGood DEF Sound, BlockHolds, SameRun
<1>2. ASSUME NEW a \in {"USER", "ACTDEAD"}
      PROVE  LET r == broadcast(s, "CHANGE_RUNLEVEL", a) IN
             Good(r) /\ SameRun(r, s) /\ InCall(r) = InCall(s)
  BY <1>2, BroadcastGood DEF MsgType, DeviceState
<1>3. Sound(delayed_actdead_fn(s), s) /\ Sound(delayed_user_fn(s), s)
  BY <1>1, <1>2 DEF delayed_actdead_fn, delayed_user_fn
<1>4. ASSUME "delayed_shutdown" \in s.timers
      PROVE  Sound(delayed_shutdown_fn(s), s)
  <2> DEFINE r == broadcast(s, "SHUTDOWN", s.state)
  <2>1. s.state \in Down /\ s.sent \in Seq(Message) /\ s \in Statics
    BY <1>4 DEF Good, TimersOK, Statics
  <2>2. delayed_shutdown_fn(s) = stop_timers(r, {"delayed_shutdown"})
    BY <2>1 DEF delayed_shutdown_fn, state2runlevel, Down
  <2>3. Msg("SHUTDOWN", s.state) \in Message /\ Msg("SHUTDOWN", s.state).arg \in Down
    BY <2>1 DEF Msg, Message, MsgType, Down, DeviceState
  <2>4. Append(s.sent, Msg("SHUTDOWN", s.state)) \in Seq(Message)
    BY <2>1, <2>3
  <2>5. /\ r \in Statics /\ r.sent = Append(s.sent, Msg("SHUTDOWN", s.state))
        /\ r.state = s.state /\ r.timers = s.timers /\ r.bits = s.bits
    BY <2>1, <2>4 DEF broadcast, Statics
  <2> HIDE DEF r
  <2>6. SentOK(r)
    BY <2>1, <2>3, <2>5 DEF SentOK, Good
  <2>7. Good(r) /\ SameRun(r, s) /\ InCall(r) = InCall(s)
    BY <2>5, <2>6 DEF Good, TimersOK, HoldOK, SameRun, InCall
  <2> QED
    BY <1>1, <2>2, <2>7
<1> QED
  BY <1>3, <1>4

\* Every timer callback is sound when its timer is running.
LEMMA TimerCallbackSound ==
  ASSUME NEW s, Good(s), NEW e \in Env, NEW t \in s.timers
  PROVE  Sound(timer_callback(s, t, e), s)
<1>1. CASE t = "delayed_shutdown"
  BY <1>1, RunlevelFnSound DEF timer_callback
<1>2. CASE t # "delayed_shutdown"
  BY <1>2, RunlevelFnSound, DelayedBitSound DEF timer_callback
<1> QED
  BY <1>1, <1>2
-----------------------------------------------------------------------------
(***************************************************************************)
(* Steps of the specification.                                             *)
(***************************************************************************)
\* What a step may do: keep Inv, stay down, and leave a call's state alone.
StepOK ==
  /\ Inv'
  /\ current_state \in Down => current_state' \in Down
  /\ is_on("emergency_call_ongoing") /\ is_on("emergency_call_ongoing")'
       => current_state' = current_state
  /\ is_on("shutdown_blocked")' /\ current_state' # current_state
       => is_on("device_overheated")' \/ is_on("battery_empty")'

\* The statics satisfy the record form of the invariant at every handler.
LEMMA NowGood ==
  ASSUME Inv
  PROVE  Good(Now)
<1>1. Now \in Statics
  <2>1. << >> \in Seq(Message)
    OBVIOUS
  <2> QED
    BY <2>1 DEF Inv, TypeOK, Now, Statics
<1>2. SentOK(Now)
  BY DEF Now, SentOK
<1>3. TimersOK(Now) /\ HoldOK(Now)
  BY DEF Inv, RunlevelTimerMatchesState,
         EmergencyHoldsRunlevel, Now, TimersOK, HoldOK, is_on
<1> QED
  BY <1>1, <1>2, <1>3 DEF Good

\* Committing the result of a sound handler is a permitted step.
LEMMA CommitOK ==
  ASSUME Inv, NEW r, Sound(r, Now), Commit(r),
         plugin' \in {"unloaded", "loaded", "finished"}
  PROVE  StepOK
<1>1. Good(r)
  BY DEF Sound, BlockHolds
<1>2. TypeOK'
  <2>1. \A i \in DOMAIN r.sent : r.sent[i].type = "SHUTDOWN" => r.sent[i].arg \in DeviceState
    BY <1>1 DEF Good, SentOK, Down, DeviceState
  <2>2. init_told' \subseteq DeviceState
    BY <2>1 DEF Commit, Inv, TypeOK
  <2> QED
    BY <1>1, <2>2 DEF Commit, Good, Statics, TypeOK
<1>3. InitToldDown'
  BY <1>1 DEF Commit, Good, SentOK, Inv, InitToldDown
<1>4. RunlevelTimerMatchesState' /\ EmergencyHoldsRunlevel'
  BY <1>1 DEF Commit, Good, TimersOK, HoldOK, RunlevelTimerMatchesState,
       EmergencyHoldsRunlevel, is_on
<1>5. /\ current_state \in Down => current_state' \in Down
      /\ is_on("emergency_call_ongoing") /\ is_on("emergency_call_ongoing")'
           => current_state' = current_state
      /\ is_on("shutdown_blocked")' /\ current_state' # current_state
           => is_on("device_overheated")' \/ is_on("battery_empty")'
  BY DEF Sound, BlockHolds, Commit, Now, InCall, is_on
<1> QED
  BY <1>2, <1>3, <1>4, <1>5 DEF StepOK, Inv

\* The same for a handler of the loaded plugin.
LEMMA HandleOK ==
  ASSUME Inv, NEW r, Sound(r, Now), Handle(r)
  PROVE  StepOK
BY CommitOK DEF Handle

\* Reports of the tracking plugins, wherever they come from.
LEMMA ReportOK ==
  ASSUME Inv, NEW v \in BOOLEAN, NEW e \in Env,
         \/ SET_CHARGER_STATE(v, e) \/ SET_USB_STATE(v) \/ SET_ALARM_STATE(v, e)
         \/ SET_THERMAL_STATUS(v, e) \/ SET_EMERGENCY_CALL_STATE(v, e)
         \/ SET_BATTERY_STATE(v, e) \/ \E conn : BlockShutdown(v, conn, e)
  PROVE  StepOK
<1> DEFINE s == Now
<1>0. Good(s) /\ Sound(s, s)
  BY NowGood DEF Sound, BlockHolds
<1> HIDE DEF s
<1>1. CASE SET_CHARGER_STATE(v, e)
  <2> DEFINE q == stop_charger_disconnect_timer(s)
             new == IF v THEN "CONNECTED" ELSE "DISCONNECTED"
             r == IF q.state = "ACTDEAD" /\ new = "DISCONNECTED"
                  THEN start_charger_disconnect_timer(q, e)
                  ELSE change_state_if_necessary(set_charger_state(q, new), e)
  <2>1. Good(q) /\ q.state = s.state /\ InCall(q) = InCall(s)
    BY <1>0, StopChargerSound
  <2>2. Handle(r)
    BY <1>1 DEF SET_CHARGER_STATE, s
  <2> HIDE DEF q
  <2>3. Sound(start_charger_disconnect_timer(q, e), s)
    BY <2>1, StartDelayedSound DEF Sound, BlockHolds
  <2>4. ASSUME NEW c \in ChargerState
        PROVE  Sound(change_state_if_necessary(set_charger_state(q, c), e), s)
    <3>1. /\ Good(set_charger_state(q, c)) /\ set_charger_state(q, c).state = s.state
          /\ InCall(set_charger_state(q, c)) = InCall(s)
      BY <2>1, <2>4, SetChargerGood DEF SameRun, set_charger_state, InCall, Good, Statics
    <3> QED
      BY <3>1, ReselectSound
  <2>5. new \in ChargerState
    BY DEF ChargerState
  <2> HIDE DEF new
  <2>6. Sound(r, s)
    BY <2>3, <2>4, <2>5
  <2> QED
    BY <2>2, <2>6, HandleOK DEF s
<1>2. CASE SET_USB_STATE(v)
  <2>1. Handle(set_bit(s, "mounted_to_pc", v))
    BY <1>2 DEF SET_USB_STATE, s
  <2>2. Sound(set_bit(s, "mounted_to_pc", v), s)
    BY <1>0, SetBitGood DEF Sound, BlockHolds, Bit, SameRun
  <2> QED
    BY <2>1, <2>2, HandleOK DEF s
<1>3. CASE SET_ALARM_STATE(v, e)
  <2> DEFINE q == set_bit(s, "alarm_pending", v)
  <2>1. Handle(change_state_if_necessary(q, e))
    BY <1>3 DEF SET_ALARM_STATE, s
  <2>2. Good(q) /\ q.state = s.state /\ InCall(q) = InCall(s)
    BY <1>0, SetBitGood DEF Bit, SameRun
  <2> HIDE DEF q
  <2>3. Sound(change_state_if_necessary(q, e), s)
    BY <2>2, ReselectSound
  <2> QED
    BY <2>1, <2>3, HandleOK DEF s
<1>4. CASE SET_THERMAL_STATUS(v, e)
  <2>1. Handle(start_overheat_timer(s, e)) \/ Handle(s)
    BY <1>4 DEF SET_THERMAL_STATUS, s
  <2>2. Sound(start_overheat_timer(s, e), s)
    BY <1>0, StartDelayedSound
  <2> QED
    BY <1>0, <2>1, <2>2, HandleOK DEF s
<1>5. CASE SET_EMERGENCY_CALL_STATE(v, e)
  <2>1. Handle(change_state_if_necessary(update_emergency_call_ongoing(s, v, e), e))
    BY <1>5 DEF SET_EMERGENCY_CALL_STATE, s
  <2>2. Sound(change_state_if_necessary(update_emergency_call_ongoing(s, v, e), e), s)
    BY <1>0, EmergencySound
  <2> QED
    BY <2>1, <2>2, HandleOK DEF s
<1>6. CASE SET_BATTERY_STATE(v, e)
  <2> DEFINE q == broadcast(s, "BATTERY_EMPTY_IND", "NOT_SET")
  <2>1. Handle(start_battery_empty_timer(q, e)) \/ Handle(stop_timers(s, {"battery_empty"}))
    BY <1>6 DEF SET_BATTERY_STATE, s
  <2>2. Good(q) /\ q.state = s.state /\ InCall(q) = InCall(s)
    BY <1>0, BroadcastGood DEF MsgType, DeviceState, SameRun
  <2> HIDE DEF q
  <2>3. Sound(start_battery_empty_timer(q, e), s)
    BY <2>2, StartDelayedSound DEF Sound, BlockHolds
  <2>4. Sound(stop_timers(s, {"battery_empty"}), s)
    BY <1>0, StopTimersGood DEF Sound, BlockHolds
  <2> QED
    BY <2>1, <2>3, <2>4, HandleOK DEF s
<1>7. CASE \E conn : BlockShutdown(v, conn, e)
  <2>1. Handle(update_shutdown_blocked(s, v, e)) \/ Handle(s)
    BY <1>7 DEF BlockShutdown, s
  <2>2. Sound(update_shutdown_blocked(s, v, e), s)
    BY <1>0, BlockSound
  <2> QED
    BY <1>0, <2>1, <2>2, HandleOK DEF s
<1> QED
  BY <1>1, <1>2, <1>3, <1>4, <1>5, <1>6, <1>7

\* Starting the plugin with the bits of any boot state.
LEMMA ModuleInitOK ==
  ASSUME Inv, NEW bootstate, NEW e \in Env, module_init(bootstate, e)
  PROVE  StepOK
<1> DEFINE s == Now
           q == set_initial_state_bits(s, bootstate)
           w == enter_malf(q, bootstate)
<1>1. Good(s)
  BY NowGood
<1> HIDE DEF s
<1>2. Good(q) /\ q.state = s.state /\ InCall(q) = InCall(s)
  <2> DEFINE c == set_charger_state(s, "DISCONNECTED")
  <2>1. Good(c) /\ c.state = s.state /\ InCall(c) = InCall(s)
    BY <1>1, SetChargerGood DEF ChargerState, SameRun, set_charger_state, InCall,
         Good, Statics
  <2> HIDE DEF c
  <2>2. ASSUME NEW x, Good(x), x.state = s.state, InCall(x) = InCall(s),
               NEW b \in {"shutdown_requested", "reboot_requested", "testmode_requested"}
        PROVE  /\ Good(set_bit(x, b, TRUE)) /\ set_bit(x, b, TRUE).state = s.state
               /\ InCall(set_bit(x, b, TRUE)) = InCall(s)
    BY <2>2, SetBitGood DEF Bit, SameRun
  <2>3. \/ q = set_bit(c, "shutdown_requested", TRUE)
        \/ q = set_bit(s, "shutdown_requested", TRUE)
        \/ q = set_bit(s, "reboot_requested", TRUE)
        \/ q = set_bit(s, "testmode_requested", TRUE)
        \/ q = s
    BY DEF set_initial_state_bits, c
  <2> HIDE DEF q
  <2> QED
    BY <1>1, <2>1, <2>2, <2>3
<1> HIDE DEF q
<1>3. Good(w) /\ w.state = s.state /\ InCall(w) = InCall(s)
  BY <1>2, BroadcastGood DEF enter_malf, MsgType, DeviceState, SameRun
<1>4. Commit(change_state_if_necessary(w, e)) /\ plugin' = "loaded"
  BY DEF module_init, s, q
<1> HIDE DEF w
<1>5. Sound(change_state_if_necessary(w, e), s)
  BY <1>3, ReselectSound
<1> QED
  BY <1>4, <1>5, CommitOK DEF s

\* Running and leaving the main loop, and unloading the plugin.
LEMMA LoopOK ==
  ASSUME Inv, module_fini \/ QuitMainLoop \/ dsme_main_loop_run
  PROVE  StepOK
<1> DEFINE s == Now
           q == stop_delayed_runlevel_timers(s)
           w == stop_charger_disconnect_timer(q)
           r == stop_timers(w, {"overheat", "battery_empty"})
<1>1. Good(s)
  BY NowGood
<1>2. CASE QuitMainLoop
  <2>1. Commit(dsme_main_loop_quit(s)) /\ plugin' = "loaded"
    BY <1>2 DEF QuitMainLoop
  <2> HIDE DEF s
  <2>2. Sound(dsme_main_loop_quit(s), s)
    BY <1>1, QuitChangesLoop DEF Sound, BlockHolds, Good, SentOK, TimersOK, HoldOK, SameRun, InCall
  <2> QED
    BY <2>1, <2>2, CommitOK DEF s
<1>3. CASE dsme_main_loop_run
  <2>1. Commit([s EXCEPT !.loop = "RUNNING"]) /\ plugin' = "loaded"
    BY <1>3 DEF dsme_main_loop_run
  <2> HIDE DEF s
  <2>2. Sound([s EXCEPT !.loop = "RUNNING"], s)
    BY <1>1 DEF Sound, BlockHolds, Good, Statics, LoopState, SentOK, TimersOK, HoldOK, InCall
  <2> QED
    BY <2>1, <2>2, CommitOK DEF s
<1>4. CASE module_fini
  <2>1. Commit(r) /\ plugin' = "finished"
    BY <1>4 DEF module_fini
  <2> HIDE DEF s
  <2>2. Good(q) /\ q.state = s.state
    BY <1>1, StopTimersGood DEF stop_delayed_runlevel_timers
  <2> HIDE DEF q
  <2>3. Good(w) /\ w.state = s.state
    BY <2>2, StopChargerSound
  <2> HIDE DEF w
  <2>4. Sound(r, s)
    BY <2>3, StopTimersGood DEF Sound, BlockHolds
  <2> HIDE DEF r
  <2> QED
    BY <2>1, <2>4, CommitOK DEF s
<1> QED
  BY <1>2, <1>3, <1>4

\* SET_BATTERY_LEVEL and the runlevel_switch_done signal.
LEMMA LevelAndSwitchOK ==
  ASSUME Inv,
         \/ \E n \in BatteryLevels : SET_BATTERY_LEVEL(n)
         \/ \E rl \in {"USER", "ACTDEAD", "TEST"} : runlevel_switch_ind(rl)
  PROVE  StepOK
<1> DEFINE s == Now
           a == set_bit(s, "actdead_switch_done", TRUE)
           u == set_bit(s, "user_switch_done", TRUE)
<1>1. Good(s)
  BY NowGood
<1>2. CASE \E n \in BatteryLevels : SET_BATTERY_LEVEL(n)
  <2>1. PICK n \in BatteryLevels : Handle([s EXCEPT !.level = n])
    BY <1>2 DEF SET_BATTERY_LEVEL
  <2> HIDE DEF s
  <2>2. Sound([s EXCEPT !.level = n], s)
    BY <1>1, <2>1 DEF Sound, BlockHolds, Good, Statics, SentOK, TimersOK, HoldOK, InCall
  <2> QED
    BY <2>1, <2>2, HandleOK DEF s
<1>3. CASE \E rl \in {"USER", "ACTDEAD", "TEST"} : runlevel_switch_ind(rl)
  <2>1. \/ Handle(s) \/ Handle(a) \/ Handle(u)
        \/ Handle(delayed_user_fn(a)) \/ Handle(delayed_actdead_fn(u))
    BY <1>3 DEF runlevel_switch_ind
  <2> HIDE DEF s
  <2>2. Good(a) /\ a.state = s.state /\ InCall(a) = InCall(s)
    BY <1>1, SetBitGood DEF Bit, SameRun
  <2>3. Good(u) /\ u.state = s.state /\ InCall(u) = InCall(s)
    BY <1>1, SetBitGood DEF Bit, SameRun
  <2> HIDE DEF a, u
  <2>4. Sound(s, s) /\ Sound(a, s) /\ Sound(u, s)
    BY <1>1, <2>2, <2>3 DEF Sound, BlockHolds
  <2>5. Sound(delayed_user_fn(a), s) /\ Sound(delayed_actdead_fn(u), s)
    BY <2>2, <2>3, RunlevelFnSound DEF Sound, BlockHolds
  <2> QED
    BY <2>1, <2>4, <2>5, HandleOK DEF s
<1> QED
  BY <1>2, <1>3

\* Every step of the specification is a permitted step.
LEMMA NextOK ==
  ASSUME Inv, [Next]_vars
  PROVE  StepOK
<1>0. CASE UNCHANGED vars
  BY <1>0 DEF vars, StepOK, Inv, TypeOK, RunlevelTimerMatchesState, is_on,
       EmergencyHoldsRunlevel, InitToldDown
<1>1. CASE dsme_main_loop_run \/ QuitMainLoop \/ module_fini
  BY <1>1, LoopOK
<1>2. CASE \/ \E n \in BatteryLevels : SET_BATTERY_LEVEL(n)
           \/ \E rl \in {"USER", "ACTDEAD", "TEST"} : runlevel_switch_ind(rl)
  BY <1>2, LevelAndSwitchOK
<1>3. ASSUME NEW e \in Env, NEW bootstate \in BootStates, module_init(bootstate, e)
      PROVE  StepOK
  BY <1>3, ModuleInitOK
<1>4. ASSUME NEW e \in Env, NEW v \in BOOLEAN, Report(v, e)
      PROVE  StepOK
  BY <1>4, ReportOK DEF Report
<1>5. ASSUME NEW e \in Env, NEW conn \in Senders,
             NEW req \in {"SHUTDOWN", "REBOOT", "ACTDEAD", "USER"},
             Request(req, conn, e)
      PROVE  StepOK
  <2>1. Sound(handle_telinit(Now, req, conn, e), Now)
    BY NowGood, RequestSound
  <2> QED
    BY <1>5, <2>1, HandleOK DEF Request
<1>6. ASSUME NEW e \in Env, NEW t \in Timer, TimerFires(t, e)
      PROVE  StepOK
  <2>1. t \in Now.timers
    BY <1>6 DEF TimerFires, Now
  <2>2. Sound(timer_callback(Now, t, e), Now)
    BY <2>1, NowGood, TimerCallbackSound
  <2> QED
    BY <1>6, <2>2, HandleOK DEF TimerFires
<1> QED
  BY <1>0, <1>1, <1>2, <1>3, <1>4, <1>5, <1>6 DEF Next

(***************************************************************************)
(* The inductive invariant holds in every reachable state: among others a  *)
(* pending runlevel timer matches current_state, and none is pending in an *)
(* emergency call.                                                         *)
(***************************************************************************)
THEOREM Safety == Spec => []Inv
<1>1. Init => Inv
  <2>1. << >> \in Seq(Message)
    OBVIOUS
  <2> QED
    BY <2>1 DEF LoopState, Init, Inv, TypeOK, RunlevelTimerMatchesState,
         EmergencyHoldsRunlevel, InitToldDown, ChargerState, DeviceState, is_on
<1>2. Inv /\ [Next]_vars => Inv'
  BY NextOK DEF StepOK
<1> QED
  BY <1>1, <1>2, PTL DEF Spec

\* The statics keep their types.
COROLLARY TypeCorrect == Spec => []TypeOK
BY Safety, PTL DEF Inv

(***************************************************************************)
(* Whenever delayed_shutdown_fn() and its siblings fire, current_state is  *)
(* the state their timer was started for.                                  *)
(***************************************************************************)
COROLLARY TimersMatch == Spec => []RunlevelTimerMatchesState
BY Safety, PTL DEF Inv

\* No runlevel change is pending at any moment of an emergency call.
COROLLARY CallHoldsRunlevel == Spec => []EmergencyHoldsRunlevel
BY Safety, PTL DEF Inv

\* Init is only ever ordered to shut down or to reboot.
COROLLARY OrdersAreDown == Spec => []InitToldDown
BY Safety, PTL DEF Inv

\* No handler, in any order, takes a device that is going down up again.
THEOREM DownIsFinal == Spec => NoReturnFromDown
<1>1. Inv /\ [Next]_vars => (current_state \in Down => current_state' \in Down)
  BY NextOK DEF StepOK
<1> QED
  BY <1>1, Safety, PTL DEF Spec, NoReturnFromDown

\* No handler changes the device state between two moments of a call.
THEOREM CallFreezesState == Spec => EmergencyFreezesState
<1>1. Inv /\ [Next]_vars
      => (is_on("emergency_call_ongoing") /\ is_on("emergency_call_ongoing")'
            => current_state' = current_state)
  BY NextOK DEF StepOK
<1> QED
  BY <1>1, Safety, PTL DEF Spec, EmergencyFreezesState

\* While clients block shutdown no handler changes the device state, except
\* that select_state() goes down for overheating and an empty battery.
THEOREM BlockHoldsState == Spec => BlockedUnlessCritical
<1>1. Inv /\ [Next]_vars
      => (is_on("shutdown_blocked") /\ is_on("shutdown_blocked")'
            /\ current_state' # current_state
            => is_on("device_overheated")' \/ is_on("battery_empty")')
  BY NextOK DEF StepOK
<1> QED
  BY <1>1, Safety, PTL DEF Spec, BlockedUnlessCritical
-----------------------------------------------------------------------------
(***************************************************************************)
(* The policy behind the queue.  Clean(s, c) says what the handlers of     *)
(* state.c may have broadcast since a handler began in device state c;     *)
(* Lands turns "the last message of a type" into a relation that           *)
(* appending and removing messages preserve.                               *)
(***************************************************************************)
\* What may be queued: the broadcasts of state.c and the reports to it.
QMessage == Message \cup Incoming \cup LevelReport

\* Who had value d when the messages of q were queued, and takes the arg of
\* each message of a type for its new value, ends up with value v.
Lands(q, type, d, v) ==
  \/ v = d /\ \A i \in DOMAIN q : q[i].type # type
  \/ \E i \in DOMAIN q : /\ q[i].type = type /\ q[i].arg = v
                         /\ \A j \in DOMAIN q : j > i => q[j].type # type

\* A message of the type is in q before position n.
Before(q, type, n) == \E j \in DOMAIN q : j < n /\ q[j].type = type

Has(q, type) == \E j \in DOMAIN q : q[j].type = type

PTypes ==
  /\ queue \in Seq(QMessage)
  /\ dsme_state \in DeviceState
  /\ emergency_call_started \in BOOLEAN
  /\ saved \in BOOLEAN
  /\ forced \in BOOLEAN

ProxyForm == Lands(queue, "STATE_CHANGE_IND", dsme_state, current_state)

\* The flag of state.c as the value the tracker's messages set.
CallFlag == IF is_on("emergency_call_ongoing") THEN TRUE ELSE FALSE

TrackerForm ==
  Lands(queue, "SET_EMERGENCY_CALL_STATE", CallFlag, emergency_call_started)

\* With device state st, and whether data was saved and malf forced (sv, fo):
\* a device that goes down was announced to, before every order to init.
Orders(q, st, sv, fo) ==
  /\ st \in Down => sv = TRUE \/ Has(q, "SAVE_DATA_IND")
  /\ \A i \in DOMAIN q :
       /\ q[i].type = "SHUTDOWN"
            => sv = TRUE \/ fo = TRUE \/ Before(q, "SAVE_DATA_IND", i)
       /\ q[i].type = "CHANGE_RUNLEVEL" => q[i].arg \notin Down

SaveForm ==
  /\ Orders(queue, current_state, saved, forced)
  /\ ordered \cap Down # {} => saved = TRUE \/ forced = TRUE

PInv == Inv /\ PTypes /\ ProxyForm /\ TrackerForm /\ SaveForm
-----------------------------------------------------------------------------
(***************************************************************************)
(* Queues.                                                                 *)
(***************************************************************************)
\* What is queued behind p builds on what p leads to.
LEMMA LandsConcat ==
  ASSUME NEW S, NEW p \in Seq(S), NEW q \in Seq(S), NEW type, NEW d, NEW v, NEW w,
         Lands(p, type, d, v), Lands(q, type, v, w)
  PROVE  Lands(p \o q, type, d, w)
<1> DEFINE r == p \o q
<1>1. /\ Len(p) \in Nat /\ Len(q) \in Nat
      /\ DOMAIN p = 1..Len(p) /\ DOMAIN q = 1..Len(q)
      /\ DOMAIN r = 1..(Len(p) + Len(q))
  BY ConcatProperties
<1>2. /\ \A i \in 1..Len(p) : r[i] = p[i]
      /\ \A i \in 1..Len(q) : r[Len(p) + i] = q[i]
  BY ConcatProperties
<1>3. \A k \in 1..(Len(p) + Len(q)) :
        k > Len(p) => k - Len(p) \in 1..Len(q) /\ k = Len(p) + (k - Len(p))
  BY <1>1
<1> HIDE DEF r
<1>4. \A k \in 1..(Len(p) + Len(q)) : k > Len(p) => r[k] = q[k - Len(p)]
  BY <1>2, <1>3
<1>5. CASE \E i \in DOMAIN q : /\ q[i].type = type /\ q[i].arg = w
                               /\ \A j \in DOMAIN q : j > i => q[j].type # type
  <2>1. PICK i \in 1..Len(q) : /\ q[i].type = type /\ q[i].arg = w
                               /\ \A j \in 1..Len(q) : j > i => q[j].type # type
    BY <1>1, <1>5
  <2>2. Len(p) + i \in DOMAIN r /\ r[Len(p) + i].type = type /\ r[Len(p) + i].arg = w
    BY <1>1, <1>2, <2>1
  <2>3. ASSUME NEW j \in DOMAIN r, j > Len(p) + i
        PROVE  r[j].type # type
    BY <1>1, <1>3, <1>4, <2>1, <2>3
  <2> QED
    BY <2>2, <2>3 DEF Lands, r
<1>6. CASE w = v /\ \A i \in DOMAIN q : q[i].type # type
  <2>1. \A k \in DOMAIN r : k > Len(p) => r[k].type # type
    BY <1>1, <1>3, <1>4, <1>6
  <2>2. CASE v = d /\ \A i \in DOMAIN p : p[i].type # type
    <3>1. \A k \in DOMAIN r : r[k].type # type
      BY <1>1, <1>2, <2>1, <2>2
    <3> QED
      BY <3>1, <2>2, <1>6 DEF Lands, r
  <2>3. CASE \E i \in DOMAIN p : /\ p[i].type = type /\ p[i].arg = v
                                 /\ \A j \in DOMAIN p : j > i => p[j].type # type
    <3>1. PICK i \in 1..Len(p) : /\ p[i].type = type /\ p[i].arg = v
                                 /\ \A j \in 1..Len(p) : j > i => p[j].type # type
      BY <1>1, <2>3
    <3>2. i \in DOMAIN r /\ r[i].type = type /\ r[i].arg = w
      BY <1>1, <1>2, <1>6, <3>1
    <3>3. \A j \in DOMAIN r : j > i => r[j].type # type
      BY <1>1, <1>2, <2>1, <3>1
    <3> QED
      BY <3>2, <3>3 DEF Lands, r
  <2> QED
    BY <2>2, <2>3 DEF Lands
<1> QED
  BY <1>5, <1>6 DEF Lands

\* Messages of other types change nothing.
LEMMA LandsOther ==
  ASSUME NEW q, NEW type, NEW d, \A i \in DOMAIN q : q[i].type # type
  PROVE  Lands(q, type, d, d)
BY DEF Lands

\* A single message of the type sets the value.
LEMMA LandsOne ==
  ASSUME NEW m, NEW d
  PROVE  Lands(<<m>>, m.type, d, m.arg)
BY DEF Lands

\* The positions of a queue after its head is handled.
LEMMA TailIs ==
  ASSUME NEW S, NEW q \in Seq(S), q # << >>
  PROVE  /\ Tail(q) \in Seq(S) /\ Head(q) = q[1] /\ Head(q) \in S
         /\ Len(q) \in Nat /\ 1 \in DOMAIN q /\ DOMAIN q = 1..Len(q)
         /\ \A i \in DOMAIN Tail(q) : i \in Nat \ {0} /\ i + 1 \in DOMAIN q /\ Tail(q)[i] = q[i + 1]
         /\ \A i \in DOMAIN q : i # 1 => i - 1 \in DOMAIN Tail(q) /\ Tail(q)[i - 1] = q[i]
<1>1. /\ Tail(q) \in Seq(S) /\ Head(q) \in S /\ Len(q) \in Nat /\ Len(q) # 0
      /\ Len(Tail(q)) = Len(q) - 1 /\ Head(q) = q[1]
      /\ DOMAIN q = 1..Len(q) /\ DOMAIN Tail(q) = 1..Len(Tail(q))
  BY HeadTailProperties, EmptySeq
<1>2. \A i \in 1..Len(Tail(q)) : Tail(q)[i] = q[i + 1]
  BY HeadTailProperties
<1>3. ASSUME NEW i \in DOMAIN Tail(q)
      PROVE  i \in Nat \ {0} /\ i + 1 \in DOMAIN q /\ Tail(q)[i] = q[i + 1]
  BY <1>1, <1>2, <1>3
<1>4. ASSUME NEW i \in DOMAIN q, i # 1
      PROVE  i - 1 \in DOMAIN Tail(q) /\ Tail(q)[i - 1] = q[i]
  <2>1. i - 1 \in 1..Len(Tail(q)) /\ (i - 1) + 1 = i
    BY <1>1, <1>4
  <2> QED
    BY <1>1, <1>2, <2>1
<1> QED
  BY <1>1, <1>3, <1>4

\* Handling the head: its value is the new one if it has the type.
LEMMA LandsTail ==
  ASSUME NEW S, NEW q \in Seq(S), q # << >>, NEW type, NEW d, NEW v,
         Lands(q, type, d, v)
  PROVE  /\ Head(q).type # type => Lands(Tail(q), type, d, v)
         /\ Head(q).type = type => Lands(Tail(q), type, Head(q).arg, v)
<1> DEFINE t == Tail(q)
<1>1. /\ Head(q) = q[1] /\ 1 \in DOMAIN q /\ DOMAIN q = 1..Len(q) /\ Len(q) \in Nat
      /\ \A i \in DOMAIN t : i \in Nat \ {0} /\ i + 1 \in DOMAIN q /\ t[i] = q[i + 1]
      /\ \A i \in DOMAIN q : i # 1 => i - 1 \in DOMAIN t /\ t[i - 1] = q[i]
  BY TailIs
<1> HIDE DEF t
<1>2. CASE v = d /\ \A i \in DOMAIN q : q[i].type # type
  <2>1. \A i \in DOMAIN t : t[i].type # type
    BY <1>1, <1>2
  <2>2. Lands(t, type, d, v) /\ Head(q).type # type
    BY <1>1, <1>2, <2>1 DEF Lands
  <2> QED
    BY <2>2 DEF t
<1>3. CASE \E i \in DOMAIN q : /\ q[i].type = type /\ q[i].arg = v
                               /\ \A j \in DOMAIN q : j > i => q[j].type # type
  <2>1. PICK i \in 1..Len(q) : /\ q[i].type = type /\ q[i].arg = v
                               /\ \A j \in 1..Len(q) : j > i => q[j].type # type
    BY <1>1, <1>3
  <2>2. CASE i = 1
    <3>1. \A k \in DOMAIN t : t[k].type # type
      <4>1. SUFFICES ASSUME NEW k \in DOMAIN t PROVE t[k].type # type
        OBVIOUS
      <4>2. k \in Nat \ {0} /\ k + 1 \in 1..Len(q) /\ t[k] = q[k + 1]
        BY <1>1
      <4>3. k + 1 > 1
        BY <4>2, <1>1, <2>2
      <4> QED
        BY <4>2, <4>3, <2>1, <2>2
    <3> QED
      BY <1>1, <2>1, <2>2, <3>1 DEF Lands, t
  <2>3. CASE i # 1
    <3>1. i - 1 \in DOMAIN t /\ t[i - 1].type = type /\ t[i - 1].arg = v
      BY <1>1, <2>1, <2>3
    <3>2. ASSUME NEW k \in DOMAIN t, k > i - 1
          PROVE  t[k].type # type
      <4>1. k \in Nat /\ k + 1 \in 1..Len(q) /\ t[k] = q[k + 1] /\ i \in Nat
        BY <1>1, <2>1
      <4>2. k + 1 > i
        BY <4>1, <3>2
      <4> QED
        BY <4>1, <4>2, <2>1
    <3>3. \A x : Lands(t, type, x, v)
      BY <3>1, <3>2 DEF Lands
    <3> QED
      BY <3>3 DEF t
  <2> QED
    BY <2>2, <2>3
<1> QED
  BY <1>2, <1>3 DEF Lands

\* Lands is what the invariants over Queued and LastOf say.
LEMMA LandsIsLast ==
  ASSUME queue \in Seq(QMessage), NEW type, NEW d, NEW v, Lands(queue, type, d, v)
  PROVE  (IF Queued(type) = {} THEN d ELSE LastOf(type).arg) = v
<1>1. CASE v = d /\ \A i \in DOMAIN queue : queue[i].type # type
  BY <1>1 DEF Queued
<1>2. CASE \E i \in DOMAIN queue :
              /\ queue[i].type = type /\ queue[i].arg = v
              /\ \A j \in DOMAIN queue : j > i => queue[j].type # type
  <2>1. PICK i \in DOMAIN queue :
              /\ queue[i].type = type /\ queue[i].arg = v
              /\ \A j \in DOMAIN queue : j > i => queue[j].type # type
    BY <1>2
  <2>2. DOMAIN queue = 1..Len(queue) /\ Len(queue) \in Nat
    OBVIOUS
  <2>3. i \in Queued(type) /\ \A j \in Queued(type) : j \in Nat /\ j <= i
    BY <2>1, <2>2 DEF Queued
  <2> DEFINE k == CHOOSE n \in Queued(type) : \A j \in Queued(type) : j <= n
  <2>4. k \in Queued(type) /\ \A j \in Queued(type) : j <= k
    BY <2>3
  <2>5. k = i
    <3> HIDE DEF k
    <3> QED
      BY <2>3, <2>4
  <2>6. LastOf(type) = queue[i]
    BY <2>5 DEF LastOf
  <2> QED
    BY <2>1, <2>3, <2>6
<1> QED
  BY <1>1, <1>2 DEF Lands
-----------------------------------------------------------------------------
(***************************************************************************)
(* The functions of state.c.  Clean(s, o): a handler that began with the   *)
(* statics o and has s now told everybody of the state it changed to, told *)
(* applications to save data if that is down, left the call flag alone,    *)
(* and gave init no order yet.                                             *)
(***************************************************************************)
Clean(s, o) ==
  /\ s \in Statics
  /\ InCall(s) <=> InCall(o)
  /\ \A i \in DOMAIN s.sent : s.sent[i].type \notin {"SHUTDOWN", "CHANGE_RUNLEVEL"}
  /\ Lands(s.sent, "STATE_CHANGE_IND", o.state, s.state)
  /\ s.state \in Down => o.state \in Down \/ Has(s.sent, "SAVE_DATA_IND")

\* What changes neither the state nor the messages keeps a handler clean.
LEMMA CleanSame ==
  ASSUME NEW s, NEW o, Clean(s, o), NEW r \in Statics, r.sent = s.sent,
         r.state = s.state, InCall(r) <=> InCall(s)
  PROVE  Clean(r, o)
BY DEF Clean

\* A broadcast behind the others; a change of state is announced by its own.
LEMMA CleanAppend ==
  ASSUME NEW s, NEW o, Clean(s, o), NEW r \in Statics, NEW m \in Message,
         r.sent = Append(s.sent, m), InCall(r) <=> InCall(s),
         m.type \notin {"SHUTDOWN", "CHANGE_RUNLEVEL"},
         \/ m.type # "STATE_CHANGE_IND" /\ r.state = s.state
         \/ /\ m.type = "STATE_CHANGE_IND" /\ r.state = m.arg
            /\ r.state \in Down => Has(s.sent, "SAVE_DATA_IND")
  PROVE  /\ Clean(r, o)
         /\ m.type = "SAVE_DATA_IND" => Has(r.sent, "SAVE_DATA_IND")
<1> DEFINE q == s.sent
           x == r.sent
<1>1. q \in Seq(Message) /\ <<m>> \in Seq(Message)
  BY DEF Clean, Statics
<1>2. x = q \o <<m>>
  BY <1>1, AppendIsConcat
<1>3. /\ DOMAIN q = 1..Len(q) /\ Len(q) \in Nat
      /\ DOMAIN x = 1..(Len(q) + 1)
      /\ \A i \in 1..Len(q) : x[i] = q[i]
      /\ x[Len(q) + 1] = m
  BY <1>1, AppendProperties
<1>4. Lands(q, "STATE_CHANGE_IND", o.state, s.state)
  BY DEF Clean
<1>5. Lands(<<m>>, "STATE_CHANGE_IND", s.state, r.state)
  <2>1. DOMAIN <<m>> = {1} /\ <<m>>[1] = m
    OBVIOUS
  <2> QED
    BY <2>1, LandsOne, LandsOther
<1> HIDE DEF q, x
<1>6. Lands(x, "STATE_CHANGE_IND", o.state, r.state)
  BY <1>1, <1>2, <1>4, <1>5, LandsConcat
<1>7. \A i \in DOMAIN x : x[i].type \notin {"SHUTDOWN", "CHANGE_RUNLEVEL"}
  <2>1. \A i \in DOMAIN q : q[i].type \notin {"SHUTDOWN", "CHANGE_RUNLEVEL"}
    BY DEF Clean, q
  <2>2. \A i \in DOMAIN x : i \in 1..Len(q) \/ i = Len(q) + 1
    BY <1>3
  <2> QED
    BY <1>3, <2>1, <2>2
<1>8. Has(q, "SAVE_DATA_IND") => Has(x, "SAVE_DATA_IND")
  <2>1. \A i \in 1..Len(q) : i \in DOMAIN x
    BY <1>3
  <2> QED
    BY <1>3, <2>1 DEF Has
<1>9. m.type = "SAVE_DATA_IND" => Has(x, "SAVE_DATA_IND")
  BY <1>3 DEF Has
<1>10. r.state \in Down => o.state \in Down \/ Has(x, "SAVE_DATA_IND")
  BY <1>8 DEF Clean, q
<1> QED
  BY <1>6, <1>7, <1>9, <1>10 DEF Clean, x

\* broadcast() of anything that says nothing of states and runlevels.
LEMMA CleanBroadcast ==
  ASSUME NEW s, NEW o, Clean(s, o), NEW arg \in DeviceState,
         NEW type \in {"SAVE_DATA_IND", "STATE_REQ_DENIED_IND",
                       "BATTERY_EMPTY_IND", "ENTER_MALF"}
  PROVE  LET r == broadcast(s, type, arg) IN
         /\ Clean(r, o) /\ r.state = s.state
         /\ type = "SAVE_DATA_IND" => Has(r.sent, "SAVE_DATA_IND")
<1> DEFINE r == broadcast(s, type, arg)
           m == Msg(type, arg)
<1>1. m \in Message /\ m.type = type
  BY DEF Msg, Message, MsgType
<1>2. s \in Statics /\ s.sent \in Seq(Message)
  BY DEF Clean, Statics
<1>3. Append(s.sent, m) \in Seq(Message)
  BY <1>1, <1>2
<1>4. /\ r \in Statics /\ r.sent = Append(s.sent, m)
      /\ r.state = s.state /\ InCall(r) = InCall(s)
  BY <1>2, <1>3 DEF broadcast, Statics, InCall
<1> HIDE DEF r, m
<1>5. /\ Clean(r, o)
      /\ m.type = "SAVE_DATA_IND" => Has(r.sent, "SAVE_DATA_IND")
  BY <1>1, <1>4, CleanAppend
<1> QED
  BY <1>1, <1>4, <1>5 DEF r

\* change_state() asks for data to be saved, then announces the state.
LEMMA CleanChangeState ==
  ASSUME NEW s, NEW o, Clean(s, o), NEW new \in DeviceState
  PROVE  Clean(change_state(s, new), o)
<1> DEFINE q == IF new \in Down THEN broadcast(s, "SAVE_DATA_IND", new) ELSE s
           m == Msg("STATE_CHANGE_IND", new)
           r == [broadcast(q, "STATE_CHANGE_IND", new) EXCEPT !.state = new]
<1>1. Clean(q, o) /\ (new \in Down => Has(q.sent, "SAVE_DATA_IND"))
  BY CleanBroadcast
<1>2. r = change_state(s, new)
  BY DEF change_state
<1> HIDE DEF q
<1>3. m \in Message /\ m.type = "STATE_CHANGE_IND" /\ m.arg = new
  BY DEF Msg, Message, MsgType
<1>4. q \in Statics /\ q.sent \in Seq(Message)
  BY <1>1 DEF Clean, Statics
<1>5. Append(q.sent, m) \in Seq(Message)
  BY <1>3, <1>4
<1>6. /\ r \in Statics /\ r.sent = Append(q.sent, m)
      /\ r.state = new /\ InCall(r) = InCall(q)
  BY <1>4, <1>5 DEF broadcast, Statics, InCall
<1> HIDE DEF r, m
<1>7. Clean(r, o)
  BY <1>1, <1>3, <1>6, CleanAppend
<1> QED
  BY <1>2, <1>7

\* Timers, the main loop and every bit but the call's leave it clean.
LEMMA CleanQuiet ==
  ASSUME NEW s, NEW o, Clean(s, o)
  PROVE  /\ \A ts : Clean(stop_timers(s, ts), o)
         /\ \A t \in Timer : Clean(start_timer(s, t), o)
         /\ Clean(dsme_main_loop_quit(s), o)
         /\ \A b \in Bit \ {"emergency_call_ongoing"}, v \in BOOLEAN :
              Clean(set_bit(s, b, v), o)
         /\ \A c \in ChargerState : Clean(set_charger_state(s, c), o)
<1>0. s \in Statics
  BY DEF Clean
<1>1. ASSUME NEW ts PROVE Clean(stop_timers(s, ts), o)
  <2>1. /\ stop_timers(s, ts) \in Statics /\ stop_timers(s, ts).sent = s.sent
        /\ stop_timers(s, ts).state = s.state /\ stop_timers(s, ts).bits = s.bits
    BY <1>0 DEF stop_timers, Statics
  <2> QED
    BY <2>1, CleanSame DEF InCall
<1>2. ASSUME NEW t \in Timer PROVE Clean(start_timer(s, t), o)
  <2>1. /\ start_timer(s, t) \in Statics /\ start_timer(s, t).sent = s.sent
        /\ start_timer(s, t).state = s.state /\ start_timer(s, t).bits = s.bits
    BY <1>0 DEF start_timer, Statics
  <2> QED
    BY <2>1, CleanSame DEF InCall
<1>3. Clean(dsme_main_loop_quit(s), o)
  BY <1>0, QuitChangesLoop, CleanSame DEF InCall, SameRun
<1>4. ASSUME NEW b \in Bit \ {"emergency_call_ongoing"}, NEW v \in BOOLEAN
      PROVE  Clean(set_bit(s, b, v), o)
  <2>1. /\ set_bit(s, b, v) \in Statics /\ set_bit(s, b, v).sent = s.sent
        /\ set_bit(s, b, v).state = s.state
        /\ InCall(set_bit(s, b, v)) <=> InCall(s)
    BY <1>0 DEF set_bit, Statics, InCall
  <2> QED
    BY <2>1, CleanSame
<1>5. ASSUME NEW c \in ChargerState PROVE Clean(set_charger_state(s, c), o)
  <2>1. /\ set_charger_state(s, c) \in Statics /\ set_charger_state(s, c).sent = s.sent
        /\ set_charger_state(s, c).state = s.state
        /\ set_charger_state(s, c).bits = s.bits
    BY <1>0 DEF set_charger_state, Statics
  <2> QED
    BY <2>1, CleanSame DEF InCall
<1> QED
  BY <1>1, <1>2, <1>3, <1>4, <1>5

\* go_down() and switch_runlevel() add timers or quit the main loop.
LEMMA CleanTransitions ==
  ASSUME NEW s, NEW o, Clean(s, o), NEW e
  PROVE  /\ \A new \in DeviceState : Clean(go_down(s, new, e), o)
         /\ \A new \in DeviceState, t \in Timer : Clean(switch_runlevel(s, new, t, e), o)
<1>1. ASSUME NEW new \in DeviceState PROVE Clean(go_down(s, new, e), o)
  <2> DEFINE r == change_state(s, new)
             q == stop_delayed_runlevel_timers(r)
  <2>1. Clean(r, o)
    BY CleanChangeState
  <2>2. \/ go_down(s, new, e) = r
        \/ go_down(s, new, e) = dsme_main_loop_quit(q)
        \/ go_down(s, new, e) = start_timer(q, "delayed_shutdown")
    BY DEF go_down, start_delayed_shutdown_timer
  <2> HIDE DEF r
  <2>3. Clean(q, o)
    BY <2>1, CleanQuiet DEF stop_delayed_runlevel_timers
  <2> HIDE DEF q
  <2>4. Clean(dsme_main_loop_quit(q), o) /\ Clean(start_timer(q, "delayed_shutdown"), o)
    BY <2>3, CleanQuiet DEF Timer, RunlevelTimer
  <2> QED
    BY <2>1, <2>2, <2>4
<1>2. ASSUME NEW new \in DeviceState, NEW t \in Timer
      PROVE  Clean(switch_runlevel(s, new, t, e), o)
  <2>1. Clean(start_timer(s, t), o) /\ Clean(dsme_main_loop_quit(s), o)
    BY CleanQuiet
  <2>2. Clean(change_state(start_timer(s, t), new), o)
    BY <2>1, CleanChangeState
  <2> QED
    BY <2>1, <2>2 DEF switch_runlevel
<1> QED
  BY <1>1, <1>2

\* Whatever state is selected, changing to it is announced.
LEMMA CleanReselect ==
  ASSUME NEW s, NEW o, Clean(s, o), NEW e
  PROVE  Clean(change_state_if_necessary(s, e), o)
<1> DEFINE new == select_state(s)
<1>1. new \in DeviceState
  BY DEF Clean, Statics, select_state, DeviceState
<1>2. change_state_if_necessary(s, e) \in {s, try_to_change_state(s, new, e)}
  BY DEF change_state_if_necessary
<1> HIDE DEF new
<1>3. /\ {"REBOOT", "SHUTDOWN"} \subseteq DeviceState
      /\ {"delayed_user", "delayed_actdead"} \subseteq Timer
      /\ {"shutdown_requested", "user_switch_done", "actdead_switch_done"}
           \subseteq Bit \ {"emergency_call_ongoing"}
  BY DEF DeviceState, Timer, RunlevelTimer, Bit
<1>4. Clean(leave_actdead(s, new, e), o)
  <2> DEFINE q == set_bit(s, "user_switch_done", FALSE)
  <2>1. Clean(q, o) /\ Clean(set_bit(s, "shutdown_requested", TRUE), o)
    BY <1>3, CleanQuiet
  <2>2. \/ leave_actdead(s, new, e) = set_bit(s, "shutdown_requested", TRUE)
        \/ leave_actdead(s, new, e) = switch_runlevel(q, new, "delayed_user", e)
        \/ leave_actdead(s, new, e) = go_down(q, "REBOOT", e)
    BY DEF leave_actdead
  <2> HIDE DEF q
  <2>3. /\ Clean(switch_runlevel(q, new, "delayed_user", e), o)
        /\ Clean(go_down(q, "REBOOT", e), o)
    BY <1>1, <1>3, <2>1, CleanTransitions
  <2> QED
    BY <2>1, <2>2, <2>3
<1>5. Clean(leave_user(s, new, e), o)
  <2> DEFINE q == set_bit(s, "actdead_switch_done", FALSE)
  <2>1. Clean(q, o)
    BY <1>3, CleanQuiet
  <2>2. \/ leave_user(s, new, e) = switch_runlevel(q, new, "delayed_actdead", e)
        \/ leave_user(s, new, e) = go_down(q, "REBOOT", e)
        \/ leave_user(s, new, e) = go_down(q, "SHUTDOWN", e)
    BY DEF leave_user
  <2> HIDE DEF q
  <2>3. /\ Clean(switch_runlevel(q, new, "delayed_actdead", e), o)
        /\ Clean(go_down(q, "REBOOT", e), o) /\ Clean(go_down(q, "SHUTDOWN", e), o)
    BY <1>1, <1>3, <2>1, CleanTransitions
  <2> QED
    BY <2>2, <2>3
<1>6. Clean(change_state(s, new), o) /\ Clean(go_down(s, new, e), o)
  BY <1>1, CleanChangeState, CleanTransitions
<1>7. Clean(try_to_change_state(s, new, e), o)
  BY <1>4, <1>5, <1>6 DEF try_to_change_state
<1> QED
  BY <1>2, <1>7
-----------------------------------------------------------------------------
(***************************************************************************)
(* Orders to init behind requests to save data.                            *)
(***************************************************************************)
\* Handling a message: a request to save data counts from then on.
LEMMA OrdersTail ==
  ASSUME NEW S, NEW q \in Seq(S), q # << >>, NEW st, NEW sv, NEW fo, Orders(q, st, sv, fo)
  PROVE  /\ Head(q).type # "SAVE_DATA_IND" => Orders(Tail(q), st, sv, fo)
         /\ Orders(Tail(q), st, TRUE, fo)
<1> DEFINE t == Tail(q)
<1>1. /\ Head(q) = q[1] /\ DOMAIN q = 1..Len(q) /\ Len(q) \in Nat
      /\ \A i \in DOMAIN t : i \in Nat \ {0} /\ i + 1 \in DOMAIN q /\ t[i] = q[i + 1]
      /\ \A i \in DOMAIN q : i # 1 => i - 1 \in DOMAIN t /\ t[i - 1] = q[i]
  BY TailIs
<1> HIDE DEF t
<1>2. ASSUME Head(q).type # "SAVE_DATA_IND"
      PROVE  Orders(t, st, sv, fo)
  <2>1. Has(q, "SAVE_DATA_IND") => Has(t, "SAVE_DATA_IND")
    BY <1>1, <1>2 DEF Has
  <2>2. ASSUME NEW i \in DOMAIN t, Before(q, "SAVE_DATA_IND", i + 1)
        PROVE  Before(t, "SAVE_DATA_IND", i)
    <3>1. PICK j \in DOMAIN q : j < i + 1 /\ q[j].type = "SAVE_DATA_IND"
      BY <2>2 DEF Before
    <3>2. j # 1 /\ j \in Nat /\ i \in Nat
      BY <1>1, <1>2, <3>1
    <3>3. j - 1 \in DOMAIN t /\ t[j - 1] = q[j] /\ j - 1 < i
      BY <1>1, <3>1, <3>2
    <3> QED
      BY <3>1, <3>3 DEF Before
  <2> QED
    BY <1>1, <2>1, <2>2 DEF Orders
<1>3. Orders(t, st, TRUE, fo)
  BY <1>1 DEF Orders
<1> QED
  BY <1>2, <1>3 DEF t

\* Broadcasts of a clean handler: none is an order.
LEMMA OrdersConcat ==
  ASSUME NEW S, NEW p \in Seq(S), NEW q \in Seq(S), NEW st, NEW sv, NEW fo, NEW new,
         Orders(p, st, sv, fo),
         \A i \in DOMAIN q : q[i].type \notin {"SHUTDOWN", "CHANGE_RUNLEVEL"},
         new \in Down => st \in Down \/ Has(q, "SAVE_DATA_IND")
  PROVE  Orders(p \o q, new, sv, fo)
<1> DEFINE r == p \o q
<1>1. /\ Len(p) \in Nat /\ Len(q) \in Nat
      /\ DOMAIN p = 1..Len(p) /\ DOMAIN q = 1..Len(q)
      /\ DOMAIN r = 1..(Len(p) + Len(q))
  BY ConcatProperties
<1>2. /\ \A i \in 1..Len(p) : r[i] = p[i]
      /\ \A i \in 1..Len(q) : r[Len(p) + i] = q[i]
  BY ConcatProperties
<1>3. \A k \in 1..(Len(p) + Len(q)) : k \notin 1..Len(p) =>
        k - Len(p) \in 1..Len(q) /\ k = Len(p) + (k - Len(p))
  BY <1>1
<1> HIDE DEF r
<1>4. \A k \in DOMAIN r : k \notin DOMAIN p => r[k].type \notin {"SHUTDOWN", "CHANGE_RUNLEVEL"}
  <2>1. SUFFICES ASSUME NEW k \in DOMAIN r, k \notin DOMAIN p
                 PROVE  r[k].type \notin {"SHUTDOWN", "CHANGE_RUNLEVEL"}
    OBVIOUS
  <2>2. k - Len(p) \in DOMAIN q /\ r[k] = q[k - Len(p)]
    BY <1>1, <1>2, <1>3, <2>1
  <2> QED
    BY <2>2
<1>5. \A k \in DOMAIN p : k \in DOMAIN r /\ r[k] = p[k]
  BY <1>1, <1>2
<1>6. \A k \in DOMAIN q : Len(p) + k \in DOMAIN r /\ r[Len(p) + k] = q[k]
  BY <1>1, <1>2
<1>7. /\ Has(p, "SAVE_DATA_IND") => Has(r, "SAVE_DATA_IND")
      /\ Has(q, "SAVE_DATA_IND") => Has(r, "SAVE_DATA_IND")
  BY <1>5, <1>6 DEF Has
<1>8. \A i : Before(p, "SAVE_DATA_IND", i) => Before(r, "SAVE_DATA_IND", i)
  BY <1>5 DEF Before
<1>9. Orders(r, new, sv, fo)
  BY <1>4, <1>5, <1>7, <1>8 DEF Orders
<1> QED
  BY <1>9 DEF r

\* An order is queued when the device goes down or malf forces it.
LEMMA OrdersAppend ==
  ASSUME NEW S, NEW p \in Seq(S), NEW m \in S, NEW st, NEW sv, NEW fo,
         Orders(p, st, sv, fo),
         m.type = "SHUTDOWN" => st \in Down \/ fo = TRUE,
         m.type = "CHANGE_RUNLEVEL" => m.arg \notin Down
  PROVE  Orders(Append(p, m), st, sv, fo)
<1> DEFINE r == Append(p, m)
<1>1. /\ Len(p) \in Nat /\ DOMAIN p = 1..Len(p) /\ DOMAIN r = 1..(Len(p) + 1)
      /\ \A i \in 1..Len(p) : r[i] = p[i]
      /\ r[Len(p) + 1] = m
  BY AppendProperties
<1> HIDE DEF r
<1>2. \A k \in DOMAIN p : k \in DOMAIN r /\ r[k] = p[k] /\ k < Len(p) + 1
  BY <1>1
<1>3. Has(p, "SAVE_DATA_IND") =>
        Has(r, "SAVE_DATA_IND") /\ Before(r, "SAVE_DATA_IND", Len(p) + 1)
  BY <1>2 DEF Has, Before
<1>4. \A i : Before(p, "SAVE_DATA_IND", i) => Before(r, "SAVE_DATA_IND", i)
  BY <1>2 DEF Before
<1>5. \A k \in DOMAIN r : k \in DOMAIN p \/ k = Len(p) + 1
  BY <1>1
<1>6. ASSUME NEW i \in DOMAIN r
      PROVE  /\ r[i].type = "SHUTDOWN"
                 => sv = TRUE \/ fo = TRUE \/ Before(r, "SAVE_DATA_IND", i)
             /\ r[i].type = "CHANGE_RUNLEVEL" => r[i].arg \notin Down
  <2>1. CASE i \in DOMAIN p
    BY <2>1, <1>2, <1>4 DEF Orders
  <2>2. CASE i = Len(p) + 1
    BY <2>2, <1>1, <1>3 DEF Orders
  <2> QED
    BY <1>5, <2>1, <2>2
<1>7. Orders(r, st, sv, fo)
  BY <1>3, <1>6 DEF Orders
<1> QED
  BY <1>7 DEF r
-----------------------------------------------------------------------------
(***************************************************************************)
(* Handlers.                                                               *)
(***************************************************************************)
\* The callbacks of the timers that delay a bit, and starting those timers.
LEMMA CleanDelayed ==
  ASSUME NEW s, NEW o, Clean(s, o), NEW e
  PROVE  /\ Clean(delayed_overheat_fn(s, e), o) /\ Clean(start_overheat_timer(s, e), o)
         /\ Clean(delayed_battery_empty_fn(s, e), o)
         /\ Clean(start_battery_empty_timer(s, e), o)
         /\ Clean(delayed_charger_disconnect_fn(s, e), o)
         /\ Clean(start_charger_disconnect_timer(s, e), o)
         /\ Clean(stop_charger_disconnect_timer(s), o)
<1> DEFINE h == set_bit(s, "device_overheated", TRUE)
           b == set_bit(s, "battery_empty", TRUE)
           c == set_charger_state(s, "DISCONNECTED")
           z == stop_timers(s, {"charger_disconnect"})
<1>1. Clean(h, o) /\ Clean(b, o) /\ Clean(c, o) /\ Clean(z, o)
  BY CleanQuiet DEF Bit, ChargerState
<1> HIDE DEF h, b, c, z
<1>2. /\ Clean(change_state_if_necessary(h, e), o)
      /\ Clean(change_state_if_necessary(b, e), o)
      /\ Clean(change_state_if_necessary(c, e), o)
  BY <1>1, CleanReselect
<1>3. /\ Clean(delayed_overheat_fn(s, e), o)
      /\ Clean(delayed_battery_empty_fn(s, e), o)
      /\ Clean(delayed_charger_disconnect_fn(s, e), o)
  BY <1>2, CleanQuiet DEF delayed_overheat_fn, delayed_battery_empty_fn,
       delayed_charger_disconnect_fn, h, b, c
<1>4. \A t \in {"overheat", "battery_empty", "charger_disconnect"} :
        Clean(start_timer(s, t), o)
  BY CleanQuiet DEF Timer
<1>5. Clean(set_charger_state(z, "DISCONNECTED"), o)
  BY <1>1, CleanQuiet DEF ChargerState
<1> QED
  BY <1>3, <1>4, <1>5 DEF start_overheat_timer, start_battery_empty_timer,
       start_charger_disconnect_timer, stop_charger_disconnect_timer, z

\* Requests to go down, and the block on them.
LEMMA CleanRequests ==
  ASSUME NEW s, NEW o, Clean(s, o), NEW e, NEW conn, NEW v \in BOOLEAN,
         NEW req \in {"SHUTDOWN", "REBOOT"}
  PROVE  /\ Clean(handle_telinit(s, req, conn, e), o)
         /\ Clean(update_shutdown_blocked(s, v, e), o)
<1>1. {"shutdown_requested", "reboot_requested", "actdead_requested",
       "shutdown_blocked"} \subseteq Bit \ {"emergency_call_ongoing"}
  BY DEF Bit
<1>2. Clean(handle_telinit(s, req, conn, e), o)
  <2> DEFINE q == set_bit(s, "actdead_requested", FALSE)
             a == accept_request(s, req)
  <2>1. Clean(q, o)
    BY <1>1, CleanQuiet
  <2>2. \/ a = set_bit(q, "reboot_requested", TRUE)
        \/ a = set_bit(q, "shutdown_requested", TRUE)
    BY DEF accept_request
  <2> HIDE DEF q, a
  <2>3. Clean(a, o)
    BY <1>1, <2>1, <2>2, CleanQuiet
  <2>4. Clean(change_state_if_necessary(a, e), o)
    BY <2>3, CleanReselect
  <2>5. req \in DeviceState
    BY DEF DeviceState
  <2>6. Clean(broadcast(s, "STATE_REQ_DENIED_IND", req), o)
    BY <2>5, CleanBroadcast
  <2> QED
    BY <2>4, <2>6 DEF handle_telinit, a
<1>3. Clean(update_shutdown_blocked(s, v, e), o)
  <2> DEFINE q == set_bit(s, "shutdown_blocked", v)
             w == set_bit(q, "shutdown_requested", FALSE)
             z == set_bit(w, "reboot_requested", FALSE)
  <2>1. Clean(q, o)
    BY <1>1, CleanQuiet
  <2>2. Clean(w, o)
    BY <1>1, <2>1, CleanQuiet
  <2>3. Clean(z, o)
    BY <1>1, <2>2, CleanQuiet
  <2>4. \/ update_shutdown_blocked(s, v, e) = s
        \/ update_shutdown_blocked(s, v, e) = q
        \/ update_shutdown_blocked(s, v, e) = change_state_if_necessary(z, e)
    BY DEF update_shutdown_blocked
  <2> HIDE DEF q, w, z
  <2> QED
    BY <2>1, <2>3, <2>4, CleanReselect
<1> QED
  BY <1>2, <1>3

\* A report of an emergency call sets the flag and is otherwise clean.
LEMMA CleanEmergency ==
  ASSUME NEW s, Clean(s, s), NEW v \in BOOLEAN, NEW e
  PROVE  LET o == set_bit(s, "emergency_call_ongoing", v) IN
         /\ o.state = s.state /\ (InCall(o) <=> v = TRUE)
         /\ Clean(change_state_if_necessary(update_emergency_call_ongoing(s, v, e), e), o)
<1> DEFINE o == set_bit(s, "emergency_call_ongoing", v)
           u == update_emergency_call_ongoing(s, v, e)
<1>1. /\ o \in Statics /\ o.sent = s.sent /\ o.state = s.state
      /\ InCall(o) <=> v = TRUE
  BY DEF Clean, Statics, set_bit, InCall, Bit
<1>2. Clean(o, o)
  BY <1>1 DEF Clean
<1>3. Clean(u, o)
  <2>1. CASE on(s, "emergency_call_ongoing") = v
    <3>1. u = s
      BY <2>1 DEF update_emergency_call_ongoing
    <3>2. InCall(s) <=> InCall(o)
      BY <2>1, <1>1 DEF on, InCall
    <3> QED
      BY <1>1, <1>2, <3>1, <3>2, CleanSame DEF Clean
  <2>2. CASE on(s, "emergency_call_ongoing") # v
    <3>1. \/ u = stop_delayed_runlevel_timers(o)
          \/ u = change_state_if_necessary(o, e)
      BY <2>2 DEF update_emergency_call_ongoing
    <3> HIDE DEF o, u
    <3> QED
      BY <1>2, <3>1, CleanQuiet, CleanReselect DEF stop_delayed_runlevel_timers
  <2> QED
    BY <2>1, <2>2
<1> HIDE DEF o, u
<1>4. Clean(change_state_if_necessary(u, e), o)
  BY <1>3, CleanReselect
<1> QED
  BY <1>1, <1>4 DEF o, u
-----------------------------------------------------------------------------
(***************************************************************************)
(* The queue as the listeners will see it.                                 *)
(***************************************************************************)
\* What the listeners know, and what they will be told by the queue q when
\* state.c has device state st and call flag c.
Told == [state |-> dsme_state, call |-> emergency_call_started,
         saved |-> saved, forced |-> forced]

QueueOK(q, st, c, told) ==
  /\ q \in Seq(QMessage)
  /\ Lands(q, "STATE_CHANGE_IND", told.state, st)
  /\ Lands(q, "SET_EMERGENCY_CALL_STATE", c, told.call)
  /\ Orders(q, st, told.saved, told.forced)

\* PInv but for what depends on state.c alone.
ListenersOK ==
  /\ QueueOK(queue, current_state, CallFlag, Told)
  /\ dsme_state \in DeviceState /\ emergency_call_started \in BOOLEAN
  /\ saved \in BOOLEAN /\ forced \in BOOLEAN
  /\ ordered \cap Down # {} => saved = TRUE \/ forced = TRUE

\* PInv as the invariant of the state policy and what its listeners have to agree on.
LEMMA PInvIs == PInv <=> Inv /\ ListenersOK
BY DEF PInv, PTypes, ProxyForm, TrackerForm, SaveForm, ListenersOK, QueueOK, Told

\* The same in the next state.
LEMMA PInvNextIs == PInv' <=> Inv' /\ ListenersOK'
BY DEF PInv, PTypes, ProxyForm, TrackerForm, SaveForm, ListenersOK, QueueOK, Told

\* Queueing the broadcasts of a clean handler.
LEMMA CleanQueued ==
  ASSUME NEW q, NEW o, NEW r, NEW c, NEW told, QueueOK(q, o.state, c, told), Clean(r, o)
  PROVE  QueueOK(q \o r.sent, r.state, c, told)
<1>1. r.sent \in Seq(Message) /\ q \in Seq(QMessage)
  BY DEF Clean, Statics, QueueOK
<1>2. r.sent \in Seq(QMessage) /\ \A i \in DOMAIN r.sent : r.sent[i] \in Message
  BY <1>1 DEF QMessage
<1>3. \A i \in DOMAIN r.sent : r.sent[i].type # "SET_EMERGENCY_CALL_STATE"
  BY <1>2 DEF Message, MsgType
<1>4. Lands(q \o r.sent, "STATE_CHANGE_IND", told.state, r.state)
  BY <1>1, <1>2, LandsConcat DEF QueueOK, Clean
<1>5. Lands(q \o r.sent, "SET_EMERGENCY_CALL_STATE", c, told.call)
  BY <1>1, <1>2, <1>3, LandsConcat, LandsOther DEF QueueOK
<1>6. Orders(q \o r.sent, r.state, told.saved, told.forced)
  BY <1>1, <1>2, OrdersConcat DEF QueueOK, Clean
<1> QED
  BY <1>1, <1>2, <1>4, <1>5, <1>6, ConcatProperties DEF QueueOK

\* Queueing one message that is no news of the state; a report of the call
\* is news for state.c.
LEMMA QueueOne ==
  ASSUME NEW q, NEW st, NEW c, NEW told, QueueOK(q, st, c, told), NEW m \in QMessage,
         m.type # "STATE_CHANGE_IND",
         m.type = "SHUTDOWN" => st \in Down \/ told.forced = TRUE,
         m.type = "CHANGE_RUNLEVEL" => m.arg \notin Down,
         NEW call, IF m.type = "SET_EMERGENCY_CALL_STATE" THEN call = m.arg
                   ELSE call = told.call
  PROVE  QueueOK(Append(q, m), st, c, [state |-> told.state, call |-> call,
                                       saved |-> told.saved, forced |-> told.forced])
<1>1. q \in Seq(QMessage) /\ <<m>> \in Seq(QMessage) /\ Append(q, m) = q \o <<m>>
  BY AppendIsConcat DEF QueueOK
<1>2. DOMAIN <<m>> = {1} /\ <<m>>[1] = m
  OBVIOUS
<1>3. \A d : Lands(<<m>>, "STATE_CHANGE_IND", d, d)
  BY <1>2, LandsOther
<1>4. Lands(<<m>>, "SET_EMERGENCY_CALL_STATE", told.call, call)
  <2>1. CASE m.type = "SET_EMERGENCY_CALL_STATE"
    BY <2>1, LandsOne
  <2>2. CASE m.type # "SET_EMERGENCY_CALL_STATE"
    BY <2>2, <1>2, LandsOther
  <2> QED
    BY <2>1, <2>2
<1>5. /\ Lands(q \o <<m>>, "STATE_CHANGE_IND", told.state, st)
      /\ Lands(q \o <<m>>, "SET_EMERGENCY_CALL_STATE", c, call)
  BY <1>1, <1>3, <1>4, LandsConcat DEF QueueOK
<1>6. Orders(Append(q, m), st, told.saved, told.forced)
  BY <1>1, OrdersAppend DEF QueueOK
<1> QED
  BY <1>1, <1>5, <1>6, AppendProperties DEF QueueOK

\* Taking the next message off the queue.
LEMMA HeadGone ==
  ASSUME PInv, queue # << >>
  PROVE  LET m == Head(queue) IN
         /\ m \in QMessage
         /\ m.type \notin {"STATE_CHANGE_IND", "SAVE_DATA_IND", "SET_EMERGENCY_CALL_STATE"}
              => QueueOK(Tail(queue), current_state, CallFlag, Told)
         /\ m.type = "SET_EMERGENCY_CALL_STATE"
              => QueueOK(Tail(queue), current_state, m.arg, Told)
         /\ m.type = "STATE_CHANGE_IND"
              => QueueOK(Tail(queue), current_state, CallFlag, [Told EXCEPT !.state = m.arg])
         /\ m.type = "SAVE_DATA_IND"
              => QueueOK(Tail(queue), current_state, CallFlag,
                         [state |-> Told.state, call |-> Told.call,
                          saved |-> TRUE, forced |-> Told.forced])
         /\ m.type = "SHUTDOWN" => saved = TRUE \/ forced = TRUE
         /\ m.type = "CHANGE_RUNLEVEL" => m.arg \notin Down
<1> DEFINE m == Head(queue)
           q == Tail(queue)
           told == Told
<1>1. QueueOK(queue, current_state, CallFlag, told) /\ queue \in Seq(QMessage)
  BY PInvIs DEF QueueOK, ListenersOK
<1>2. m \in QMessage /\ q \in Seq(QMessage) /\ m = queue[1] /\ 1 \in DOMAIN queue
  BY <1>1, TailIs
<1>3. told.saved = saved /\ told.forced = forced
  BY DEF Told
<1>4. /\ m.type = "SHUTDOWN" => saved = TRUE \/ forced = TRUE
      /\ m.type = "CHANGE_RUNLEVEL" => m.arg \notin Down
  <2>1. ~Before(queue, "SAVE_DATA_IND", 1)
    BY <1>1 DEF Before
  <2> QED
    BY <1>1, <1>2, <1>3, <2>1 DEF QueueOK, Orders
<1>5. /\ told = [state |-> told.state, call |-> told.call,
                 saved |-> told.saved, forced |-> told.forced]
  BY DEF Told
<1>6. /\ m.type # "STATE_CHANGE_IND"
           => Lands(q, "STATE_CHANGE_IND", told.state, current_state)
      /\ m.type = "STATE_CHANGE_IND"
           => Lands(q, "STATE_CHANGE_IND", m.arg, current_state)
  BY <1>1, LandsTail DEF QueueOK
<1>7. /\ m.type # "SET_EMERGENCY_CALL_STATE"
           => Lands(q, "SET_EMERGENCY_CALL_STATE", CallFlag, told.call)
      /\ m.type = "SET_EMERGENCY_CALL_STATE"
           => Lands(q, "SET_EMERGENCY_CALL_STATE", m.arg, told.call)
  BY <1>1, LandsTail DEF QueueOK
<1>8. /\ m.type # "SAVE_DATA_IND" => Orders(q, current_state, told.saved, told.forced)
      /\ Orders(q, current_state, TRUE, told.forced)
  BY <1>1, OrdersTail DEF QueueOK
<1> HIDE DEF m, q, told
<1>9. /\ m.type \notin {"STATE_CHANGE_IND", "SAVE_DATA_IND", "SET_EMERGENCY_CALL_STATE"}
           => QueueOK(q, current_state, CallFlag, told)
      /\ m.type = "SET_EMERGENCY_CALL_STATE" => QueueOK(q, current_state, m.arg, told)
      /\ m.type = "STATE_CHANGE_IND"
           => QueueOK(q, current_state, CallFlag, [told EXCEPT !.state = m.arg])
      /\ m.type = "SAVE_DATA_IND"
           => QueueOK(q, current_state, CallFlag,
                      [state |-> told.state, call |-> told.call,
                       saved |-> TRUE, forced |-> told.forced])
  <2>1. \A x : /\ [told EXCEPT !.state = x].state = x
               /\ [told EXCEPT !.state = x].call = told.call
               /\ [told EXCEPT !.state = x].saved = told.saved
               /\ [told EXCEPT !.state = x].forced = told.forced
    BY <1>5
  <2> QED
    BY <1>2, <1>6, <1>7, <1>8, <2>1 DEF QueueOK
<1> QED
  BY <1>2, <1>4, <1>9 DEF m, q, told

-----------------------------------------------------------------------------
(***************************************************************************)
(* Steps.                                                                  *)
(***************************************************************************)
\* The listeners are told of a step of state.c by what it queues.
LEMMA TellListeners ==
  ASSUME PInv, Inv', QueueOK(queue', current_state', CallFlag', Told),
         UNCHANGED <<emergency_call_started, dsme_state, saved, forced, ordered>>
  PROVE  PInv'
<1>1. Told' = Told
  BY DEF Told
<1>2. QueueOK(queue', current_state', CallFlag', Told')
  BY <1>1
<1>3. ListenersOK'
  BY <1>2, PInvIs DEF ListenersOK
<1> QED
  BY <1>3, PInvNextIs

\* A clean handler of state.c, after the message it handles left the queue.
LEMMA CleanStep ==
  ASSUME PInv, Inv', NEW q, NEW o, NEW c \in BOOLEAN, NEW r,
         QueueOK(q, current_state, c, Told), o.state = current_state,
         InCall(o) <=> c = TRUE, Clean(r, o), Commit(r), queue' = q \o sent',
         UNCHANGED <<emergency_call_started, dsme_state, saved, forced, ordered>>
  PROVE  PInv'
<1>1. queue' = q \o r.sent /\ current_state' = r.state /\ bits' = r.bits
  BY DEF Commit
<1>2. CallFlag' = c
  <2>1. CallFlag' = IF InCall(r) THEN TRUE ELSE FALSE
    BY <1>1 DEF CallFlag, is_on, InCall
  <2> QED
    BY <2>1 DEF Clean
<1>3. QueueOK(q \o r.sent, r.state, c, Told)
  BY CleanQueued
<1> QED
  BY <1>1, <1>2, <1>3, TellListeners

\* The handlers begin with statics that are clean.
LEMMA NowClean ==
  ASSUME PInv
  PROVE  /\ Clean(Now, Now) /\ Now.state = current_state /\ Good(Now)
         /\ CallFlag \in BOOLEAN /\ (InCall(Now) <=> CallFlag = TRUE)
<1>1. Good(Now)
  BY NowGood DEF PInv
<1>2. Now.state = current_state /\ Now.sent = << >> /\ Now.bits = bits
  BY DEF Now
<1>3. Clean(Now, Now)
  BY <1>1, <1>2 DEF Clean, Good, Lands
<1> QED
  BY <1>1, <1>2, <1>3 DEF CallFlag, is_on, InCall

\* The arguments of what state.c handles.
LEMMA Argument ==
  ASSUME NEW m \in QMessage
  PROVE  /\ m.type \in {"SET_EMERGENCY_CALL_STATE", "SET_THERMAL_STATUS",
                        "SET_CHARGER_STATE", "SET_BATTERY_STATE"} => m.arg \in BOOLEAN
         /\ m.type = "SET_BATTERY_LEVEL" => m.arg \in BatteryLevels
<1>1. m \in Message => m.type \in MsgType
  BY DEF Message
<1>2. m \in LevelReport => m.type = "SET_BATTERY_LEVEL" /\ m.arg \in BatteryLevels
  BY DEF LevelReport
<1>3. m \in Incoming => m.arg \in BOOLEAN /\ m.type # "SET_BATTERY_LEVEL"
  BY DEF Incoming
<1> QED
  BY <1>1, <1>2, <1>3 DEF QMessage, MsgType

\* Every handler of state.c, with the message it handles.
LEMMA HandleByStateOK ==
  ASSUME PInv, NEW e \in Env, HandleByState(e)
  PROVE  PInv'
<1> DEFINE m == Head(queue)
           s == Now
<1>1. /\ queue # << >> /\ StateHandler(m, e) /\ queue' = Tail(queue) \o sent'
      /\ UNCHANGED <<emergency_call_started, dsme_state, saved, forced, ordered>>
  BY DEF HandleByState
<1>2. /\ m \in QMessage
      /\ m.type \notin {"STATE_CHANGE_IND", "SAVE_DATA_IND", "SET_EMERGENCY_CALL_STATE"}
           => QueueOK(Tail(queue), current_state, CallFlag, Told)
      /\ m.type = "SET_EMERGENCY_CALL_STATE"
           => QueueOK(Tail(queue), current_state, m.arg, Told)
  BY <1>1, HeadGone
<1>3. /\ Clean(s, s) /\ s.state = current_state /\ Good(s)
      /\ CallFlag \in BOOLEAN /\ (InCall(s) <=> CallFlag = TRUE)
  BY NowClean
<1>4. Inv
  BY DEF PInv
<1> HIDE DEF m
<1>5. /\ m.type \in {"SET_EMERGENCY_CALL_STATE", "SET_THERMAL_STATUS",
                     "SET_CHARGER_STATE", "SET_BATTERY_STATE"} => m.arg \in BOOLEAN
      /\ m.type = "SET_BATTERY_LEVEL" => m.arg \in BatteryLevels
  BY <1>2, Argument
<1>6. ASSUME NEW r, Handle(r), Clean(r, s), Inv',
             m.type \notin {"STATE_CHANGE_IND", "SAVE_DATA_IND", "SET_EMERGENCY_CALL_STATE"}
      PROVE  PInv'
  <2>1. Commit(r)
    BY <1>6 DEF Handle
  <2>2. QueueOK(Tail(queue), current_state, CallFlag, Told)
    BY <1>2, <1>6
  <2> HIDE DEF s
  <2> QED
    BY <1>1, <1>3, <1>6, <2>1, <2>2, CleanStep
<1>7. CASE m.type = "SET_EMERGENCY_CALL_STATE" /\ SET_EMERGENCY_CALL_STATE(m.arg, e)
  <2> DEFINE o == set_bit(s, "emergency_call_ongoing", m.arg)
             r == change_state_if_necessary(update_emergency_call_ongoing(s, m.arg, e), e)
  <2>1. m.arg \in BOOLEAN
    BY <1>5, <1>7
  <2>2. Inv'
    BY <1>4, <1>7, <2>1, ReportOK DEF StepOK
  <2>3. Commit(r)
    BY <1>7 DEF SET_EMERGENCY_CALL_STATE, Handle
  <2> HIDE DEF s
  <2>4. o.state = s.state /\ (InCall(o) <=> m.arg = TRUE) /\ Clean(r, o)
    BY <1>3, <2>1, CleanEmergency
  <2>5. QueueOK(Tail(queue), current_state, m.arg, Told)
    BY <1>2, <1>7
  <2> HIDE DEF o, r
  <2> QED
    BY <1>1, <1>3, <2>1, <2>2, <2>3, <2>4, <2>5, CleanStep
<1>8. CASE m.type = "SET_THERMAL_STATUS" /\ SET_THERMAL_STATUS(m.arg, e)
  <2>1. Inv'
    BY <1>4, <1>5, <1>8, ReportOK DEF StepOK
  <2>2. Handle(start_overheat_timer(s, e)) \/ Handle(s)
    BY <1>8 DEF SET_THERMAL_STATUS
  <2> HIDE DEF s
  <2> QED
    BY <1>3, <1>6, <1>8, <2>1, <2>2, CleanDelayed
<1>9. CASE m.type = "SET_CHARGER_STATE" /\ SET_CHARGER_STATE(m.arg, e)
  <2> DEFINE q == stop_charger_disconnect_timer(s)
  <2>1. Inv'
    BY <1>4, <1>5, <1>9, ReportOK DEF StepOK
  <2>2. \/ Handle(start_charger_disconnect_timer(q, e))
        \/ \E c \in ChargerState :
             Handle(change_state_if_necessary(set_charger_state(q, c), e))
    BY <1>9 DEF SET_CHARGER_STATE, ChargerState
  <2> HIDE DEF s
  <2>3. Clean(q, s)
    BY <1>3, CleanDelayed
  <2> HIDE DEF q
  <2>4. Clean(start_charger_disconnect_timer(q, e), s)
    BY <2>3, CleanDelayed
  <2>5. \A c \in ChargerState : Clean(change_state_if_necessary(set_charger_state(q, c), e), s)
    BY <2>3, CleanQuiet, CleanReselect
  <2> QED
    BY <1>6, <1>9, <2>1, <2>2, <2>4, <2>5
<1>10. CASE m.type = "SET_BATTERY_STATE" /\ SET_BATTERY_STATE(m.arg, e)
  <2> DEFINE q == broadcast(s, "BATTERY_EMPTY_IND", "NOT_SET")
  <2>1. Inv'
    BY <1>4, <1>5, <1>10, ReportOK DEF StepOK
  <2>2. \/ Handle(start_battery_empty_timer(q, e))
        \/ Handle(stop_timers(s, {"battery_empty"}))
    BY <1>10 DEF SET_BATTERY_STATE
  <2> HIDE DEF s
  <2>3. Clean(q, s)
    BY <1>3, CleanBroadcast DEF DeviceState
  <2> HIDE DEF q
  <2>4. Clean(start_battery_empty_timer(q, e), s)
    BY <2>3, CleanDelayed
  <2>5. Clean(stop_timers(s, {"battery_empty"}), s)
    BY <1>3, CleanQuiet
  <2> QED
    BY <1>6, <1>10, <2>1, <2>2, <2>4, <2>5
<1>11. CASE m.type = "SET_BATTERY_LEVEL" /\ SET_BATTERY_LEVEL(m.arg)
  <2>1. m.arg \in BatteryLevels
    BY <1>5, <1>11
  <2>2. Inv'
    BY <1>4, <1>11, <2>1, LevelAndSwitchOK DEF StepOK
  <2>3. Handle([s EXCEPT !.level = m.arg])
    BY <1>11 DEF SET_BATTERY_LEVEL
  <2> HIDE DEF s
  <2>4. /\ [s EXCEPT !.level = m.arg] \in Statics
        /\ [s EXCEPT !.level = m.arg].sent = s.sent
        /\ [s EXCEPT !.level = m.arg].state = s.state
        /\ [s EXCEPT !.level = m.arg].bits = s.bits
    BY <1>3, <2>1 DEF Good, Statics
  <2>5. Clean([s EXCEPT !.level = m.arg], s)
    BY <1>3, <2>4, CleanSame DEF InCall
  <2> QED
    BY <1>6, <1>11, <2>2, <2>3, <2>5
<1>12. ASSUME NEW req \in {"SHUTDOWN", "REBOOT"}, Request(req, "dsme", e),
              m.type \in {"SHUTDOWN_REQ", "REBOOT_REQ"}
       PROVE  PInv'
  <2>1. Handle(handle_telinit(s, req, "dsme", e))
    BY <1>12 DEF Request
  <2>2. Sound(handle_telinit(s, req, "dsme", e), s)
    BY <1>3, RequestSound
  <2>3. Inv'
    BY <1>4, <2>1, <2>2, HandleOK DEF StepOK
  <2> HIDE DEF s
  <2>4. TRUE \in BOOLEAN
    OBVIOUS
  <2>5. Clean(handle_telinit(s, req, "dsme", e), s)
    BY <1>3, <2>4, CleanRequests
  <2> QED
    BY <1>6, <1>12, <2>1, <2>3, <2>5
<1>13. ASSUME NEW v \in BOOLEAN, BlockShutdown(v, "dsme", e),
              m.type \in {"BLOCK_SHUTDOWN", "ALLOW_SHUTDOWN"}
       PROVE  PInv'
  <2>1. Inv'
    BY <1>4, <1>13, ReportOK DEF StepOK
  <2>2. Handle(update_shutdown_blocked(s, v, e)) \/ Handle(s)
    BY <1>13 DEF BlockShutdown
  <2> HIDE DEF s
  <2>3. Clean(update_shutdown_blocked(s, v, e), s)
    BY <1>3, CleanRequests
  <2> QED
    BY <1>3, <1>6, <1>13, <2>1, <2>2, <2>3
<1> QED
  BY <1>1, <1>7, <1>8, <1>9, <1>10, <1>11, <1>12, <1>13 DEF StateHandler

\* What leaves the statics of state.c alone keeps its invariant.
LEMMA IdleKeepsInv ==
  ASSUME Inv, main_loop' \in LoopState, sent' = << >>,
         UNCHANGED <<bits, charger_state, dsme_battery_level, current_state, timers,
                     init_told, plugin>>
  PROVE  Inv' /\ CallFlag' = CallFlag
<1>1. << >> \in Seq(Message)
  OBVIOUS
<1> QED
  BY <1>1 DEF Inv, TypeOK, RunlevelTimerMatchesState, EmergencyHoldsRunlevel,
       InitToldDown, is_on, CallFlag

\* An expired timer: three callbacks order init, the others are clean.
LEMMA DispatchTimerOK ==
  ASSUME PInv, NEW t \in Timer, NEW e \in Env, DispatchTimer(t, e)
  PROVE  PInv'
<1> DEFINE s == Now
<1>1. /\ t \in timers /\ Handle(timer_callback(s, t, e)) /\ queue' = queue \o sent'
      /\ UNCHANGED <<emergency_call_started, dsme_state, saved, forced, ordered>>
  BY DEF DispatchTimer, TimerFires, others
<1>2. /\ Clean(s, s) /\ s.state = current_state /\ Good(s)
      /\ CallFlag \in BOOLEAN /\ (InCall(s) <=> CallFlag = TRUE)
  BY NowClean
<1>3. QueueOK(queue, current_state, CallFlag, Told)
  BY PInvIs DEF ListenersOK
<1>4. t \in s.timers /\ Inv
  BY <1>1 DEF Now, PInv
<1>5. Inv'
  BY <1>1, <1>2, <1>4, TimerCallbackSound, HandleOK DEF StepOK
<1>6. s.sent = << >> /\ s.bits = bits /\ s.timers = timers
  BY DEF Now
<1>7. "delayed_shutdown" \in timers => current_state \in Down
  BY <1>4 DEF Inv, RunlevelTimerMatchesState
<1> HIDE DEF s
<1>8. ASSUME t \in {"overheat", "battery_empty", "charger_disconnect"}
      PROVE  PInv'
  <2> DEFINE r == timer_callback(s, t, e)
  <2>1. Clean(r, s)
    BY <1>2, <1>8, CleanDelayed DEF timer_callback
  <2>2. Commit(r)
    BY <1>1 DEF Handle
  <2> HIDE DEF r
  <2> QED
    BY <1>1, <1>2, <1>3, <1>5, <2>1, <2>2, CleanStep
<1>9. ASSUME NEW m \in Message, NEW ts, m.type \in {"SHUTDOWN", "CHANGE_RUNLEVEL"},
             m.type = "SHUTDOWN" => current_state \in Down,
             m.type = "CHANGE_RUNLEVEL" => m.arg \notin Down,
             timer_callback(s, t, e) = stop_timers(broadcast(s, m.type, m.arg), ts)
      PROVE  PInv'
  <2> DEFINE r == stop_timers(broadcast(s, m.type, m.arg), ts)
  <2>1. s \in Statics /\ m = Msg(m.type, m.arg)
    BY <1>2 DEF Good, Message, Msg
  <2>2. r.sent = Append(s.sent, m) /\ r.state = s.state /\ r.bits = s.bits
    BY <2>1 DEF stop_timers, broadcast, Statics
  <2>3. Commit(r)
    BY <1>1, <1>9 DEF Handle
  <2> HIDE DEF r
  <2>4. sent' = <<m>> /\ current_state' = current_state /\ bits' = bits
    BY <1>2, <1>6, <2>2, <2>3 DEF Commit
  <2>5. queue \in Seq(QMessage) /\ m \in QMessage
    BY <1>3, <1>9 DEF QueueOK, QMessage
  <2>6. queue' = Append(queue, m)
    BY <1>1, <2>4, <2>5, AppendIsConcat
  <2>7. QueueOK(Append(queue, m), current_state, CallFlag, Told)
    <3> DEFINE told == Told
    <3>1. told = [state |-> told.state, call |-> told.call,
                  saved |-> told.saved, forced |-> told.forced]
      BY DEF Told
    <3> HIDE DEF told
    <3>2. QueueOK(Append(queue, m), current_state, CallFlag,
                  [state |-> told.state, call |-> told.call,
                   saved |-> told.saved, forced |-> told.forced])
      BY <1>3, <1>9, <2>5, QueueOne DEF told
    <3> QED
      BY <3>1, <3>2 DEF told
  <2>8. CallFlag' = CallFlag
    BY <2>4 DEF CallFlag, is_on
  <2> QED
    BY <1>1, <1>5, <2>4, <2>6, <2>7, <2>8, TellListeners
<1>10. CASE t = "delayed_shutdown"
  <2>1. current_state \in Down
    BY <1>1, <1>7, <1>10
  <2> DEFINE m == Msg("SHUTDOWN", current_state)
  <2>2. m \in Message /\ m.type = "SHUTDOWN" /\ m.arg = current_state
    BY <2>1 DEF Msg, Message, MsgType, Down, DeviceState
  <2>3. timer_callback(s, t, e) = stop_timers(broadcast(s, m.type, m.arg), {"delayed_shutdown"})
    BY <1>2, <1>10, <2>1 DEF timer_callback, delayed_shutdown_fn, state2runlevel, Msg, Down
  <2> HIDE DEF m
  <2> QED
    BY <1>9, <2>1, <2>2, <2>3
<1>11. CASE t = "delayed_actdead"
  <2> DEFINE m == Msg("CHANGE_RUNLEVEL", "ACTDEAD")
  <2>1. m \in Message /\ m.type = "CHANGE_RUNLEVEL" /\ m.arg \notin Down
    BY DEF Msg, Message, MsgType, Down, DeviceState
  <2>2. timer_callback(s, t, e) = stop_timers(broadcast(s, m.type, m.arg), {"delayed_actdead"})
    BY <1>11 DEF timer_callback, delayed_actdead_fn, Msg
  <2> HIDE DEF m
  <2> QED
    BY <1>9, <2>1, <2>2
<1>12. CASE t = "delayed_user"
  <2> DEFINE m == Msg("CHANGE_RUNLEVEL", "USER")
  <2>1. m \in Message /\ m.type = "CHANGE_RUNLEVEL" /\ m.arg \notin Down
    BY DEF Msg, Message, MsgType, Down, DeviceState
  <2>2. timer_callback(s, t, e) = stop_timers(broadcast(s, m.type, m.arg), {"delayed_user"})
    BY <1>12 DEF timer_callback, delayed_user_fn, Msg
  <2> HIDE DEF m
  <2> QED
    BY <1>9, <2>1, <2>2
<1> QED
  BY <1>8, <1>10, <1>11, <1>12 DEF Timer, RunlevelTimer

\* Queueing a report; the tracker of emergency calls remembers its own.
LEMMA ReportQueuedOK ==
  ASSUME PInv, NEW m \in Incoming \cup LevelReport, NEW call \in BOOLEAN, queue_message(m),
         emergency_call_started' = call,
         IF m.type = "SET_EMERGENCY_CALL_STATE" THEN call = m.arg
         ELSE call = emergency_call_started,
         UNCHANGED <<dsme_state, saved, forced, ordered>>
  PROVE  PInv'
<1>1. Inv /\ ListenersOK /\ QueueOK(queue, current_state, CallFlag, Told)
  BY PInvIs DEF ListenersOK
<1>2. /\ queue' = Append(queue, m) /\ sent' = << >>
      /\ UNCHANGED <<bits, charger_state, dsme_battery_level, current_state, timers,
                     init_told, main_loop, plugin>>
  BY DEF queue_message
<1>3. main_loop' \in LoopState
  BY <1>1, <1>2 DEF Inv, TypeOK
<1>4. Inv' /\ CallFlag' = CallFlag /\ current_state' = current_state
  BY <1>1, <1>2, <1>3, IdleKeepsInv
<1>5. m \in QMessage /\ m.type \notin {"STATE_CHANGE_IND", "SHUTDOWN", "CHANGE_RUNLEVEL"}
  BY DEF QMessage, Incoming, LevelReport
<1>6. /\ Told.state = dsme_state /\ Told.call = emergency_call_started
      /\ Told.saved = saved /\ Told.forced = forced
  BY DEF Told
<1>7. QueueOK(Append(queue, m), current_state, CallFlag,
              [state |-> Told.state, call |-> call,
               saved |-> Told.saved, forced |-> Told.forced])
  <2>1. m.type = "SET_EMERGENCY_CALL_STATE" => call = m.arg
    OBVIOUS
  <2>2. m.type # "SET_EMERGENCY_CALL_STATE" => call = Told.call
    BY <1>6
  <2> QED
    BY <1>1, <1>5, <2>1, <2>2, QueueOne
<1>8. Told' = [state |-> Told.state, call |-> call,
               saved |-> Told.saved, forced |-> Told.forced]
  BY <1>6 DEF Told
<1>9. QueueOK(queue', current_state', CallFlag', Told')
  BY <1>2, <1>4, <1>7, <1>8
<1>10. ListenersOK'
  BY <1>1, <1>9 DEF ListenersOK
<1> QED
  BY <1>4, <1>10, PInvNextIs

\* The other plugins: each hears what it has to before init is ordered.
LEMMA HandleElsewhereOK ==
  ASSUME PInv,
         \/ STATE_CHANGE_IND \/ SAVE_DATA_IND \/ CHANGE_RUNLEVEL \/ Signal
         \/ \E fails : shutdown(fails)
         \/ \E outcome : enter_malf_program(outcome)
  PROVE  PInv'
<1> DEFINE m == Head(queue)
           q == Tail(queue)
<1>1. Inv /\ ListenersOK /\ QueueOK(queue, current_state, CallFlag, Told)
  BY PInvIs DEF ListenersOK
<1>2. main_loop \in LoopState /\ "STOPPED" \in LoopState
  BY <1>1 DEF Inv, TypeOK, LoopState
<1>3. ASSUME NEW type, NEW ms, HandleElsewhere(type, ms)
      PROVE  /\ queue # << >> /\ m.type = type /\ queue' = q \o ms /\ sent' = << >>
             /\ UNCHANGED <<bits, charger_state, dsme_battery_level, current_state,
                            timers, init_told, plugin, emergency_call_started>>
  BY <1>3 DEF HandleElsewhere
<1>4. ASSUME queue # << >>
      PROVE  /\ m \in QMessage /\ q \in Seq(QMessage) /\ q \o << >> = q
             /\ m.type \notin {"STATE_CHANGE_IND", "SAVE_DATA_IND", "SET_EMERGENCY_CALL_STATE"}
                  => QueueOK(q, current_state, CallFlag, Told)
             /\ m.type = "STATE_CHANGE_IND"
                  => QueueOK(q, current_state, CallFlag, [Told EXCEPT !.state = m.arg])
             /\ m.type = "SAVE_DATA_IND"
                  => QueueOK(q, current_state, CallFlag,
                      [state |-> Told.state, call |-> Told.call,
                       saved |-> TRUE, forced |-> Told.forced])
             /\ m.type = "SHUTDOWN" => saved = TRUE \/ forced = TRUE
             /\ m.type = "CHANGE_RUNLEVEL" => m.arg \notin Down
  <2>1. queue \in Seq(QMessage)
    BY <1>1 DEF QueueOK
  <2>2. q \in Seq(QMessage)
    BY <1>4, <2>1, TailIs
  <2>3. q \o << >> = q
    BY <2>2
  <2> QED
    BY <1>4, <2>2, <2>3, HeadGone
<1> HIDE DEF m, q
<1>5. CASE STATE_CHANGE_IND
  <2>1. /\ HandleElsewhere("STATE_CHANGE_IND", << >>) /\ dsme_state' = m.arg
        /\ UNCHANGED <<main_loop, saved, forced, ordered>>
    BY <1>5 DEF STATE_CHANGE_IND, m
  <2>2. /\ queue # << >> /\ m.type = "STATE_CHANGE_IND" /\ queue' = q /\ sent' = << >>
        /\ UNCHANGED <<bits, charger_state, dsme_battery_level, current_state,
                       timers, init_told, plugin, emergency_call_started>>
    BY <1>3, <1>4, <2>1
  <2>3. Inv' /\ CallFlag' = CallFlag
    BY <1>1, <1>2, <2>1, <2>2, IdleKeepsInv
  <2>4. m.arg \in DeviceState
    BY <1>4, <2>2 DEF QMessage, Message, Incoming, LevelReport
  <2>5. Told' = [Told EXCEPT !.state = m.arg]
    BY <2>1, <2>2 DEF Told
  <2>6. QueueOK(queue', current_state', CallFlag', Told')
    BY <1>4, <2>2, <2>3, <2>5
  <2>7. ListenersOK'
    BY <1>1, <2>1, <2>2, <2>4, <2>6 DEF ListenersOK
  <2> QED
    BY <2>3, <2>7, PInvNextIs
<1>6. CASE SAVE_DATA_IND
  <2>1. /\ HandleElsewhere("SAVE_DATA_IND", << >>) /\ saved' = TRUE
        /\ UNCHANGED <<main_loop, dsme_state, forced, ordered>>
    BY <1>6 DEF SAVE_DATA_IND
  <2>2. /\ queue # << >> /\ m.type = "SAVE_DATA_IND" /\ queue' = q /\ sent' = << >>
        /\ UNCHANGED <<bits, charger_state, dsme_battery_level, current_state,
                       timers, init_told, plugin, emergency_call_started>>
    BY <1>3, <1>4, <2>1
  <2>3. Inv' /\ CallFlag' = CallFlag
    BY <1>1, <1>2, <2>1, <2>2, IdleKeepsInv
  <2>4. Told' = [state |-> Told.state, call |-> Told.call,
               saved |-> TRUE, forced |-> Told.forced]
    <3>1. /\ dsme_state' = dsme_state /\ emergency_call_started' = emergency_call_started
          /\ saved' = TRUE /\ forced' = forced
      BY <2>1, <2>2
    <3>2. /\ Told.state = dsme_state /\ Told.call = emergency_call_started
          /\ Told.forced = forced
      BY DEF Told
    <3>3. Told' = [state |-> dsme_state, call |-> emergency_call_started,
                   saved |-> TRUE, forced |-> forced]
      BY <3>1, Zenon DEF Told
    <3> QED
      BY <3>2, <3>3
  <2>5. QueueOK(queue', current_state', CallFlag', Told')
    BY <1>4, <2>2, <2>3, <2>4
  <2>6. ListenersOK'
    BY <1>1, <2>1, <2>2, <2>5 DEF ListenersOK
  <2> QED
    BY <2>3, <2>6, PInvNextIs
<1>7. ASSUME NEW type, HandleElsewhere(type, << >>), main_loop' \in LoopState,
             type \in {"SHUTDOWN", "CHANGE_RUNLEVEL", "STATE_REQ_DENIED_IND",
                       "BATTERY_EMPTY_IND", "ENTER_MALF"},
             UNCHANGED <<dsme_state, saved>>, forced' = forced,
             ordered' \cap Down # {} =>
               ordered \cap Down # {} \/ m.type = "SHUTDOWN"
      PROVE  PInv'
  <2>1. /\ queue # << >> /\ m.type = type /\ queue' = q /\ sent' = << >>
        /\ UNCHANGED <<bits, charger_state, dsme_battery_level, current_state,
                       timers, init_told, plugin, emergency_call_started>>
    BY <1>3, <1>4, <1>7
  <2>2. Inv' /\ CallFlag' = CallFlag
    BY <1>1, <1>7, <2>1, IdleKeepsInv
  <2>3. Told' = Told
    BY <1>7, <2>1 DEF Told
  <2>4. QueueOK(q, current_state, CallFlag, Told)
    BY <1>4, <1>7, <2>1
  <2>5. QueueOK(queue', current_state', CallFlag', Told')
    BY <2>1, <2>2, <2>3, <2>4
  <2>6. ordered' \cap Down # {} => saved = TRUE \/ forced = TRUE
    BY <1>1, <1>4, <1>7, <2>1 DEF ListenersOK
  <2>7. ListenersOK'
    BY <1>1, <1>7, <2>1, <2>5, <2>6 DEF ListenersOK
  <2> QED
    BY <2>2, <2>7, PInvNextIs
<1>8. CASE \E fails : shutdown(fails)
  <2>1. /\ HandleElsewhere("SHUTDOWN", << >>) /\ main_loop' \in LoopState
        /\ UNCHANGED <<dsme_state, saved, forced>>
    BY <1>2, <1>8 DEF shutdown
  <2>2. m.type = "SHUTDOWN"
    BY <1>3, <2>1
  <2> QED
    BY <1>7, <2>1, <2>2
<1>9. CASE CHANGE_RUNLEVEL
  <2>1. /\ HandleElsewhere("CHANGE_RUNLEVEL", << >>)
        /\ ordered' = ordered \cup {m.arg}
        /\ UNCHANGED <<main_loop, dsme_state, saved, forced>>
    BY <1>9 DEF CHANGE_RUNLEVEL, m
  <2>2. m.arg \notin Down
    BY <1>3, <1>4, <2>1
  <2>3. ordered' \cap Down # {} => ordered \cap Down # {}
    BY <2>1, <2>2
  <2> QED
    BY <1>2, <1>7, <2>1, <2>3
<1>10. CASE Signal
  <2>1. PICK type \in {"STATE_REQ_DENIED_IND", "BATTERY_EMPTY_IND"} :
          HandleElsewhere(type, << >>)
    BY <1>10 DEF Signal
  <2>2. UNCHANGED <<main_loop, dsme_state, saved, forced, ordered>>
    BY <1>10 DEF Signal
  <2> QED
    BY <1>2, <1>7, <2>1, <2>2
<1>11. CASE \E outcome : enter_malf_program(outcome)
  <2>1. PICK outcome : enter_malf_program(outcome)
    BY <1>11
  <2>2. main_loop' \in LoopState /\ UNCHANGED <<dsme_state, saved, ordered>>
    BY <1>2, <2>1 DEF enter_malf_program, enter_malf_tells
  <2>3. CASE outcome = "entered"
    <3>1. HandleElsewhere("ENTER_MALF", << >>) /\ forced' = (forced \/ FALSE)
      BY <2>1, <2>3 DEF enter_malf_program, enter_malf_tells
    <3>2. forced' = forced
      BY <1>1, <3>1 DEF ListenersOK
    <3> QED
      BY <1>7, <2>2, <3>1, <3>2
  <2>4. CASE outcome # "entered"
    <3> DEFINE n == Msg("SHUTDOWN", "SHUTDOWN")
    <3>1. HandleElsewhere("ENTER_MALF", <<n>>) /\ forced' = TRUE
      BY <2>1, <2>4 DEF enter_malf_program, enter_malf_tells
    <3>2. n \in QMessage /\ n.type = "SHUTDOWN"
      BY DEF QMessage, Message, MsgType, Msg, DeviceState
    <3> HIDE DEF n
    <3>3. /\ queue # << >> /\ m.type = "ENTER_MALF" /\ queue' = q \o <<n>> /\ sent' = << >>
          /\ UNCHANGED <<bits, charger_state, dsme_battery_level, current_state,
                         timers, init_told, plugin, emergency_call_started>>
      BY <1>3, <3>1
    <3>4. q \in Seq(QMessage) /\ QueueOK(q, current_state, CallFlag, Told)
      BY <1>4, <3>3
    <3>5. queue' = Append(q, n)
      BY <3>2, <3>3, <3>4, AppendIsConcat
    <3>6. Inv' /\ CallFlag' = CallFlag /\ current_state' = current_state
      BY <1>1, <2>2, <3>3, IdleKeepsInv
    <3>7. /\ Told'.state = Told.state /\ Told'.call = Told.call
          /\ Told'.saved = Told.saved /\ Told'.forced = TRUE
          /\ Told' = [state |-> Told'.state, call |-> Told'.call,
                      saved |-> Told'.saved, forced |-> Told'.forced]
      BY <2>2, <3>1, <3>3 DEF Told
    <3> DEFINE told == Told'
    <3>8. QueueOK(q, current_state, CallFlag, told)
      BY <3>4, <3>7 DEF QueueOK, Orders
    <3>9. /\ told.forced = TRUE
          /\ told = [state |-> told.state, call |-> told.call,
                     saved |-> told.saved, forced |-> told.forced]
      BY <3>7
    <3> HIDE DEF told
    <3>10. QueueOK(Append(q, n), current_state, CallFlag,
                   [state |-> told.state, call |-> told.call,
                    saved |-> told.saved, forced |-> told.forced])
      BY <3>2, <3>8, <3>9, QueueOne
    <3>11. QueueOK(Append(q, n), current_state, CallFlag, told)
      BY <3>9, <3>10
    <3>12. QueueOK(queue', current_state', CallFlag', Told')
      BY <3>5, <3>6, <3>11 DEF told
    <3>13. ListenersOK'
      BY <1>1, <2>2, <3>1, <3>3, <3>12 DEF ListenersOK
    <3> QED
      BY <3>6, <3>13, PInvNextIs
  <2> QED
    BY <2>3, <2>4
<1> QED
  BY <1>5, <1>6, <1>8, <1>9, <1>10, <1>11

\* Loading the plugin, starting and ending the main loop.
LEMMA StartStopOK ==
  ASSUME PInv, Start \/ Stop
  PROVE  PInv'
<1> DEFINE s == Now
<1>1. /\ Clean(s, s) /\ s.state = current_state /\ Good(s)
      /\ CallFlag \in BOOLEAN /\ (InCall(s) <=> CallFlag = TRUE)
  BY NowClean
<1>2. Inv /\ QueueOK(queue, current_state, CallFlag, Told)
  BY PInvIs DEF ListenersOK
<1>3. ASSUME NEW r, Commit(r), Clean(r, s), Inv', queue' = queue \o sent',
             UNCHANGED <<emergency_call_started, dsme_state, saved, forced, ordered>>
      PROVE  PInv'
  <2> HIDE DEF s
  <2> QED
    BY <1>1, <1>2, <1>3, CleanStep
<1>4. ASSUME NEW bootstate \in BootStates, NEW e \in Env, module_init(bootstate, e),
             queue' = queue \o sent',
             UNCHANGED <<emergency_call_started, dsme_state, saved, forced, ordered>>
      PROVE  PInv'
  <2> DEFINE q == set_initial_state_bits(s, bootstate)
             w == enter_malf(q, bootstate)
             c == set_charger_state(s, "DISCONNECTED")
  <2>1. Commit(change_state_if_necessary(w, e))
    BY <1>4 DEF module_init
  <2>2. Inv'
    BY <1>2, <1>4, ModuleInitOK DEF StepOK
  <2>3. \/ q = set_bit(c, "shutdown_requested", TRUE)
        \/ q = set_bit(s, "shutdown_requested", TRUE)
        \/ q = set_bit(s, "reboot_requested", TRUE)
        \/ q = set_bit(s, "testmode_requested", TRUE)
        \/ q = s
    BY DEF set_initial_state_bits
  <2>4. w = broadcast(q, "ENTER_MALF", "NOT_SET") \/ w = q
    BY DEF enter_malf
  <2> HIDE DEF s
  <2>5. Clean(c, s)
    BY <1>1, CleanQuiet DEF ChargerState
  <2> HIDE DEF c, q, w
  <2>6. {"shutdown_requested", "reboot_requested", "testmode_requested"}
          \subseteq Bit \ {"emergency_call_ongoing"}
    BY DEF Bit
  <2>7. Clean(q, s)
    BY <1>1, <2>3, <2>5, <2>6, CleanQuiet
  <2>8. Clean(w, s)
    BY <2>4, <2>7, CleanBroadcast DEF DeviceState
  <2>9. Clean(change_state_if_necessary(w, e), s)
    BY <2>8, CleanReselect
  <2> QED
    BY <1>3, <1>4, <2>1, <2>2, <2>9
<1>5. CASE dsme_main_loop_run /\ UNCHANGED <<queue, others>>
  <2> DEFINE r == [s EXCEPT !.loop = "RUNNING"]
  <2>1. Commit(r)
    BY <1>5 DEF dsme_main_loop_run
  <2>2. Inv'
    BY <1>2, <1>5, LoopOK DEF StepOK
  <2>3. sent' = << >> /\ queue' = queue /\ queue \in Seq(QMessage)
    BY <1>2, <1>5, <2>1 DEF Commit, Now, QueueOK
  <2>4. queue' = queue \o sent'
    BY <2>3
  <2>5. r \in Statics /\ r.sent = s.sent /\ r.state = s.state /\ r.bits = s.bits
    <3> HIDE DEF s
    <3> QED
      BY <1>1 DEF Good, Statics, LoopState
  <2> HIDE DEF r, s
  <2>6. Clean(r, s)
    BY <1>1, <2>5, CleanSame DEF InCall
  <2> QED
    BY <1>3, <1>5, <2>1, <2>2, <2>4, <2>6 DEF others
<1>6. CASE Stop
  <2> DEFINE q == stop_delayed_runlevel_timers(s)
             w == stop_charger_disconnect_timer(q)
             r == stop_timers(w, {"overheat", "battery_empty"})
  <2>1. Commit(r) /\ queue = << >> /\ queue' = sent' /\ UNCHANGED others
    BY <1>6 DEF Stop, module_fini
  <2>2. Inv'
    BY <1>2, <1>6, LoopOK DEF StepOK, Stop
  <2> HIDE DEF s
  <2>3. Clean(q, s)
    BY <1>1, CleanQuiet DEF stop_delayed_runlevel_timers
  <2> HIDE DEF q
  <2>4. Clean(w, s)
    BY <2>3, CleanDelayed
  <2> HIDE DEF w
  <2>5. Clean(r, s)
    BY <2>4, CleanQuiet
  <2> HIDE DEF r
  <2>6. sent' \in Seq(Message)
    BY <2>2 DEF Inv, TypeOK
  <2>7. queue' = queue \o sent'
    BY <2>1, <2>6
  <2> QED
    BY <1>3, <2>1, <2>2, <2>5, <2>7 DEF others
<1> QED
  BY <1>4, <1>5, <1>6 DEF Start

\* Every step keeps the invariant.
LEMMA PNextOK ==
  ASSUME PInv, [PNext]_all
  PROVE  PInv'
<1>1. CASE Start \/ Stop
  BY <1>1, StartStopOK
<1>2. CASE HandleMessage
  BY <1>2, HandleByStateOK, HandleElsewhereOK DEF HandleMessage
<1>3. CASE Dispatch
  <2>1. CASE \E t \in Timer, e \in Env : DispatchTimer(t, e)
    BY <2>1, DispatchTimerOK
  <2>2. ASSUME NEW emergency \in BOOLEAN, mce_call_state_ind(emergency)
        PROVE  PInv'
    <3> DEFINE m == Msg("SET_EMERGENCY_CALL_STATE", emergency)
    <3>1. m \in Incoming \cup LevelReport /\ m.type = "SET_EMERGENCY_CALL_STATE"
          /\ m.arg = emergency
      BY DEF Incoming, Msg
    <3>2. /\ queue_message(m) /\ emergency_call_started' = emergency
          /\ UNCHANGED <<dsme_state, saved, forced, ordered>>
      BY <2>2 DEF mce_call_state_ind
    <3> HIDE DEF m
    <3> QED
      BY <3>1, <3>2, ReportQueuedOK
  <2>3. ASSUME NEW m \in Incoming \cup LevelReport, Report2State(m)
        PROVE  PInv'
    <3>1. /\ m.type # "SET_EMERGENCY_CALL_STATE" /\ queue_message(m)
          /\ emergency_call_started' = emergency_call_started
          /\ UNCHANGED <<dsme_state, saved, forced, ordered>>
      BY <2>3 DEF Report2State, others
    <3>2. emergency_call_started \in BOOLEAN
      BY DEF PInv, PTypes
    <3> QED
      BY <3>1, <3>2, ReportQueuedOK
  <2> QED
    BY <1>3, <2>1, <2>2, <2>3 DEF Dispatch
<1>4. CASE NextIteration \/ QueueEmpty \/ UNCHANGED all
  <2>1. /\ UNCHANGED <<bits, charger_state, dsme_battery_level, current_state, timers,
                       init_told, main_loop, plugin, queue, emergency_call_started,
                       dsme_state, saved, forced, ordered>>
        /\ sent' = << >> \/ sent' = sent
    BY <1>4 DEF NextIteration, QueueEmpty, all, others, vars
  <2>2. Inv /\ QueueOK(queue, current_state, CallFlag, Told)
    BY PInvIs DEF ListenersOK
  <2>3. Inv' /\ CallFlag' = CallFlag
    <3>1. << >> \in Seq(Message)
      OBVIOUS
    <3> QED
      BY <2>1, <2>2, <3>1 DEF Inv, TypeOK, RunlevelTimerMatchesState,
           EmergencyHoldsRunlevel, InitToldDown, is_on, CallFlag
  <2> QED
    BY <2>1, <2>2, <2>3, TellListeners
<1> QED
  BY <1>1, <1>2, <1>3, <1>4 DEF PNext

\* The three invariants follow.
LEMMA PInvImplies == PInv => ProxyCatchesUp /\ TrackerCatchesUp /\ SaveBeforeDown
<1> SUFFICES ASSUME PInv PROVE ProxyCatchesUp /\ TrackerCatchesUp /\ SaveBeforeDown
  OBVIOUS
<1>1. ProxyCatchesUp
  BY LandsIsLast DEF PInv, PTypes, ProxyForm, ProxyCatchesUp
<1>2. TrackerCatchesUp
  <2>1. (IF Queued("SET_EMERGENCY_CALL_STATE") = {} THEN CallFlag
         ELSE LastOf("SET_EMERGENCY_CALL_STATE").arg) = emergency_call_started
    BY LandsIsLast DEF PInv, PTypes, TrackerForm
  <2>2. emergency_call_started = TRUE \/ emergency_call_started = FALSE
    BY DEF PInv, PTypes
  <2>3. CASE Queued("SET_EMERGENCY_CALL_STATE") # {}
    BY <2>1, <2>3 DEF TrackerCatchesUp
  <2>4. CASE Queued("SET_EMERGENCY_CALL_STATE") = {}
    <3>1. CallFlag = emergency_call_started
      BY <2>1, <2>4
    <3>2. CASE emergency_call_started = TRUE
      <4>1. "emergency_call_ongoing" \in bits
        BY <3>1, <3>2 DEF CallFlag, is_on
      <4>2. ("emergency_call_ongoing" \in bits) = TRUE
        BY <4>1, Zenon
      <4> QED
        BY <4>2, <3>2, <2>4, Zenon DEF TrackerCatchesUp
    <3>3. CASE emergency_call_started = FALSE
      <4>1. "emergency_call_ongoing" \notin bits
        BY <3>1, <3>3 DEF CallFlag, is_on
      <4>2. ("emergency_call_ongoing" \in bits) = FALSE
        BY <4>1, SMT
      <4> QED
        BY <4>2, <3>3, <2>4, Zenon DEF TrackerCatchesUp
    <3> QED
      BY <2>2, <3>2, <3>3
  <2> QED
    BY <2>3, <2>4
<1>3. SaveBeforeDown
  BY DEF PInv, SaveForm, SaveBeforeDown
<1> QED
  BY <1>1, <1>2, <1>3
-----------------------------------------------------------------------------
(***************************************************************************)
(* The inductive invariant of the composition.                             *)
(***************************************************************************)
THEOREM PowerSafety == PSpec => []PInv
<1>1. PInit => PInv
  <2> SUFFICES ASSUME PInit PROVE PInv
    OBVIOUS
  <2>1. << >> \in Seq(Message) /\ << >> \in Seq(QMessage)
    OBVIOUS
  <2>2. Inv
    BY <2>1 DEF PInit, Init, Inv, TypeOK, RunlevelTimerMatchesState,
         EmergencyHoldsRunlevel, InitToldDown, ChargerState, DeviceState, is_on, LoopState
  <2>3. CallFlag = FALSE
    BY DEF PInit, Init, CallFlag, is_on
  <2>4. ProxyForm /\ TrackerForm
    <3>1. \A type, d : Lands(<< >>, type, d, d)
      BY DEF Lands
    <3>2. Lands(queue, "STATE_CHANGE_IND", dsme_state, dsme_state) /\ dsme_state = current_state
      BY <3>1 DEF PInit, Init
    <3>3. /\ Lands(queue, "SET_EMERGENCY_CALL_STATE", CallFlag, CallFlag)
          /\ emergency_call_started = FALSE
      BY <3>1 DEF PInit
    <3> QED
      BY <2>3, <3>2, <3>3 DEF ProxyForm, TrackerForm
  <2>5. SaveForm
    BY DEF PInit, Init, SaveForm, Orders, Down
  <2>6. PTypes
    BY <2>1 DEF PInit, PTypes, DeviceState
  <2> QED
    BY <2>2, <2>4, <2>5, <2>6 DEF PInv
<1>2. PInv /\ [PNext]_all => PInv'
  BY PNextOK
<1> QED
  BY <1>1, <1>2, PTL DEF PSpec

(***************************************************************************)
(* dbusproxy.c, which asks for the state once and then only listens to     *)
(* STATE_CHANGE_IND, ends up with the state of state.c when the queue has  *)
(* been handled: no change is announced late, twice or not at all.         *)
(***************************************************************************)
THEOREM ProxyInStep == PSpec => []ProxyCatchesUp
BY PowerSafety, PInvImplies, PTL

(***************************************************************************)
(* emergencycalltracker.c and state.c agree on the emergency call once the *)
(* reports under way are handled.                                          *)
(***************************************************************************)
THEOREM TrackerInStep == PSpec => []TrackerCatchesUp
BY PowerSafety, PInvImplies, PTL

(***************************************************************************)
(* runlevel.c never orders init to go down before dbusproxy.c signalled    *)
(* save_unsaved_data, except when malf.c forces the shutdown.              *)
(***************************************************************************)
THEOREM DataSavedFirst == PSpec => []SaveBeforeDown
BY PowerSafety, PInvImplies, PTL
=============================================================================
