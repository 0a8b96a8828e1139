--------------------------- MODULE WatchdogProofs ---------------------------
(***************************************************************************)
(* Proofs about the two watchdogs, which share no state.  For any periods  *)
(* that satisfy WddAssumption dsme-wdd (Spec) kicks in time, disarms the   *)
(* hardware only when dsme-server is gone and gives it up only when it was *)
(* silent; for any processes, limits and failures the process watchdog     *)
(* (PSpec) aborts only the unresponsive, and lets nobody it aborted get    *)
(* away.                                                                   *)
(***************************************************************************)
EXTENDS Wdd, ProcessWd, TLAPS

\* A signal is absorbed: it either changes nothing here or comes with a kick.
LEMMA InterruptKeepsBudget ==
  ASSUME KickBudget, NEW stop \in BOOLEAN, Interrupt(stop), UNCHANGED <<armed, reset>>
  PROVE  KickBudget'
<1>1. CASE pc = "sleep"
  <2>1. /\ since_kick' = 0
        /\ \/ pc' = "sleep" /\ remaining' = remaining
           \/ pc' = "term" /\ remaining' = TermWait
    BY <1>1 DEF Interrupt, done_running, dsme_wd_kick, KickBudget
  <2> QED
    BY <1>1, <2>1, WddAssumption DEF KickBudget
<1>2. CASE pc # "sleep"
  BY <1>2 DEF Interrupt, KickBudget
<1> QED
  BY <1>1, <1>2

\* The steps of dsme-wdd itself.
LEMMA DaemonKeepsBudget ==
  ASSUME KickBudget, Daemon
  PROVE  KickBudget'
<1>1. CASE TestRun
  <2>1. /\ since_kick' = 0 /\ UNCHANGED <<armed, reset>>
        /\ \/ pc' = "presleep" /\ remaining' = remaining
           \/ pc' = "term" /\ remaining' = TermWait
    BY <1>1 DEF TestRun, done_running, dsme_wd_kick, KickBudget
  <2> QED
    BY <1>1, <2>1, WddAssumption DEF TestRun, KickBudget
<1>2. CASE nanosleep
  BY <1>2, WddAssumption DEF nanosleep, KickBudget
<1>3. CASE WakeUp
  <2>1. /\ since_kick' = 0 /\ UNCHANGED <<armed, reset>>
        /\ \/ pc' = "loop" /\ remaining' = remaining
           \/ pc' = "term" /\ remaining' = TermWait
    BY <1>3 DEF WakeUp, done_running, dsme_wd_kick, KickBudget
  <2> QED
    BY <1>3, <2>1, WddAssumption DEF WakeUp, KickBudget
<1>4. CASE ChildReaped
  BY <1>4 DEF ChildReaped, KickBudget
<1>5. CASE TermTimeout
  BY <1>5, WddAssumption DEF TermTimeout, KickBudget
<1>6. CASE KillTimeout
  BY <1>6 DEF KillTimeout, dsme_wd_kick, KickBudget
<1> QED
  BY <1>1, <1>2, <1>3, <1>4, <1>5, <1>6 DEF Daemon

\* A second uses up the budget, and never all of it before dsme-wdd wakes up.
LEMMA TickKeepsBudget ==
  ASSUME KickBudget, Tick
  PROVE  KickBudget'
<1>1. reset' \in BOOLEAN
  BY DEF Tick
<1>2. CASE pc = "exited"
  BY <1>1, <1>2 DEF Tick, KickBudget
<1>3. CASE pc # "exited"
  <2>1. /\ pc \in {"sleep", "term", "kill"}
        /\ remaining > 0
        /\ remaining' = remaining - 1
        /\ since_kick' = since_kick + 1
        /\ UNCHANGED <<pc, armed>>
    BY <1>3 DEF Tick, KickBudget
  <2>2. since_kick + 1 < Period
    BY <1>3, <2>1, WddAssumption DEF KickBudget
  <2>3. ~reset'
    <3>1. Period \in Nat /\ since_kick \in Nat
      BY WddAssumption DEF KickBudget
    <3>2. ~(since_kick + 1 >= Period)
      BY <2>2, <3>1
    <3> QED
      BY <3>2, Zenon DEF Tick
  <2> QED
    BY <1>1, <1>3, <2>1, <2>3 DEF KickBudget
<1> QED
  BY <1>2, <1>3

\* Every step keeps to the budget.
LEMMA NextKeepsBudget ==
  ASSUME KickBudget, [Next]_vars
  PROVE  KickBudget'
<1>1. CASE main
  BY <1>1 DEF main, KickBudget
<1>2. CASE Daemon
  BY <1>2, DaemonKeepsBudget
<1>3. ASSUME NEW stop \in BOOLEAN, ReceiveSignal(stop)
      PROVE  KickBudget'
  BY <1>3, InterruptKeepsBudget DEF ReceiveSignal
<1>4. CASE handle_terminating_signal
  BY <1>4 DEF handle_terminating_signal, KickBudget
<1>5. CASE ServerExits
  BY <1>5, InterruptKeepsBudget DEF ServerExits
<1>6. CASE \/ emit_heartbeat_message
           \/ \E how \in {"hung", "stuck"} : ServerHangs(how)
           \/ ServerRecovers
           \/ UNCHANGED vars
  BY <1>6 DEF emit_heartbeat_message, ServerHangs, ServerRecovers, vars, wdd, KickBudget
<1>7. CASE Tick
  BY <1>7, TickKeepsBudget
<1> QED
  BY <1>1, <1>2, <1>3, <1>4, <1>5, <1>6, <1>7 DEF Next

(***************************************************************************)
(* The watchdogs never reset the device while dsme-wdd runs, however long  *)
(* the periods are, if each wait of dsme-wdd is shorter than theirs.       *)
(***************************************************************************)
THEOREM KickedInTime == Spec => []WatchdogsFed
<1>1. Init => KickBudget
  <2>1. 0 \in Nat
    OBVIOUS
  <2>2. Init => /\ remaining \in Nat /\ since_kick \in Nat
                /\ armed \in BOOLEAN /\ reset \in BOOLEAN
                /\ pc = "exited"
    BY <2>1, Zenon DEF Init
  <2> QED
    BY <2>2 DEF KickBudget
<1>2. KickBudget /\ [Next]_vars => KickBudget'
  BY NextKeepsBudget
<1>3. KickBudget => WatchdogsFed
  BY DEF KickBudget, WatchdogsFed
<1> QED
  BY <1>1, <1>2, <1>3, PTL DEF Spec

(***************************************************************************)
(* dsme_wd_quit() is called only for a dsme-server that was waited for.    *)
(***************************************************************************)
THEOREM SurvivorIsGuarded == Spec => []WatchdogsGuardSurvivor
<1>1. Init => WatchdogsGuardSurvivor
  BY DEF Init, WatchdogsGuardSurvivor, Living
<1>2. WatchdogsGuardSurvivor /\ [Next]_vars => WatchdogsGuardSurvivor'
  <2> SUFFICES ASSUME WatchdogsGuardSurvivor, [Next]_vars
               PROVE  WatchdogsGuardSurvivor'
    OBVIOUS
  <2>1. CASE main
    BY <2>1 DEF main, WatchdogsGuardSurvivor
  <2>2. CASE ChildReaped
    BY <2>2 DEF ChildReaped, WatchdogsGuardSurvivor, Living
  <2>3. CASE \/ TestRun \/ nanosleep \/ WakeUp \/ TermTimeout \/ KillTimeout
    BY <2>3 DEF TestRun, nanosleep, WakeUp, TermTimeout, KillTimeout,
                WatchdogsGuardSurvivor
  <2>4. ASSUME NEW stop \in BOOLEAN, ReceiveSignal(stop)
        PROVE  WatchdogsGuardSurvivor'
    BY <2>4 DEF ReceiveSignal, WatchdogsGuardSurvivor
  <2>5. CASE handle_terminating_signal \/ emit_heartbeat_message \/ Tick \/ UNCHANGED vars
    BY <2>5 DEF handle_terminating_signal, emit_heartbeat_message, Tick, vars,
                WatchdogsGuardSurvivor
  <2>6. CASE ServerRecovers \/ \E how \in {"hung", "stuck"} : ServerHangs(how)
    BY <2>6 DEF ServerRecovers, ServerHangs, WatchdogsGuardSurvivor, Living
  <2>7. CASE ServerExits
    BY <2>7 DEF ServerExits, WatchdogsGuardSurvivor, Living
  <2> QED
    BY <2>1, <2>2, <2>3, <2>4, <2>5, <2>6, <2>7 DEF Next, Daemon
<1> QED
  BY <1>1, <1>2, PTL DEF Spec
-----------------------------------------------------------------------------
(***************************************************************************)
(* How long dsme-server has been silent when it is given up: every ping    *)
(* that was sent since a pong was read stands for an interval of silence,  *)
(* unless a pong is waiting in the pipe.                                   *)
(***************************************************************************)
Unanswered(seconds) ==
  (from_child = 0 /\ child_ping_count > 0) => silence >= Capped(seconds, MaxSilent)

VerdictInv ==
  /\ pc \in {"exited", "loop", "presleep", "sleep", "term", "kill"}
  /\ child_ping_count \in Nat
  /\ to_child \in 0 .. PipeSize /\ from_child \in 0 .. PipeSize
  /\ silence \in 0 .. MaxSilent
  /\ pc \in {"loop", "presleep", "sleep"} => dsme_abnormal_exit = FALSE
  /\ pc = "sleep" => remaining \in 0 .. Interval
  /\ pc \in {"loop", "presleep"} => Unanswered((child_ping_count - 1) * Interval)
  /\ pc = "sleep" => Unanswered(child_ping_count * Interval - remaining)

\* Intervals of silence add up.
LEMMA Intervals ==
  ASSUME NEW n \in Nat
  PROVE  /\ n * Interval \in Nat
         /\ (n - 1) * Interval = n * Interval - Interval
         /\ (n + 1 - 1) * Interval = n * Interval
         /\ n >= MaxPing => n * Interval >= MaxSilent
         /\ MaxSilent \in Nat /\ Interval \in Nat /\ PipeSize \in Nat
BY WddAssumption DEF MaxSilent

\* A signal ends the sleep, or starts the count of pings again.
LEMMA InterruptKeepsVerdict ==
  ASSUME VerdictInv, NEW stop \in BOOLEAN, Interrupt(stop),
         UNCHANGED <<dsme_abnormal_exit, to_child, from_child, silence>>
  PROVE  VerdictInv' /\ (pc = "sleep" /\ pc' = "term" => ~dsme_abnormal_exit')
<1>1. CASE pc = "sleep"
  <2>1. CASE pc' = "term"
    BY <1>1, <2>1 DEF Interrupt, done_running, VerdictInv
  <2>2. CASE pc' # "term"
    <3>1. pc' = "sleep" /\ child_ping_count' = 0 /\ remaining' = remaining
      BY <1>1, <2>2 DEF Interrupt, done_running
    <3> QED BY <1>1, <3>1 DEF VerdictInv, Unanswered
  <2> QED BY <2>1, <2>2
<1>2. CASE pc # "sleep"
  BY <1>2 DEF Interrupt, VerdictInv, Unanswered
<1> QED BY <1>1, <1>2

\* The steps of dsme-wdd: WakeUp counts the interval that has passed.
LEMMA DaemonKeepsVerdict ==
  ASSUME VerdictInv, Daemon
  PROVE  VerdictInv' /\ (pc = "sleep" /\ pc' = "term" => silence = MaxSilent)
<1>1. CASE TestRun
  BY <1>1 DEF TestRun, done_running, VerdictInv, Unanswered
<1>2. CASE nanosleep
  <2>1. /\ pc = "presleep" /\ pc' = "sleep" /\ remaining' = Interval
        /\ UNCHANGED <<child_ping_count, dsme_abnormal_exit, to_child, from_child, silence>>
    BY <1>2 DEF nanosleep
  <2>2. (child_ping_count - 1) * Interval = child_ping_count * Interval - Interval
        /\ Interval \in Nat
    BY Intervals DEF VerdictInv
  <2> QED BY <2>1, <2>2 DEF VerdictInv, Unanswered
<1>3. CASE WakeUp
  <2>1. /\ pc = "sleep" /\ remaining = 0 /\ from_child' = 0 /\ silence' = silence
    BY <1>3 DEF WakeUp
  <2>2. child_ping_count \in Nat /\ from_child \in Nat /\ silence \in 0 .. MaxSilent
        /\ child_ping_count * Interval \in Nat /\ MaxSilent \in Nat /\ PipeSize \in Nat
    BY Intervals DEF VerdictInv
  <2>3. (from_child = 0 /\ child_ping_count > 0) =>
           silence >= Capped(child_ping_count * Interval, MaxSilent)
    BY <2>1, <2>2 DEF VerdictInv, Unanswered
  <2>4. CASE from_child = 0 /\ child_ping_count >= MaxPing
    <3>1. /\ pc' = "term" /\ child_ping_count' = child_ping_count /\ to_child' = to_child
      BY <1>3, <2>4 DEF WakeUp, done_running
    <3>2. child_ping_count * Interval >= MaxSilent
      BY <2>2, <2>4, Intervals
    <3>3. silence = MaxSilent
      <4>1. CASE child_ping_count > 0
        BY <2>2, <2>3, <2>4, <3>2, <4>1 DEF Capped
      <4>2. CASE child_ping_count = 0
        <5>1. child_ping_count * Interval = 0
          BY <4>2, WddAssumption
        <5> QED BY <2>2, <3>2, <5>1
      <4> QED BY <2>2, <4>1, <4>2
    <3> QED BY <2>1, <2>2, <3>1, <3>3 DEF VerdictInv
  <2>5. CASE ~(from_child = 0 /\ child_ping_count >= MaxPing)
    <3>1. /\ pc' = "loop" /\ dsme_abnormal_exit' = dsme_abnormal_exit
          /\ child_ping_count' = (IF from_child > 0 THEN 0 ELSE child_ping_count) + 1
          /\ to_child' = Capped(to_child + 1, PipeSize)
      BY <1>3, <2>5 DEF WakeUp
    <3>2. to_child' \in 0 .. PipeSize /\ child_ping_count' \in Nat
      BY <2>2, <3>1 DEF Capped, VerdictInv
    <3>3. silence >= Capped((child_ping_count' - 1) * Interval, MaxSilent)
      <4>1. CASE from_child > 0 \/ child_ping_count = 0
        <5>1. child_ping_count' - 1 = 0
          BY <2>2, <3>1, <4>1
        <5>2. (child_ping_count' - 1) * Interval = 0
          BY <5>1, WddAssumption
        <5> QED BY <2>2, <5>2 DEF Capped
      <4>2. CASE from_child = 0 /\ child_ping_count > 0
        <5>1. child_ping_count' - 1 = child_ping_count
          BY <2>2, <3>1, <4>2
        <5> QED BY <2>3, <4>2, <5>1
      <4> QED BY <2>2, <4>1, <4>2
    <3> QED BY <2>1, <2>2, <3>1, <3>2, <3>3 DEF VerdictInv, Unanswered
  <2> QED BY <2>4, <2>5
<1>4. CASE ChildReaped \/ TermTimeout \/ KillTimeout
  BY <1>4 DEF ChildReaped, TermTimeout, KillTimeout, VerdictInv
<1> QED BY <1>1, <1>2, <1>3, <1>4 DEF Daemon

\* Every step keeps the count, and only a silent server is given up.
LEMMA NextKeepsVerdict ==
  ASSUME VerdictInv, [Next]_vars
  PROVE  /\ VerdictInv'
         /\ (pc = "sleep" /\ dsme_abnormal_exit' /\ pc' = "term") => silence = MaxSilent
<1>1. CASE main
  BY <1>1, Intervals DEF main, VerdictInv, Unanswered
<1>2. CASE Daemon
  BY <1>2, DaemonKeepsVerdict
<1>3. ASSUME NEW stop \in BOOLEAN, ReceiveSignal(stop)
      PROVE  VerdictInv' /\ (pc = "sleep" /\ pc' = "term" => ~dsme_abnormal_exit')
  BY <1>3, InterruptKeepsVerdict DEF ReceiveSignal
<1>4. CASE handle_terminating_signal
  BY <1>4 DEF handle_terminating_signal, VerdictInv
<1>5. CASE ServerExits
  <2>1. VerdictInv' /\ (pc = "sleep" /\ pc' = "term" => ~dsme_abnormal_exit')
    BY <1>5, InterruptKeepsVerdict DEF ServerExits
  <2> QED BY <2>1
<1>6. CASE \/ \E how \in {"hung", "stuck"} : ServerHangs(how)
           \/ ServerRecovers
           \/ UNCHANGED vars
  BY <1>6 DEF ServerHangs, ServerRecovers, vars, wdd, VerdictInv, Unanswered
<1>7. CASE emit_heartbeat_message
  <2>1. /\ to_child > 0 /\ to_child' = to_child - 1
        /\ from_child' = Capped(from_child + 1, PipeSize)
        /\ silence' = 0
        /\ UNCHANGED <<pc, remaining, child_ping_count, dsme_abnormal_exit>>
    BY <1>7 DEF emit_heartbeat_message, wdd
  <2>2. from_child' \in 1 .. PipeSize /\ to_child' \in 0 .. PipeSize
        /\ silence' \in 0 .. MaxSilent
    BY <2>1, Intervals DEF VerdictInv, Capped
  <2> QED BY <2>1, <2>2 DEF VerdictInv, Unanswered
<1>8. CASE Tick
  <2>1. /\ silence' = Capped(silence + 1, MaxSilent)
        /\ remaining' = (IF pc = "exited" THEN remaining ELSE remaining - 1)
        /\ UNCHANGED <<pc, child_ping_count, dsme_abnormal_exit, to_child, from_child>>
        /\ pc \notin {"loop", "presleep"}
        /\ pc = "sleep" => remaining > 0
    BY <1>8 DEF Tick
  <2>2. child_ping_count * Interval \in Nat /\ MaxSilent \in Nat /\ Interval \in Nat
    BY Intervals DEF VerdictInv
  <2>3. silence' \in 0 .. MaxSilent
    BY <2>1, <2>2 DEF VerdictInv, Capped
  <2>4. CASE pc = "sleep"
    <3>1. remaining \in 0 .. Interval /\ remaining' = remaining - 1
          /\ remaining' \in 0 .. Interval
      BY <2>1, <2>2, <2>4 DEF VerdictInv
    <3>2. Unanswered(child_ping_count * Interval - remaining)'
      BY <2>1, <2>2, <2>3, <2>4, <3>1 DEF VerdictInv, Unanswered, Capped
    <3> QED BY <2>1, <2>3, <2>4, <3>1, <3>2 DEF VerdictInv
  <2>5. CASE pc # "sleep"
    BY <2>1, <2>3, <2>5 DEF VerdictInv
  <2> QED BY <2>4, <2>5
<1> QED
  BY <1>1, <1>2, <1>3, <1>4, <1>5, <1>6, <1>7, <1>8 DEF Next

(***************************************************************************)
(* mainloop() gives dsme-server up for dead only when it has written no    *)
(* pong for DSME_MAXPING whole intervals, whatever signals arrive and      *)
(* however late the pongs are.                                             *)
(***************************************************************************)
THEOREM VerdictIsDue == Spec => NoHastyVerdict
<1>1. Init => VerdictInv
  BY Intervals DEF Init, VerdictInv
<1>2. VerdictInv /\ [Next]_vars => VerdictInv'
  BY NextKeepsVerdict
<1>3. VerdictInv /\ [Next]_vars =>
        [pc = "sleep" /\ dsme_abnormal_exit' /\ pc' = "term" => silence = MaxSilent]_vars
  BY NextKeepsVerdict
<1> QED
  BY <1>1, <1>2, <1>3, PTL DEF Spec, NoHastyVerdict
-----------------------------------------------------------------------------
(***************************************************************************)
(* The process watchdog.                                                   *)
(***************************************************************************)
\* A kill timer runs only for a process in the table, and the ping count of a
\* process in the table never runs ahead of the pings it left unanswered.
TableInv ==
  /\ kill_timer \subseteq processes
  /\ pingcount \in [Process -> Nat] /\ unanswered \in [Process -> Nat]
  /\ \A p \in Process \cap processes :
       unanswered[p] >= pingcount[p] \/ unanswered[p] >= MAXPING - 1

\* What one step of the table may do: see the theorems.
NoEscape == \A p \in kill_timer : p \in kill_timer' \/ <<"SIGKILL", p>> \in signals'
DueAbort == \A p \in Process :
              <<"SIGABRT", p>> \in signals' => unanswered[p] >= MAXPING - 1

\* The signals that kill() sends, one call for each process of two sets.
LEMMA Signals ==
  ASSUME NEW aborts, NEW kills, kill(aborts, kills)
  PROVE  /\ \A p \in kills : <<"SIGKILL", p>> \in signals'
         /\ \A p : <<"SIGABRT", p>> \in signals' => p \in aborts
BY DEF kill

\* Deleting entries kills the aborted ones among them.
LEMMA DeleteKeepsTable ==
  ASSUME TableInv, NEW ps, NEW kills, swwd_entry_delete(ps, kills),
         UNCHANGED <<pingcount, unanswered>>
  PROVE  TableInv' /\ NoEscape /\ DueAbort
<1>1. /\ processes' = processes \ ps /\ kill_timer' = kill_timer \ ps
      /\ kill({}, kills \cup (ps \cap kill_timer))
  BY DEF swwd_entry_delete
<1>2. TableInv'
  BY <1>1 DEF TableInv
<1>3. /\ \A p \in ps \cap kill_timer : <<"SIGKILL", p>> \in signals'
      /\ \A p : <<"SIGABRT", p>> \notin signals'
  BY <1>1, Signals
<1> QED BY <1>1, <1>2, <1>3 DEF NoEscape, DueAbort

\* ping_all(): the count that reaches MAXPING is one above the pings it stands
\* for, since the last of them is a signal.
LEMMA PingKeepsTable ==
  ASSUME TableInv, NEW fails, ping_all(fails)
  PROVE  TableInv' /\ NoEscape /\ DueAbort
<1> DEFINE count == [p \in Process |-> IF p \in processes THEN pingcount[p] + 1
                                       ELSE pingcount[p]]
           over  == {p \in processes : count[p] = MAXPING}
           abort == over \ kill_timer
           gone  == abort \cap fails
<1>0. MAXPING \in Nat
  BY ProcessWdAssumption
<1>1. /\ pingcount' = count
      /\ kill(abort, gone)
      /\ processes' = processes \ gone
      /\ kill_timer' = kill_timer \cup (abort \ gone)
      /\ unanswered' = [p \in Process |-> IF p \in processes \ over
                                          THEN unanswered[p] + 1 ELSE unanswered[p]]
  BY DEF ping_all
<1>2. \A p \in Process : count[p] = IF p \in processes THEN pingcount[p] + 1 ELSE pingcount[p]
  OBVIOUS
<1>3. count \in [Process -> Nat]
  BY DEF TableInv
<1> HIDE DEF count
<1>4. kill_timer' \subseteq processes'
  BY <1>1 DEF TableInv
<1>5. unanswered' \in [Process -> Nat]
  BY <1>1 DEF TableInv
<1>6. ASSUME NEW p \in Process \cap over
      PROVE  unanswered[p] >= MAXPING - 1
  <2>1. p \in Process /\ p \in processes /\ pingcount[p] + 1 = MAXPING
    BY <1>2
  <2>2. /\ unanswered[p] \in Nat /\ pingcount[p] \in Nat
        /\ unanswered[p] >= pingcount[p] \/ unanswered[p] >= MAXPING - 1
    BY <2>1 DEF TableInv
  <2> QED BY <1>0, <2>1, <2>2
<1>7. ASSUME NEW p \in Process \cap processes'
      PROVE  unanswered'[p] >= pingcount'[p] \/ unanswered'[p] >= MAXPING - 1
  <2>1. p \in Process /\ p \in processes /\ pingcount'[p] = pingcount[p] + 1
        /\ unanswered[p] \in Nat /\ pingcount[p] \in Nat
    BY <1>1, <1>2 DEF TableInv
  <2>2. CASE p \in over
    <3>1. unanswered'[p] = unanswered[p]
      BY <1>1, <2>1, <2>2
    <3> QED BY <1>6, <2>1, <2>2, <3>1
  <2>3. CASE p \notin over
    <3>1. unanswered'[p] = unanswered[p] + 1
      BY <1>1, <2>1, <2>3
    <3>2. unanswered[p] >= pingcount[p] \/ unanswered[p] >= MAXPING - 1
      BY <2>1 DEF TableInv
    <3> QED BY <1>0, <2>1, <3>1, <3>2
  <2> QED BY <2>2, <2>3
<1>8. TableInv'
  BY <1>1, <1>3, <1>4, <1>5, <1>7 DEF TableInv
<1>9. \A p : <<"SIGABRT", p>> \in signals' => p \in abort
  <2> HIDE DEF abort, gone
  <2> QED BY <1>1, Signals
<1> QED BY <1>1, <1>6, <1>8, <1>9 DEF NoEscape, DueAbort

\* Every step of processwd.c, its clients and its sockets.
LEMMA NextKeepsTable ==
  ASSUME TableInv, [PNext]_pvars
  PROVE  TableInv' /\ (UNCHANGED pvars \/ (NoEscape /\ DueAbort))
<1>1. ASSUME NEW p \in Process,
             \/ \E type \in {"PROCESSWD_CREATE", "PROCESSWD_DELETE"} : ClientSends(p, type)
             \/ ClientAnswers(p) \/ ClientHangs(p) \/ ClientExits(p)
             \/ handle_client(p)
      PROVE  TableInv' /\ NoEscape /\ DueAbort
  <2>1. UNCHANGED <<processes, pingcount, kill_timer, unanswered>> /\ signals' = {}
    BY <1>1 DEF ClientSends, ClientAnswers, Write, ClientHangs,
                ClientExits, handle_client, table
  <2> QED BY <2>1 DEF TableInv, NoEscape, DueAbort
<1>2. CASE iphb_wakeup
  <2>1. UNCHANGED <<processes, pingcount, kill_timer, unanswered>> /\ signals' = {}
    BY <1>2 DEF iphb_wakeup, table
  <2> QED BY <2>1 DEF TableInv, NoEscape, DueAbort
<1>3. ASSUME NEW p \in Process, abort_timeout_func(p)
      PROVE  TableInv' /\ NoEscape /\ DueAbort
  <2>1. /\ p \in kill_timer /\ kill_timer' = kill_timer \ {p}
        /\ processes' = processes \ {p} /\ UNCHANGED <<pingcount, unanswered>>
        /\ kill({}, {p} \cap processes)
    BY <1>3 DEF abort_timeout_func
  <2>2. /\ <<"SIGKILL", p>> \in signals'
        /\ \A q : <<"SIGABRT", q>> \notin signals'
    BY <2>1, Signals DEF TableInv
  <2> QED BY <2>1, <2>2 DEF TableInv, NoEscape, DueAbort
<1>4. ASSUME NEW fails, WAKEUP(fails)
      PROVE  TableInv' /\ NoEscape /\ DueAbort
  BY <1>4, PingKeepsTable DEF WAKEUP
<1>5. CASE PROCESSWD_CREATE \/ PROCESSWD_PONG
  <2>1. kill_timer' = kill_timer /\ kill({}, {})
    BY <1>5 DEF PROCESSWD_CREATE, PROCESSWD_PONG
  <2>2. NoEscape /\ DueAbort
    BY <2>1, Signals DEF NoEscape, DueAbort
  <2> DEFINE p == Head(queue).from
  <2>3. \/ processes' \in {processes, processes \cup {p}}
           /\ pingcount' = [pingcount EXCEPT ![p] = 0]
           /\ unanswered' = [unanswered EXCEPT ![p] = 0]
        \/ UNCHANGED <<processes, pingcount, unanswered>>
    BY <1>5 DEF PROCESSWD_CREATE, PROCESSWD_PONG
  <2> HIDE DEF p
  <2>4. TableInv'
    BY <2>1, <2>3 DEF TableInv
  <2> QED BY <2>2, <2>4
<1>6. CASE PROCESSWD_DELETE \/ CLOSE \/ module_fini
  BY <1>6, DeleteKeepsTable DEF PROCESSWD_DELETE, CLOSE, module_fini
<1>7. CASE UNCHANGED pvars
  BY <1>7 DEF pvars, table, TableInv
<1> QED
  BY <1>1, <1>2, <1>3, <1>4, <1>5, <1>6, <1>7 DEF PNext, Handle

\* The table is empty at the start.
LEMMA InitTable == PInit => TableInv
BY DEF PInit, TableInv

(***************************************************************************)
(* A process that got SIGABRT leaves the list of kill timers only together *)
(* with SIGKILL: by the timer, by DELETE, by a closed socket or when       *)
(* processwd.c is unloaded.                                                *)
(***************************************************************************)
THEOREM NobodyEscapes == PSpec => NoEscapeAfterAbort
<1>1. TableInv /\ [PNext]_pvars => TableInv'
  BY NextKeepsTable
<1>2. TableInv /\ [PNext]_pvars =>
        [\A p \in kill_timer : p \in kill_timer' \/ <<"SIGKILL", p>> \in signals']_pvars
  BY NextKeepsTable DEF NoEscape
<1> QED
  BY <1>1, <1>2, InitTable, PTL DEF PSpec, NoEscapeAfterAbort

(***************************************************************************)
(* ping_all() aborts only a process that left MAXPING - 1 pings in a row   *)
(* without an answer that was handled.                                     *)
(***************************************************************************)
THEOREM OnlyUnresponsiveAborted == PSpec => AbortOnlyUnresponsive
<1>1. TableInv /\ [PNext]_pvars => TableInv'
  BY NextKeepsTable
<1>2. TableInv /\ [PNext]_pvars =>
        [\A p \in Process :
           <<"SIGABRT", p>> \in signals' => unanswered[p] >= MAXPING - 1]_pvars
  BY NextKeepsTable DEF DueAbort
<1> QED
  BY <1>1, <1>2, InitTable, PTL DEF PSpec, AbortOnlyUnresponsive
=============================================================================
