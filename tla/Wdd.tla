-------------------------------- MODULE Wdd --------------------------------
(***************************************************************************)
(* The watchdog daemon dsme-wdd (dsme/dsme-wdd.c, dsme/dsme-wdd-wd.c), the *)
(* dsme-server process it supervises (modules/heartbeat.c answers for it), *)
(* the hardware watchdogs and systemd, which restarts the pair.            *)
(*                                                                         *)
(* Time is counted in seconds.  dsme-wdd runs with real-time priority, so  *)
(* only its sleep and its waits take time; signals may arrive between any  *)
(* two of its steps.                                                       *)
(***************************************************************************)
EXTENDS Naturals

CONSTANTS
  Period,       \* DSME_SHORTEST_WD_PERIOD: the watchdogs bite after this
  Interval,     \* DSME_HEARTBEAT_INTERVAL: what mainloop() sleeps
  TermWait,     \* how long main() waits after SIGTERM
  KillWait,     \* and after SIGKILL
  MaxPing,      \* DSME_MAXPING
  PipeSize,     \* bound on the pings and pongs in a pipe
  MaxSignals    \* bound on the signals others send to dsme-wdd

ASSUME WddAssumption ==
  /\ Period \in Nat /\ Interval \in Nat /\ TermWait \in Nat /\ KillWait \in Nat
  /\ Interval < Period
  /\ TermWait + KillWait < Period
  /\ MaxPing \in Nat /\ PipeSize \in Nat /\ MaxSignals \in Nat

VARIABLES
  pc,               \* where dsme-wdd is
  remaining,        \* seconds until its sleep or its alarm ends
  run,              \* cleared by SIGCHLD, SIGINT and SIGTERM
  child_ping_count,
  dsme_abnormal_exit,
  wakelock,         \* the dsme_restart wakelock
  armed,            \* the watchdogs are open and count
  since_kick,       \* seconds since they were kicked
  reset,            \* a watchdog has reset the device
  server,           \* the dsme-server process
  signalled,        \* the signals dsme-wdd has sent to it
  to_child,         \* pings in the pipe
  from_child,       \* pongs in the pipe
  received,         \* signals received from others
  silence           \* history: seconds since dsme-server last wrote a pong

wdd == <<pc, remaining, run, child_ping_count, dsme_abnormal_exit, wakelock>>

vars == <<wdd, armed, since_kick, reset, server, signalled, to_child, from_child,
          received, silence>>

\* A hung server may recover; a stuck one is asleep in the kernel.
Server == {"none", "running", "hung", "stuck", "zombie", "reaped"}

Living == {"running", "hung", "stuck"}

\* silence is counted only as far as the property needs it.
MaxSilent == MaxPing * Interval

Capped(n, limit) == IF n < limit THEN n ELSE limit

dsme_wd_kick == since_kick' = IF armed THEN 0 ELSE since_kick
-----------------------------------------------------------------------------
Init ==
  /\ pc = "exited" /\ remaining = 0 /\ run = TRUE
  /\ child_ping_count = 0
  /\ dsme_abnormal_exit = FALSE /\ wakelock = FALSE
  /\ armed = FALSE /\ since_kick = 0 /\ reset = FALSE
  /\ server = "none" /\ signalled = {}
  /\ to_child = 0 /\ from_child = 0
  /\ received = 0 /\ silence = 0

\* systemd starts dsme: main() up to its main loop, with a new dsme-server.
main ==
  /\ pc = "exited"
  /\ ~reset
  /\ pc' = "loop" /\ remaining' = 0 /\ run' = TRUE
  /\ child_ping_count' = 0
  /\ dsme_abnormal_exit' = FALSE /\ wakelock' = FALSE
  /\ armed' = TRUE /\ since_kick' = 0
  /\ server' = "running" /\ signalled' = {}
  /\ to_child' = 0 /\ from_child' = 0
  /\ silence' = 0
  /\ UNCHANGED <<reset, received>>
-----------------------------------------------------------------------------
(***************************************************************************)
(* mainloop()                                                              *)
(***************************************************************************)
\* Mutant: the watchdogs are not kicked before the server is brought down.
done_running_unkicked ==
  /\ pc' = "term"
  /\ remaining' = TermWait
  /\ wakelock' = TRUE
  /\ signalled' = signalled \cup {"SIGTERM"}
  /\ UNCHANGED since_kick

\* done_running: wakelock, a last kick, and SIGTERM for dsme-server.
done_running ==
  /\ pc' = "term"
  /\ remaining' = TermWait
  /\ wakelock' = TRUE
  /\ dsme_wd_kick
  /\ signalled' = signalled \cup {"SIGTERM"}

\* while (run): a signal that comes after this test does not end the sleep.
TestRun ==
  /\ pc = "loop"
  /\ IF run
     THEN /\ dsme_wd_kick
          /\ pc' = "presleep"
          /\ UNCHANGED <<remaining, wakelock, signalled>>
     ELSE done_running
  /\ UNCHANGED <<run, child_ping_count, dsme_abnormal_exit, armed, reset, server,
                 to_child, from_child, received, silence>>

nanosleep ==
  /\ pc = "presleep"
  /\ pc' = "sleep"
  /\ remaining' = Interval
  /\ UNCHANGED <<run, child_ping_count, dsme_abnormal_exit, wakelock, armed, since_kick,
                 reset, server, signalled, to_child, from_child, received, silence>>

\* WakeUp with another count of pings and another limit.
WakeUpWith(count, limit) ==
  /\ pc = "sleep"
  /\ remaining = 0
  /\ from_child' = 0
  /\ IF from_child = 0 /\ child_ping_count >= limit
     THEN /\ run' = FALSE
          /\ dsme_abnormal_exit' = TRUE
          /\ done_running
          /\ UNCHANGED <<child_ping_count, to_child>>
     ELSE /\ child_ping_count' = count + 1
          /\ to_child' = Capped(to_child + 1, PipeSize)
          /\ dsme_wd_kick
          /\ pc' = "loop"
          /\ UNCHANGED <<run, dsme_abnormal_exit, remaining, wakelock, signalled>>
  /\ UNCHANGED <<armed, reset, server, received, silence>>

\* Mutant: a pong does not reset the count.
WakeUp_ignores_pong == WakeUpWith(child_ping_count, MaxPing)

\* Mutant: the count starts again with every ping.
WakeUp_forgets == WakeUpWith(0, MaxPing)

\* The sleep is over: kick, look for pongs, then ping.
WakeUp ==
  /\ pc = "sleep"
  /\ remaining = 0
  /\ from_child' = 0
  /\ IF from_child = 0 /\ child_ping_count >= MaxPing
     THEN /\ run' = FALSE
          /\ dsme_abnormal_exit' = TRUE
          /\ done_running
          /\ UNCHANGED <<child_ping_count, to_child>>
     ELSE /\ child_ping_count' = (IF from_child > 0 THEN 0 ELSE child_ping_count) + 1
          /\ to_child' = Capped(to_child + 1, PipeSize)
          /\ dsme_wd_kick
          /\ pc' = "loop"
          /\ UNCHANGED <<run, dsme_abnormal_exit, remaining, wakelock, signalled>>
  /\ UNCHANGED <<armed, reset, server, received, silence>>

(***************************************************************************)
(* A signal reaches dsme-wdd.  It sets run if it asks to stop, and it ends *)
(* nanosleep() with EINTR, which makes mainloop() kick and, if it goes on, *)
(* consider dsme-server alive.                                             *)
(***************************************************************************)
Interrupt(stop) ==
  /\ run' = (run /\ ~stop)
  /\ IF pc = "sleep"
     THEN IF run /\ ~stop
          THEN /\ dsme_wd_kick
               /\ child_ping_count' = 0
               /\ UNCHANGED <<pc, remaining, wakelock, signalled>>
          ELSE /\ done_running
               /\ UNCHANGED child_ping_count
     ELSE UNCHANGED <<pc, remaining, wakelock, since_kick, signalled, child_ping_count>>

\* SIGTERM or SIGINT from outside, or SIGHUP or SIGUSR1 (dsme-server's kick).
ReceiveSignal(stop) ==
  /\ pc # "exited"
  /\ received < MaxSignals
  /\ received' = received + 1
  /\ Interrupt(stop)
  /\ UNCHANGED <<dsme_abnormal_exit, armed, reset, server, to_child, from_child,
                 silence>>

\* handle_terminating_signal(): a crash of dsme-wdd itself.
handle_terminating_signal ==
  /\ pc # "exited"
  /\ received < MaxSignals
  /\ received' = received + 1
  /\ pc' = "exited"
  /\ dsme_abnormal_exit' = TRUE
  /\ wakelock' = (wakelock \/ ~dsme_abnormal_exit)
  /\ since_kick' = IF armed /\ ~dsme_abnormal_exit THEN 0 ELSE since_kick
  /\ UNCHANGED <<remaining, run, child_ping_count, armed, reset, server, signalled,
                 to_child, from_child, silence>>
-----------------------------------------------------------------------------
(***************************************************************************)
(* kill_and_wait() and the end of main().                                  *)
(***************************************************************************)
\* waitpid() returns: disarm the watchdogs and exit.
ChildReaped ==
  /\ pc \in {"term", "kill"}
  /\ server = "zombie"
  /\ server' = "reaped"
  /\ armed' = FALSE
  /\ pc' = "exited"
  /\ wakelock' = dsme_abnormal_exit
  /\ UNCHANGED <<remaining, run, child_ping_count, dsme_abnormal_exit, since_kick, reset,
                 signalled, to_child, from_child, received, silence>>

\* The alarm interrupts waitpid() after SIGTERM: go on with SIGKILL.
TermTimeout ==
  /\ pc = "term"
  /\ remaining = 0
  /\ server # "zombie"
  /\ pc' = "kill"
  /\ remaining' = KillWait
  /\ signalled' = signalled \cup {"SIGKILL"}
  /\ UNCHANGED <<run, child_ping_count, dsme_abnormal_exit, wakelock, armed, since_kick,
                 reset, server, to_child, from_child, received, silence>>

\* Mutant: the watchdogs are disarmed on every way out.
KillTimeout_disarms ==
  /\ pc = "kill"
  /\ remaining = 0
  /\ server # "zombie"
  /\ armed' = FALSE
  /\ dsme_abnormal_exit' = TRUE
  /\ pc' = "exited"
  /\ UNCHANGED <<remaining, run, child_ping_count, wakelock, since_kick, reset, server,
                 signalled, to_child, from_child, received, silence>>

\* ... and after SIGKILL: kick once more and leave the watchdogs armed.
KillTimeout ==
  /\ pc = "kill"
  /\ remaining = 0
  /\ server # "zombie"
  /\ dsme_wd_kick
  /\ dsme_abnormal_exit' = TRUE
  /\ pc' = "exited"
  /\ UNCHANGED <<remaining, run, child_ping_count, wakelock, armed, reset, server,
                 signalled, to_child, from_child, received, silence>>
-----------------------------------------------------------------------------
(***************************************************************************)
(* dsme-server.                                                            *)
(***************************************************************************)
\* A ping is answered.
emit_heartbeat_message ==
  /\ server = "running"
  /\ to_child > 0
  /\ to_child' = to_child - 1
  /\ from_child' = Capped(from_child + 1, PipeSize)
  /\ silence' = 0
  /\ UNCHANGED <<wdd, armed, since_kick, reset, server, signalled, received>>

ServerHangs(how) ==
  /\ server = "running"
  /\ server' = how
  /\ UNCHANGED <<wdd, armed, since_kick, reset, signalled, to_child, from_child,
                 received, silence>>

ServerRecovers ==
  /\ server \in {"hung", "stuck"}
  /\ "SIGKILL" \notin signalled
  /\ server' = "running"
  /\ UNCHANGED <<wdd, armed, since_kick, reset, signalled, to_child, from_child,
                 received, silence>>

\* dsme-server ends: asked to, of itself, as its pipe hung up, or by a crash.
ServerExits ==
  /\ server \in {"running", "hung"}
  /\ server' = "zombie"
  /\ Interrupt(TRUE)
  /\ UNCHANGED <<dsme_abnormal_exit, armed, reset, to_child, from_child, received, silence>>
-----------------------------------------------------------------------------
\* A second passes, while dsme-wdd sleeps, waits or is not there.
Tick ==
  /\ ~reset
  /\ \/ pc = "sleep" /\ remaining > 0
     \/ pc \in {"term", "kill"} /\ remaining > 0 /\ server # "zombie"
     \/ pc = "exited" /\ armed
  /\ remaining' = IF pc = "exited" THEN remaining ELSE remaining - 1
  /\ since_kick' = IF armed THEN since_kick + 1 ELSE since_kick
  /\ reset' = (armed /\ since_kick + 1 >= Period)
  /\ silence' = Capped(silence + 1, MaxSilent)
  /\ UNCHANGED <<pc, run, child_ping_count, dsme_abnormal_exit, wakelock, armed, server,
                 signalled, to_child, from_child, received>>

Daemon ==
  \/ TestRun \/ nanosleep \/ WakeUp
  \/ ChildReaped \/ TermTimeout \/ KillTimeout

Next ==
  \/ main
  \/ Daemon
  \/ \E stop \in BOOLEAN : ReceiveSignal(stop)
  \/ handle_terminating_signal
  \/ emit_heartbeat_message
  \/ \E how \in {"hung", "stuck"} : ServerHangs(how)
  \/ ServerRecovers
  \/ ServerExits
  \/ Tick

Spec == Init /\ [][Next]_vars

(***************************************************************************)
(* dsme-wdd is not starved (SCHED_FIFO), time passes, systemd restarts     *)
(* what exits (Restart=always), and the kernel ends a process that got     *)
(* SIGKILL unless it is stuck.  Nothing is assumed of dsme-server.         *)
(***************************************************************************)
Fairness ==
  /\ WF_vars(main)
  /\ WF_vars(Daemon)
  /\ WF_vars(Tick)
  /\ WF_vars("SIGKILL" \in signalled /\ ServerExits)

FairSpec == Spec /\ Fairness
-----------------------------------------------------------------------------
\* The state of the daemon, of the server and of the pipes.
TypeOK ==
  /\ pc \in {"exited", "loop", "presleep", "sleep", "term", "kill"}
  /\ remaining \in Nat
  /\ {run, dsme_abnormal_exit, wakelock, armed, reset} \subseteq BOOLEAN
  /\ child_ping_count \in 0..(MaxPing + 1)
  /\ since_kick \in 0..Period
  /\ server \in Server
  /\ signalled \subseteq {"SIGTERM", "SIGKILL"}
  /\ to_child \in 0..PipeSize /\ from_child \in 0..PipeSize
  /\ received \in 0..MaxSignals
  /\ silence \in 0..MaxSilent

(***************************************************************************)
(* As long as dsme-wdd runs the watchdogs do not bite, not even while it   *)
(* brings down a dsme-server that ignores SIGTERM and SIGKILL.             *)
(***************************************************************************)
WatchdogsFed == reset => pc = "exited"

(***************************************************************************)
(* The watchdogs are disarmed only when dsme-server is certainly gone: a   *)
(* server that outlives dsme-wdd is left to them.                          *)
(***************************************************************************)
WatchdogsGuardSurvivor == server \in Living \cup {"zombie"} => armed

(***************************************************************************)
(* Why the watchdogs are fed: what is left of a sleep or of a wait, added  *)
(* to the time since the last kick, never exceeds what was budgeted.       *)
(***************************************************************************)
KickBudget ==
  /\ remaining \in Nat
  /\ since_kick \in Nat
  /\ armed \in BOOLEAN
  /\ reset \in BOOLEAN
  /\ pc \in {"exited", "loop", "presleep", "sleep", "term", "kill"}
  /\ pc # "exited" => armed /\ ~reset
  /\ pc \in {"loop", "presleep"} => since_kick = 0
  /\ pc = "sleep" => since_kick + remaining <= Interval
  /\ pc = "term" => since_kick + remaining <= TermWait
  /\ pc = "kill" => since_kick + remaining <= TermWait + KillWait

(***************************************************************************)
(* dsme-wdd declares dsme-server nonresponsive only after it has been      *)
(* silent for DSME_MAXPING whole intervals.                                *)
(***************************************************************************)
NoHastyVerdict == [][pc = "sleep" /\ dsme_abnormal_exit' /\ pc' = "term"
                       => silence = MaxSilent]_vars

(***************************************************************************)
(* A dsme-server that hangs or gets stuck is replaced, unless it recovers  *)
(* or the watchdogs reset the device.                                      *)
(***************************************************************************)
HungServerReplaced == (server \in {"hung", "stuck"}) ~> (server = "running" \/ reset)
=============================================================================
