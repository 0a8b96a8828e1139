------------------------------ MODULE Logging ------------------------------
(***************************************************************************)
(* dsme/logging.c: dsme_log() of the main thread puts entries into a ring  *)
(* buffer, and a logging thread writes them out, so that a syslog daemon   *)
(* that blocks cannot keep dsme from feeding the watchdogs.  The two       *)
(* threads share the ring, two counters and an eventfd, without a lock.    *)
(*                                                                         *)
(* The steps of the main thread are those between which the other thread   *)
(* can make a difference; the rules that decide whether a call logs at all *)
(* belong to the main thread alone and change in one step with the start   *)
(* of the call.                                                            *)
(***************************************************************************)
EXTENDS Integers, Sequences, SequencesExt

CONSTANTS
  ENTRY_COUNT,   \* DSME_LOG_ENTRY_COUNT
  COUNT_MODULUS, \* values of a guint; a multiple of ENTRY_COUNT
  Callers,       \* file:function pairs
  Patterns,      \* glob patterns, as the sets of callers they match
  Prios,         \* priorities and verbosities
  Faults,        \* the eventfd may fail, the log file may not open
  MaxRules,      \* bound: include and exclude rules
  MaxMessages    \* bound: messages of a behaviour

ASSUME LoggingAssumption ==
  /\ ENTRY_COUNT \in Nat /\ ENTRY_COUNT > 1
  /\ COUNT_MODULUS \in Nat /\ COUNT_MODULUS > ENTRY_COUNT
  /\ COUNT_MODULUS % ENTRY_COUNT = 0
  /\ Patterns \subseteq SUBSET Callers
  /\ Prios \subseteq Int
  /\ Faults \in BOOLEAN
  /\ {MaxRules, MaxMessages} \subseteq Nat

VARIABLES
  ring_buffer, write_count, read_count,
  event_fd,       \* the count of the eventfd, or Closed
  thread_enabled,
  overflow, skipped, \* statics of dsme_log_queue()
  main,           \* the main thread: [pc, todo, at, closing]
  worker,         \* the logging thread: [pc, cnt]
  rules, cache,   \* dsme_log_rule_list and dsme_log_rule_cache, which is there
                  \* when there are rules
  verbosity,
  calls,          \* messages handed to dsme_log_queue()
  log,            \* what has been written out
  accepted,       \* history: the entries that went into the ring
  failed          \* history: the logging thread failed

ringVars == <<ring_buffer, write_count, read_count>>
ruleVars == <<rules, cache, verbosity>>
vars == <<ringVars, event_fd, thread_enabled, overflow, skipped, main, worker,
          ruleVars, calls, log, accepted, failed>>

Closed == -1
Entry == [kind : {"message", "lost"}, n : Nat]
LOW_MARK == (ENTRY_COUNT * 7) \div 8

\* A buffer slot that has not been written holds zeroes.
Blank == [kind |-> "message", n |-> 0]

\* buffered_count(): the difference of two unsigned counters.
buffered_count == (write_count - read_count) % COUNT_MODULUS
Slot(count) == count % ENTRY_COUNT

TypeOK ==
  /\ ring_buffer \in [0 .. ENTRY_COUNT - 1 -> Entry]
  /\ {write_count, read_count} \subseteq 0 .. COUNT_MODULUS - 1
  /\ event_fd \in Nat \cup {Closed}
  /\ {thread_enabled, overflow, failed} \subseteq BOOLEAN
  /\ skipped \in Nat
  /\ main.pc \in {"idle", "format", "inc", "notify", "stop", "join", "flush", "done"}
  /\ main.todo \in Seq(Entry) /\ Len(main.todo) <= 2
  /\ worker.pc \in {"none", "read", "check", "output", "inc", "enabled", "exited"}
  /\ DOMAIN cache \subseteq Callers
  /\ verbosity \in Prios
-----------------------------------------------------------------------------
(***************************************************************************)
(* The rules: which calls log.                                             *)
(***************************************************************************)
\* dsme_log_evaluate(), the list: the first match, and the newest is first.
FirstMatch(c) ==
  LET hits == {i \in DOMAIN rules : c \in rules[i].pattern}
  IN  IF hits = {} THEN "unknown"
      ELSE rules[CHOOSE i \in hits : \A j \in hits : i <= j].state

\* dsme_log_evaluate(): from the cache, unless it says unknown, else the list.
dsme_log_evaluate(c) ==
  IF rules = <<>> THEN "default"
  ELSE IF c \in DOMAIN cache /\ cache[c] # "unknown" THEN cache[c] ELSE FirstMatch(c)

\* The cache after dsme_log_evaluate(c).
Remember(c) ==
  IF rules = <<>> THEN cache
  ELSE [x \in DOMAIN cache \cup {c} |-> IF x = c THEN dsme_log_evaluate(c) ELSE cache[x]]

\* dsme_log_p_()
dsme_log_p_(prio, c) ==
  CASE dsme_log_evaluate(c) = "included" -> TRUE
    [] dsme_log_evaluate(c) = "excluded" -> FALSE
    [] OTHER -> prio <= verbosity

\* dsme_log_add_rule(), without the message it logs.
dsme_log_add_rule(pattern, state) ==
  /\ rules' = <<[pattern |-> pattern, state |-> state]>> \o rules
  /\ cache' = <<>>
-----------------------------------------------------------------------------
(***************************************************************************)
(* The main thread.                                                        *)
(***************************************************************************)
\* Mutant: the overflow ends as soon as there is room for a message.
Admit_no_hysteresis(m) ==
  IF buffered_count >= ENTRY_COUNT THEN <<>>
  ELSE IF overflow THEN <<[kind |-> "lost", n |-> skipped], m>>
  ELSE <<m>>

\* Mutant: the loss of messages is not reported.
Admit_silent(m) ==
  IF buffered_count >= (IF overflow THEN LOW_MARK ELSE ENTRY_COUNT) THEN <<>>
  ELSE <<m>>

\* dsme_log_queue(), its first half: the entries to put into the ring.
Admit(m) ==
  IF buffered_count >= (IF overflow THEN LOW_MARK ELSE ENTRY_COUNT) THEN <<>>
  ELSE IF overflow THEN <<[kind |-> "lost", n |-> skipped], m>>
  ELSE <<m>>

Continue == IF main.closing THEN "stop" ELSE "idle"

\* A call of dsme_log_queue() begins: it reads the counters and either skips the
\* message or has one or two entries to write.
dsme_log_queue(closing) ==
  LET m == [kind |-> "message", n |-> calls + 1]
      todo == Admit(m)
      skip == todo = <<>>
  IN  /\ calls < MaxMessages \/ closing
      /\ calls' = calls + 1
      /\ overflow' = skip
      /\ skipped' = IF skip THEN skipped + 1 ELSE 0
      /\ main' = [main EXCEPT !.todo = todo, !.closing = closing,
                   !.pc = IF ~skip THEN "format" ELSE IF closing THEN "stop" ELSE "idle"]
      /\ UNCHANGED <<ringVars, event_fd, thread_enabled, log, accepted, failed>>

\* log_entry_format()
log_entry_format ==
  /\ main.pc = "format"
  /\ ring_buffer' = [ring_buffer EXCEPT ![Slot(write_count)] = Head(main.todo)]
  /\ main' = [main EXCEPT !.pc = "inc"]
  /\ UNCHANGED <<write_count, read_count, event_fd, thread_enabled, overflow, skipped,
                 worker, ruleVars, calls, log, accepted, failed>>

write_count_inc ==
  /\ main.pc = "inc"
  /\ write_count' = (write_count + 1) % COUNT_MODULUS
  /\ accepted' = Append(accepted, Head(main.todo))
  /\ main' = [main EXCEPT !.pc = "notify"]
  /\ UNCHANGED <<ring_buffer, read_count, event_fd, thread_enabled, overflow, skipped,
                 worker, ruleVars, calls, log, failed>>

\* dsme_log_notify_worker(): a token for the logging thread, or, when there is
\* none, the entry itself.
dsme_log_notify_worker ==
  /\ main.pc = "notify"
  /\ main' = [main EXCEPT !.todo = Tail(@),
                          !.pc = IF Len(main.todo) > 1 THEN "format" ELSE Continue]
  /\ \/ /\ thread_enabled /\ event_fd # Closed
        /\ event_fd' = event_fd + 1
        /\ UNCHANGED <<thread_enabled, log, failed>>
     \/ /\ thread_enabled /\ Faults
        /\ thread_enabled' = FALSE /\ failed' = TRUE
        /\ log' = Append(log, Head(main.todo))
        /\ UNCHANGED event_fd
     \/ /\ ~thread_enabled
        /\ log' = Append(log, Head(main.todo))
        /\ UNCHANGED <<event_fd, thread_enabled, failed>>
  /\ UNCHANGED <<ringVars, overflow, skipped, worker, ruleVars, calls, accepted>>

\* A call of dsme_log() somewhere in dsme.
dsme_log(c, prio) ==
  /\ main.pc = "idle"
  /\ cache' = Remember(c)
  /\ \/ dsme_log_p_(prio, c) /\ dsme_log_queue(FALSE)
     \/ ~dsme_log_p_(prio, c) /\ UNCHANGED <<ringVars, event_fd, thread_enabled, overflow,
                                   skipped, main, calls, log, accepted, failed>>
  /\ UNCHANGED <<worker, rules, verbosity>>

\* dsme_log_include(), dsme_log_exclude()
AddRule(pattern, state) ==
  /\ main.pc = "idle" /\ Len(rules) < MaxRules
  /\ dsme_log_add_rule(pattern, state)
  /\ dsme_log_queue(FALSE)
  /\ UNCHANGED <<worker, verbosity>>

\* dsme_log_clear_rules(), on DSM_MSGTYPE_USE_LOGGING_DEFAULTS
dsme_log_clear_rules ==
  /\ main.pc = "idle"
  /\ rules' = <<>> /\ cache' = <<>>
  /\ dsme_log_queue(FALSE)
  /\ UNCHANGED <<worker, verbosity>>

\* dsme_log_set_verbosity()
dsme_log_set_verbosity(v) ==
  /\ main.pc = "idle" /\ v # verbosity
  /\ verbosity' = v
  /\ dsme_log_queue(FALSE)
  /\ UNCHANGED <<worker, rules, cache>>

\* dsme_log_open(): starts the logging thread and, which main() does not look
\* at, fails when there is no log file or no thread.  What it logs itself is a
\* dsme_log() like others.
dsme_log_open ==
  /\ main.pc = "idle" /\ worker.pc = "none" /\ ~failed
  /\ \/ worker' = [worker EXCEPT !.pc = "read"] /\ UNCHANGED failed
     \/ Faults /\ failed' = TRUE /\ UNCHANGED worker
  /\ UNCHANGED <<ringVars, event_fd, thread_enabled, overflow, skipped, main,
                 ruleVars, calls, log, accepted>>

\* dsme_log_close(), which begins with dsme_log_clear_rules().
dsme_log_close ==
  /\ main.pc = "idle" /\ (worker.pc # "none" \/ failed)
  /\ rules' = <<>> /\ cache' = <<>>
  /\ dsme_log_queue(TRUE)
  /\ UNCHANGED <<worker, verbosity>>

\* Mutant: the logging thread is told nothing.
stop_enabled ==
  /\ main.pc = "stop"
  /\ main' = [main EXCEPT !.pc = "join"]
  /\ UNCHANGED <<ringVars, event_fd, thread_enabled, overflow, skipped, worker, ruleVars,
                 calls, log, accepted, failed>>

\* dsme_log_stop(), up to the cancellation
dsme_log_stop ==
  /\ main.pc = "stop"
  /\ thread_enabled' = FALSE
  /\ event_fd' = Closed
  /\ main' = [main EXCEPT !.pc = "join"]
  /\ UNCHANGED <<ringVars, overflow, skipped, worker, ruleVars, calls, log, accepted,
                 failed>>

\* pthread_timedjoin_np(), and the start of the loop that flushes the ring.  The
\* thread has gone, is cancelled where it waits, or is stuck for three seconds.
Join ==
  /\ main.pc = "join"
  /\ \/ worker.pc \in {"none", "exited"} /\ UNCHANGED worker
     \/ worker.pc = "read" /\ worker' = [pc |-> "exited", cnt |-> 0]
     \/ worker.pc \in {"check", "output", "inc", "enabled"} /\ UNCHANGED worker
  /\ main' = [main EXCEPT !.pc = "flush", !.at = read_count]
  /\ UNCHANGED <<ringVars, event_fd, thread_enabled, overflow, skipped, ruleVars, calls,
                 log, accepted, failed>>

\* The rest of dsme_log_close(), an entry at a time.
Flush ==
  /\ main.pc = "flush"
  /\ IF main.at = write_count
     THEN main' = [main EXCEPT !.pc = "done"] /\ UNCHANGED log
     ELSE /\ log' = Append(log, ring_buffer[Slot(main.at)])
          /\ main' = [main EXCEPT !.at = (@ + 1) % COUNT_MODULUS]
  /\ UNCHANGED <<ringVars, event_fd, thread_enabled, overflow, skipped, worker, ruleVars,
                 calls, accepted, failed>>
-----------------------------------------------------------------------------
(***************************************************************************)
(* The logging thread, dsme_log_thread().                                  *)
(***************************************************************************)
mainVars == <<ring_buffer, write_count, overflow, skipped, main, ruleVars, calls, accepted>>

\* It goes, and leaves the logging to the main thread.
WorkerExit(failing) ==
  /\ worker' = [pc |-> "exited", cnt |-> 0]
  /\ thread_enabled' = FALSE
  /\ failed' = (failed \/ failing)

\* read() of the eventfd: all tokens at once.
WorkerRead ==
  /\ worker.pc = "read"
  /\ \/ /\ thread_enabled /\ event_fd > 0
        /\ worker' = [pc |-> "check", cnt |-> event_fd]
        /\ event_fd' = 0
        /\ UNCHANGED <<thread_enabled, failed>>
     \/ /\ thread_enabled /\ Faults
        /\ WorkerExit(TRUE)
        /\ UNCHANGED event_fd
     \/ /\ ~thread_enabled /\ event_fd # 0
        /\ WorkerExit(FALSE)
        /\ UNCHANGED event_fd
  /\ UNCHANGED <<mainVars, read_count, log>>

\* The head of the inner loop.
WorkerCheck ==
  /\ worker.pc = "check"
  /\ IF buffered_count = 0
     THEN WorkerExit(TRUE)
     ELSE worker' = [worker EXCEPT !.pc = "output"] /\ UNCHANGED <<thread_enabled, failed>>
  /\ UNCHANGED <<mainVars, read_count, event_fd, log>>

\* dsme_log_routine()
WorkerOutput ==
  /\ worker.pc = "output"
  /\ log' = Append(log, ring_buffer[Slot(read_count)])
  /\ worker' = [worker EXCEPT !.pc = "inc"]
  /\ UNCHANGED <<mainVars, read_count, event_fd, thread_enabled, failed>>

read_count_inc ==
  /\ worker.pc = "inc"
  /\ read_count' = (read_count + 1) % COUNT_MODULUS
  /\ worker' = [pc |-> "enabled", cnt |-> worker.cnt - 1]
  /\ UNCHANGED <<mainVars, event_fd, thread_enabled, failed, log>>

WorkerEnabled ==
  /\ worker.pc = "enabled"
  /\ IF thread_enabled
     THEN /\ worker' = [worker EXCEPT !.pc = IF worker.cnt = 0 THEN "read" ELSE "check"]
          /\ UNCHANGED <<thread_enabled, failed>>
     ELSE WorkerExit(FALSE)
  /\ UNCHANGED <<mainVars, read_count, event_fd, log>>
-----------------------------------------------------------------------------
Init ==
  /\ ring_buffer = [i \in 0 .. ENTRY_COUNT - 1 |-> Blank]
  /\ write_count = 0 /\ read_count = 0
  /\ event_fd = 0 \* dsme_log_init()
  /\ thread_enabled = TRUE
  /\ overflow = FALSE /\ skipped = 0
  /\ main = [pc |-> "idle", todo |-> <<>>, at |-> 0, closing |-> FALSE]
  /\ worker = [pc |-> "none", cnt |-> 0]
  /\ rules = <<>> /\ cache = <<>> /\ verbosity \in Prios
  /\ calls = 0 /\ log = <<>> /\ accepted = <<>> /\ failed = FALSE

WorkerNext == WorkerRead \/ WorkerCheck \/ WorkerOutput \/ read_count_inc \/ WorkerEnabled

MainNext ==
  \/ \E c \in Callers, prio \in Prios : dsme_log(c, prio)
  \/ \E p \in Patterns, s \in {"included", "excluded"} : AddRule(p, s)
  \/ dsme_log_clear_rules
  \/ \E v \in Prios : dsme_log_set_verbosity(v)
  \/ dsme_log_open
  \/ dsme_log_close
  \/ log_entry_format \/ write_count_inc \/ dsme_log_notify_worker
  \/ dsme_log_stop \/ Join \/ Flush

Next == MainNext \/ WorkerNext

\* Both threads are scheduled: main() goes on to open the log, and the backend
\* returns sooner or later.
Spec == Init /\ [][Next]_vars /\ WF_vars(WorkerNext) /\ WF_vars(dsme_log_open)
             /\ WF_vars(log_entry_format \/ write_count_inc \/ dsme_log_notify_worker)
-----------------------------------------------------------------------------
(***************************************************************************)
(* Properties.                                                             *)
(***************************************************************************)
\* What the worker has written but not given back is no longer in the channel.
Written == IF worker.pc = "inc" THEN 1 ELSE 0

Channel == INSTANCE LogChannel WITH
  Capacity <- ENTRY_COUNT,
  LowMark <- LOW_MARK,
  up <- thread_enabled /\ ~failed,
  queue <- IF thread_enabled /\ ~failed
           THEN [i \in 1 .. buffered_count - Written |->
                   ring_buffer[Slot(read_count + Written + i - 1)]]
           ELSE <<>>,
  out <- log,
  unreported <- IF main.todo # <<>> /\ Head(main.todo).kind = "lost" /\ main.pc # "notify"
                THEN Head(main.todo).n ELSE skipped

\* logging.c, dsme_log_queue() and dsme_log_thread(): without a lock, the ring
\* buffer is a bounded first-in first-out channel; what is put into it is
\* written out, in order and once, losses are counted and reported, and the
\* thread sleeps on no entry.
ImplementsChannel == Channel!Spec

\* logging.c, dsme_log_queue(): the main thread never formats an entry into the
\* slot that the logging thread is writing out, overflow entry included.
NoTornEntry ==
  ~ /\ main.pc = "format"
    /\ buffered_count >= ENTRY_COUNT

\* logging.c, dsme_log_stop(): "the worst thing that can happen is that one of
\* the queued messages gets output from both worker thread and the main thread
\* when the remaining queue is flushed": when dsme_log_close() is done, and the
\* thread has not failed before, all that was queued is in the log, and at most
\* one entry is there twice.
FlushedOnClose ==
  main.pc = "done" /\ ~failed =>
    /\ Range(accepted) \subseteq Range(log)
    /\ Len(log) <= Len(accepted) + 1
=============================================================================
