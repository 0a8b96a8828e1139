----------------------------- MODULE ProcessWd -----------------------------
(***************************************************************************)
(* The process watchdog (modules/processwd.c) and the way its clients      *)
(* reach it: the client sockets of dsme/dsmesock.c, read by                *)
(* dsme/dsme-server.c, and the dsme message queue.                         *)
(*                                                                         *)
(* A client registers itself, answers pings or not, and may exit at any    *)
(* time; a process is identified with its pid and its connection.          *)
(***************************************************************************)
EXTENDS Naturals, Sequences

CONSTANTS
  Process,        \* client processes
  MAXPING,
  MaxUnread,      \* bound on the messages a client has written, unread
  MaxQueue,       \* bound on the dsme message queue
  TimerMayFail    \* may the creation of a kill timer fail?

ASSUME ProcessWdAssumption ==
  /\ MAXPING \in Nat \ {0}
  /\ MaxUnread \in Nat
  /\ MaxQueue \in Nat
  /\ TimerMayFail \in BOOLEAN

VARIABLES
  living,       \* processes that run
  silent,       \* processes that do not write anything any more
  unread,       \* what a client wrote and dsme has not read
  clients,      \* dsmesock.c: the open connections
  queue,        \* the dsme message queue
  subscribed,   \* a WAIT to iphb is outstanding: a WAKEUP will come
  processes,    \* the registered processes
  pingcount,
  kill_timer,   \* the processes with a running kill timer
  loaded,       \* processwd.so is loaded
  pinged,       \* pings a client has not seen
  signals,      \* the signals the last step sent
  unanswered    \* history: pings sent since the last PONG or CREATE handled

sockets == <<living, unread, clients>>

table == <<processes, pingcount, kill_timer, pinged, unanswered>>

pvars == <<sockets, silent, queue, subscribed, table, loaded, signals>>

Type == {"PROCESSWD_CREATE", "PROCESSWD_PONG", "PROCESSWD_DELETE"}

\* WAKEUP is addressed to processwd and carries no process.
Message == [type : Type \cup {"CLOSE"}, from : Process] \cup [type : {"WAKEUP"}]

PInit ==
  /\ living = Process
  /\ silent = {}
  /\ unread = [p \in Process |-> << >>]
  /\ clients = Process
  /\ queue = << >>
  /\ subscribed = TRUE
  /\ processes = {}
  /\ pingcount = [p \in Process |-> 0]
  /\ kill_timer = {}
  /\ loaded = TRUE
  /\ pinged = {}
  /\ signals = {}
  /\ unanswered = [p \in Process |-> 0]

\* kill(): a process that got SIGKILL runs no more, though it may take to exit.
kill(aborts, kills) ==
  /\ signals' = {<<"SIGABRT", p>> : p \in aborts} \cup {<<"SIGKILL", p>> : p \in kills}
  /\ silent' = silent \cup kills
-----------------------------------------------------------------------------
(***************************************************************************)
(* Clients.                                                                *)
(***************************************************************************)
Write(p, type) ==
  /\ p \in living \ silent
  /\ Len(unread[p]) < MaxUnread
  /\ unread' = [unread EXCEPT ![p] = Append(@, type)]
  /\ signals' = {}
  /\ UNCHANGED <<living, silent, clients, queue, subscribed, processes, pingcount,
                 kill_timer, loaded, unanswered>>

\* A client registers or unregisters itself.
ClientSends(p, type) ==
  /\ Write(p, type)
  /\ UNCHANGED pinged

ClientAnswers(p) ==
  /\ p \in pinged
  /\ Write(p, "PROCESSWD_PONG")
  /\ pinged' = pinged \ {p}

ClientHangs(p) ==
  /\ p \in living
  /\ silent' = silent \cup {p}
  /\ signals' = {}
  /\ UNCHANGED <<sockets, queue, subscribed, table, loaded>>

\* The process ends, of itself or by a signal; its socket hangs up.
ClientExits(p) ==
  /\ p \in living
  /\ living' = living \ {p}
  /\ signals' = {}
  /\ UNCHANGED <<silent, unread, clients, queue, subscribed, table, loaded>>
-----------------------------------------------------------------------------
(***************************************************************************)
(* dsmesock.c, handle_client(): one message is read and queued; at the end *)
(* of the stream that is CLOSE.  If the peer has hung up the connection is *)
(* closed, whatever has been read.                                         *)
(***************************************************************************)
handle_client(p) ==
  /\ loaded
  /\ p \in clients
  /\ Len(queue) < MaxQueue
  /\ unread[p] # << >> \/ p \notin living
  /\ IF unread[p] # << >>
     THEN /\ queue' = Append(queue, [type |-> Head(unread[p]), from |-> p])
          /\ unread' = [unread EXCEPT ![p] = IF p \in living THEN Tail(@) ELSE << >>]
     ELSE /\ queue' = Append(queue, [type |-> "CLOSE", from |-> p])
          /\ UNCHANGED unread
  /\ clients' = IF p \in living THEN clients ELSE clients \ {p}
  /\ signals' = {}
  /\ UNCHANGED <<living, silent, subscribed, table, loaded>>

\* iphb.c wakes processwd up, once for every WAIT.
iphb_wakeup ==
  /\ loaded
  /\ subscribed
  /\ Len(queue) < MaxQueue
  /\ subscribed' = FALSE
  /\ queue' = Append(queue, [type |-> "WAKEUP"])
  /\ signals' = {}
  /\ UNCHANGED <<sockets, silent, table, loaded>>
-----------------------------------------------------------------------------
(***************************************************************************)
(* Handlers of processwd.c.                                                *)
(***************************************************************************)
\* Mutant: a process that was aborted gets away.
swwd_entry_delete_spares(ps, kills) ==
  /\ processes' = processes \ ps
  /\ kill_timer' = kill_timer \ ps
  /\ kill({}, kills)

\* swwd_entry_delete() for ps: the timer goes, and so does a process it runs for.
swwd_entry_delete(ps, kills) ==
  /\ processes' = processes \ ps
  /\ kill_timer' = kill_timer \ ps
  /\ kill({}, kills \cup (ps \cap kill_timer))

Handling(type) ==
  /\ loaded
  /\ queue # << >>
  /\ Head(queue).type = type
  /\ queue' = Tail(queue)
  /\ UNCHANGED <<sockets, loaded>>

\* ping_all(): fails is the set of processes whose kill timer is not created.
ping_all(fails) ==
  LET count == [p \in Process |-> IF p \in processes THEN pingcount[p] + 1
                                  ELSE pingcount[p]]
      over  == {p \in processes : count[p] = MAXPING}
      abort == over \ kill_timer
      gone  == abort \cap fails
  IN /\ pingcount' = count
     /\ kill(abort, gone)
     /\ processes' = processes \ gone
     /\ kill_timer' = kill_timer \cup (abort \ gone)
     /\ pinged' = pinged \cup (processes \ over)
     /\ unanswered' = [p \in Process |-> IF p \in processes \ over
                                         THEN unanswered[p] + 1 ELSE unanswered[p]]

\* Mutant: processwd does not ask to be woken up again.
WAKEUP_once(fails) ==
  /\ Handling("WAKEUP")
  /\ \A p \in processes : pingcount[p] <= MAXPING
  /\ ping_all(fails)
  /\ UNCHANGED subscribed

\* Named bound: a count above MAXPING only repeats itself.
WAKEUP(fails) ==
  /\ Handling("WAKEUP")
  /\ \A p \in processes : pingcount[p] <= MAXPING
  /\ ping_all(fails)
  /\ subscribed' = TRUE

PROCESSWD_CREATE ==
  /\ Handling("PROCESSWD_CREATE")
  /\ LET p == Head(queue).from IN
     IF p \in processes
     THEN UNCHANGED <<processes, pingcount, unanswered>>
     ELSE /\ processes' = processes \cup {p}
          /\ pingcount' = [pingcount EXCEPT ![p] = 0]
          /\ unanswered' = [unanswered EXCEPT ![p] = 0]
  /\ kill({}, {})
  /\ UNCHANGED <<subscribed, kill_timer, pinged>>

\* PROCESSWD_PONG with another effect on the ping count.
PongWith(count) ==
  /\ Handling("PROCESSWD_PONG")
  /\ LET p == Head(queue).from IN
     IF p \in processes
     THEN /\ pingcount' = count
          /\ unanswered' = [unanswered EXCEPT ![p] = 0]
     ELSE UNCHANGED <<pingcount, unanswered>>
  /\ kill({}, {})
  /\ UNCHANGED <<subscribed, processes, kill_timer, pinged>>

\* Mutant: a pong is only logged.
PROCESSWD_PONG_ignored == PongWith(pingcount)

PROCESSWD_PONG ==
  /\ Handling("PROCESSWD_PONG")
  /\ LET p == Head(queue).from IN
     IF p \in processes
     THEN /\ pingcount' = [pingcount EXCEPT ![p] = 0]
          /\ unanswered' = [unanswered EXCEPT ![p] = 0]
     ELSE UNCHANGED <<pingcount, unanswered>>
  /\ kill({}, {})
  /\ UNCHANGED <<subscribed, processes, kill_timer, pinged>>

PROCESSWD_DELETE ==
  /\ Handling("PROCESSWD_DELETE")
  /\ swwd_entry_delete({Head(queue).from} \cap processes, {})
  /\ UNCHANGED <<subscribed, pingcount, pinged, unanswered>>

\* The socket was closed: kill the process and forget it.
CLOSE ==
  /\ Handling("CLOSE")
  /\ LET ps == {Head(queue).from} \cap processes IN swwd_entry_delete(ps, ps)
  /\ UNCHANGED <<subscribed, pingcount, pinged, unanswered>>

\* The grace period after SIGABRT is over; the pid is looked up again.
abort_timeout_func(p) ==
  /\ loaded
  /\ p \in kill_timer
  /\ kill_timer' = kill_timer \ {p}
  /\ processes' = processes \ {p}
  /\ kill({}, {p} \cap processes)
  /\ UNCHANGED <<sockets, queue, subscribed, pingcount, pinged, loaded, unanswered>>

\* dsme unloads its plugins when it has handled what was queued.
module_fini ==
  /\ loaded
  /\ queue = << >>
  /\ loaded' = FALSE
  /\ swwd_entry_delete(processes, {})
  /\ UNCHANGED <<sockets, queue, subscribed, pingcount, pinged, unanswered>>

Fails == IF TimerMayFail THEN SUBSET Process ELSE {{}}

Handle ==
  \/ \E fails \in Fails : WAKEUP(fails)
  \/ PROCESSWD_CREATE \/ PROCESSWD_PONG \/ PROCESSWD_DELETE \/ CLOSE

PNext ==
  \/ \E p \in Process :
       \/ \E type \in {"PROCESSWD_CREATE", "PROCESSWD_DELETE"} : ClientSends(p, type)
       \/ ClientAnswers(p) \/ ClientHangs(p) \/ ClientExits(p)
       \/ handle_client(p)
       \/ abort_timeout_func(p)
  \/ iphb_wakeup
  \/ Handle
  \/ module_fini

PSpec == PInit /\ [][PNext]_pvars

(***************************************************************************)
(* The main loop serves its queue and its timers.  Its queue is not        *)
(* bounded, as it is here, so that no client can keep iphb from waking     *)
(* processwd up.  Nothing is assumed of clients.                           *)
(***************************************************************************)
PFairness ==
  /\ WF_pvars(Handle)
  /\ SF_pvars(iphb_wakeup)
  /\ \A p \in Process : WF_pvars(abort_timeout_func(p))

PFairSpec == PSpec /\ PFairness
-----------------------------------------------------------------------------
\* The table of processes, the sockets and the queue.
PTypeOK ==
  /\ living \subseteq Process /\ silent \subseteq Process
  /\ unread \in [Process -> Seq(Type)]
  /\ clients \subseteq Process
  /\ queue \in Seq(Message)
  /\ subscribed \in BOOLEAN /\ loaded \in BOOLEAN
  /\ processes \subseteq Process
  /\ pingcount \in [Process -> 0..(MAXPING + 1)]
  /\ kill_timer \subseteq Process /\ pinged \subseteq Process
  /\ signals \subseteq {"SIGABRT", "SIGKILL"} \X Process
  /\ unanswered \in [Process -> Nat]

(***************************************************************************)
(* A process that got SIGABRT leaves the table only together with SIGKILL, *)
(* whether its grace period ends, it unregisters, its socket closes or     *)
(* processwd is unloaded: it cannot escape by catching SIGABRT.            *)
(***************************************************************************)
NoEscapeAfterAbort ==
  [][\A p \in kill_timer : p \in kill_timer' \/ <<"SIGKILL", p>> \in signals']_pvars

(***************************************************************************)
(* Only a process that left MAXPING - 1 pings in a row unanswered, as far  *)
(* as its answers were handled, is aborted.                                *)
(***************************************************************************)
AbortOnlyUnresponsive ==
  [][\A p \in Process :
       <<"SIGABRT", p>> \in signals' => unanswered[p] >= MAXPING - 1]_pvars

(***************************************************************************)
(* A registered process that stops answering is removed in the end, by     *)
(* SIGKILL or by a request of its own that was already on its way.         *)
(***************************************************************************)
HungProcessRemoved ==
  \A p \in Process : (p \in processes /\ p \in silent) ~> (p \notin processes)
=============================================================================
