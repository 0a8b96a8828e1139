---------------------------- MODULE DbusManager -----------------------------
(***************************************************************************)
(* The system bus connection of dsme: dbusautoconnector.c watches for the  *)
(* socket of dbus-daemon and asks for a connection until there is one,     *)
(* dbusproxy.c passes that on, and the manager of dsme_dbus.c connects,    *)
(* and keeps the match rules and service names on the bus in step with     *)
(* what the plug-ins bind, over every connection.                          *)
(*                                                                         *)
(* What goes over the connection is in modules DbusProxy, Battery and      *)
(* UsbTracker.  A plug-in binds one array of signals and one interface,    *)
(* all of one service.                                                     *)
(***************************************************************************)
EXTENDS Integers, Sequences

CONSTANTS
  Plugins,      \* those that bind
  DbusEvents    \* bound: what happens outside the module

VARIABLES
  queue,        \* messages between the plug-ins, as in module PowerControl
  watch,        \* systembus_watcher: "off", "on", "failed"
  bus_state,    \* systembus_state
  timer,        \* connect_timer_id
  manager,      \* the_manager: "none", "enabled", "terminated"
  conn,         \* mr_connection: "none", "open", "closed" (by dbus-daemon)
  bound,        \* the plug-ins whose bindings are bound, by their own flag
  handlers,     \* mr_handlers
  matches,      \* mr_matches
  members,      \* the interfaces below the service in mr_services
  service,      \* [se_requested, se_acquired]
  loaded,       \* the plug-ins that are
  rules, name,  \* external: what dbus-daemon has of us
  daemon,       \* external: [socket, accepts]
  inotify,      \* external: an event of the directory has not been read
  rebooting,    \* REBOOT_REQ has been sent
  undone,       \* history: dsmetool disconnected, or a timer or a watch failed
  events

vars == <<queue, watch, bus_state, timer, manager, conn, bound, handlers, matches, members,
          service, loaded, rules, name, daemon, inotify, rebooting, undone, events>>
bus == <<rules, name, daemon, inotify>>
bindings == <<bound, handlers, matches, members, service, loaded, rules, name>>

Event == events < DbusEvents /\ events' = events + 1
Started == manager # "none" /\ bus_state # "UNKNOWN"

\* The main loop runs, and no message is left.
Idle == Started /\ queue = <<>>

Unowned == [se_requested |-> FALSE, se_acquired |-> FALSE]
-----------------------------------------------------------------------------
(***************************************************************************)
(* dbusautoconnector.c                                                     *)
(***************************************************************************)
connect_request == Append(queue, "CONNECT")

\* connect_timer_start(): the timer may not be had.
connect_timer_start ==
  IF timer THEN UNCHANGED <<timer, queue, undone>>
  ELSE \/ timer' = TRUE /\ queue' = connect_request /\ UNCHANGED undone
       \/ timer' = FALSE /\ queue' = connect_request /\ undone' = TRUE

\* Mutant: the timer is not repeated.
connect_timer_cb_once ==
  /\ timer /\ Idle
  /\ queue' = connect_request
  /\ timer' = FALSE
  /\ UNCHANGED <<watch, bus_state, manager, conn, bindings, daemon, inotify, rebooting,
                 undone, events>>

\* connect_timer_cb()
connect_timer_cb ==
  /\ timer /\ Idle
  /\ queue' = connect_request
  /\ UNCHANGED <<watch, bus_state, timer, manager, conn, bindings, daemon, inotify,
                 rebooting, undone, events>>

\* systembus_state_update()
systembus_state_update ==
  LET new == IF daemon.socket THEN "PRESENT" ELSE "MISSING" IN
  /\ bus_state' = new
  /\ CASE new = bus_state -> UNCHANGED <<timer, queue, undone>>
       [] new # bus_state /\ new = "PRESENT" -> connect_timer_start
       [] new # bus_state /\ new = "MISSING" -> timer' = FALSE /\ UNCHANGED <<queue, undone>>

\* systembus_watcher_cb(): on an error the watch is stopped for good.
systembus_watcher_cb ==
  /\ watch = "on" /\ inotify /\ Idle
  /\ inotify' = FALSE
  /\ \/ systembus_state_update /\ UNCHANGED <<watch, events>>
     \/ watch' = "failed" /\ undone' = TRUE /\ Event /\ UNCHANGED <<bus_state, timer, queue>>
  /\ UNCHANGED <<manager, conn, bindings, daemon, rebooting>>

\* module_init(): first systembus_watcher_start(), so that no change is missed.
autoconnector_init ==
  /\ watch = "off" /\ bus_state = "UNKNOWN"
  /\ \/ watch' = "on" /\ UNCHANGED <<undone, events>>
     \/ watch' = "failed" /\ undone' = TRUE /\ Event
  /\ UNCHANGED <<queue, bus_state, timer, manager, conn, bindings, daemon, inotify,
                 rebooting>>

\* module_init(): then the first look.
autoconnector_init_state ==
  /\ watch # "off" /\ bus_state = "UNKNOWN"
  /\ systembus_state_update
  /\ UNCHANGED <<watch, manager, conn, bindings, daemon, inotify, rebooting, events>>

\* module_fini()
autoconnector_fini ==
  /\ watch # "off" /\ Idle /\ Event
  /\ watch' = "off" /\ timer' = FALSE /\ undone' = TRUE
  /\ UNCHANGED <<queue, bus_state, manager, conn, bindings, daemon, inotify, rebooting>>
-----------------------------------------------------------------------------
(***************************************************************************)
(* dsme_dbus.c                                                             *)
(***************************************************************************)
Open == conn = "open"

\* manager_add_matches_one(), with the connection c, for those of P that have no
\* rule yet.
manager_add_matches(P, c) ==
  IF c # "open" THEN UNCHANGED <<matches, rules>>
  ELSE matches' = matches \union P /\ rules' = rules \union (P \ matches)

\* Mutant: without an open connection the rule is kept.
manager_rem_matches_open(P) ==
  /\ matches' = IF Open THEN matches \ P ELSE matches
  /\ rules' = IF Open THEN rules \ P ELSE rules

\* manager_rem_matches_one(): the rule is forgotten without a connection too.
manager_rem_matches(P) ==
  /\ matches' = matches \ P
  /\ rules' = IF Open THEN rules \ P ELSE rules

\* service_acquire_name(): asked for once a connection; somebody else may have it.
service_acquire_name(c) ==
  IF c # "open" \/ service.se_requested THEN UNCHANGED <<service, name, events>>
  ELSE \/ /\ service' = [se_requested |-> TRUE, se_acquired |-> TRUE]
          /\ name' = TRUE
          /\ UNCHANGED events
       \/ /\ service' = [se_requested |-> TRUE, se_acquired |-> FALSE]
          /\ Event
          /\ UNCHANGED name

\* service_release_name()
service_release_name ==
  /\ service' = Unowned
  /\ name' = IF Open /\ service.se_acquired THEN FALSE ELSE name

\* manager_connect(), dsme_dbus_connect(): a connection that dbus-daemon closed still
\* counts as one, and CONNECTED is sent again.
dsme_dbus_connect ==
  LET new == IF conn = "none" /\ daemon.accepts THEN "open" ELSE conn IN
  /\ conn' = IF manager = "enabled" THEN new ELSE conn
  /\ queue' = IF manager = "enabled" /\ new # "none" THEN Append(Tail(queue), "CONNECTED")
              ELSE Tail(queue)
  /\ IF manager = "enabled" /\ conn = "none" /\ new = "open"
     THEN /\ manager_add_matches(handlers, new)
          /\ IF members = {} THEN UNCHANGED <<service, name, events>>
             ELSE service_acquire_name(new)
     ELSE UNCHANGED <<matches, rules, service, name, events>>
  /\ UNCHANGED <<bound, handlers, members, loaded, timer>>

\* manager_disconnect(): rules and names are given back, then the connection goes.
manager_disconnect ==
  IF conn = "none" THEN UNCHANGED <<conn, matches, rules, service, name>>
  ELSE /\ conn' = "none"
       /\ manager_rem_matches(handlers)
       /\ IF members = {} THEN UNCHANGED <<service, name>> ELSE service_release_name

\* dsme_dbus_bind_signals(), dsme_dbus_bind_methods(), from the CONNECTED handlers
\* of the plug-ins: nothing for those that are bound already.
BindAll ==
  LET P == loaded \ bound IN
  IF manager # "enabled" \/ P = {} THEN UNCHANGED <<bindings, events>>
  ELSE /\ bound' = bound \union P
       /\ handlers' = handlers \union P /\ manager_add_matches(P, conn)
       /\ members' = members \union P
       /\ IF members = {} THEN service_acquire_name(conn)
          ELSE UNCHANGED <<service, name, events>>
       /\ UNCHANGED loaded

\* dsme_dbus_unbind_signals(), dsme_dbus_unbind_methods(), from module_fini(): the
\* last interface of a service takes the service along.
Unload(p) ==
  /\ p \in loaded /\ Idle /\ Event
  /\ loaded' = loaded \ {p} /\ bound' = bound \ {p}
  /\ IF p \in bound /\ manager = "enabled"
     THEN /\ handlers' = handlers \ {p} /\ manager_rem_matches({p})
          /\ members' = members \ {p}
          /\ IF members = {p} THEN service_release_name ELSE UNCHANGED <<service, name>>
     ELSE UNCHANGED <<handlers, members, matches, rules, service, name>>
  /\ UNCHANGED <<queue, watch, bus_state, timer, manager, conn, daemon, inotify, rebooting,
                 undone>>

\* The next message: dbusproxy.c, dbusautoconnector.c and the plug-ins.
Handle ==
  /\ Started /\ queue # <<>>
  /\ \/ Head(queue) = "CONNECT" /\ dsme_dbus_connect
     \/ /\ Head(queue) = "CONNECTED"
        /\ queue' = Tail(queue) /\ timer' = FALSE
        /\ BindAll /\ UNCHANGED conn
     \/ /\ Head(queue) = "DISCONNECT"
        /\ queue' = Tail(queue) /\ timer' = FALSE
        /\ IF manager = "enabled" THEN manager_disconnect
           ELSE UNCHANGED <<conn, matches, rules, service, name>>
        /\ UNCHANGED <<bound, handlers, members, loaded, events>>
  /\ UNCHANGED <<watch, bus_state, manager, daemon, inotify, rebooting, undone>>

\* manager_message_filter_cb(): the signal Disconnected asks for a reboot.
Disconnected ==
  /\ conn = "closed" /\ ~rebooting /\ Idle
  /\ rebooting' = TRUE
  /\ UNCHANGED <<queue, watch, bus_state, timer, manager, conn, bindings, daemon, inotify,
                 undone, events>>

\* dsme_dbus_startup()
dsme_dbus_startup ==
  /\ manager = "none"
  /\ manager' = "enabled"
  /\ UNCHANGED <<queue, watch, bus_state, timer, conn, bindings, daemon, inotify, rebooting,
                 undone, events>>

\* dsme_dbus_shutdown(), manager_delete(): what plug-ins did not unbind goes too.
dsme_dbus_shutdown ==
  /\ manager = "enabled" /\ Idle /\ Event
  /\ manager' = "terminated" /\ undone' = TRUE
  /\ conn' = "none"
  /\ handlers' = {} /\ members' = {} /\ matches' = {} /\ rules' = {}
  /\ service' = Unowned /\ name' = FALSE
  /\ UNCHANGED <<queue, watch, bus_state, timer, bound, loaded, daemon, inotify, rebooting>>
-----------------------------------------------------------------------------
(***************************************************************************)
(* dbus-daemon and dsmetool.                                               *)
(***************************************************************************)
\* The socket is there before connections are accepted.
DaemonStarts ==
  /\ ~daemon.socket /\ Event
  /\ daemon' = [daemon EXCEPT !.socket = TRUE]
  /\ inotify' = (watch = "on")
  /\ UNCHANGED <<queue, watch, bus_state, timer, manager, conn, bindings, rebooting, undone>>

DaemonAccepts ==
  /\ daemon.socket /\ ~daemon.accepts
  /\ daemon' = [daemon EXCEPT !.accepts = TRUE]
  /\ UNCHANGED <<queue, watch, bus_state, timer, manager, conn, bindings, inotify, rebooting,
                 undone, events>>

DaemonDies ==
  /\ daemon.socket /\ Event
  /\ daemon' = [socket |-> FALSE, accepts |-> FALSE]
  /\ inotify' = (watch = "on")
  /\ conn' = IF Open THEN "closed" ELSE conn
  /\ rules' = {} /\ name' = FALSE
  /\ UNCHANGED <<queue, watch, bus_state, timer, manager, bound, handlers, matches, members,
                 service, loaded, rebooting, undone>>

\* dsmetool sends DBUS_CONNECT and DBUS_DISCONNECT.
dsmetool(m) ==
  /\ Idle /\ Event
  /\ queue' = <<m>>
  /\ undone' = (undone \/ m = "DISCONNECT")
  /\ UNCHANGED <<watch, bus_state, timer, manager, conn, bindings, daemon, inotify,
                 rebooting>>
-----------------------------------------------------------------------------
Init ==
  /\ queue = <<>> /\ watch = "off" /\ bus_state = "UNKNOWN" /\ timer = FALSE
  /\ manager = "none" /\ conn = "none"
  /\ bound = {} /\ handlers = {} /\ matches = {} /\ members = {} /\ service = Unowned
  /\ loaded = Plugins
  /\ rules = {} /\ name = FALSE
  /\ daemon \in {[socket |-> FALSE, accepts |-> FALSE], [socket |-> TRUE, accepts |-> TRUE]}
  /\ inotify = FALSE /\ rebooting = FALSE /\ undone = FALSE /\ events = 0

Next ==
  \/ Handle \/ connect_timer_cb \/ systembus_watcher_cb
  \/ autoconnector_init \/ autoconnector_init_state \/ autoconnector_fini
  \/ \E p \in Plugins : Unload(p)
  \/ Disconnected \/ dsme_dbus_startup \/ dsme_dbus_shutdown
  \/ DaemonStarts \/ DaemonAccepts \/ DaemonDies
  \/ \E m \in {"CONNECT", "DISCONNECT"} : dsmetool(m)

\* The main loop handles what is queued and runs what is due.
Fairness ==
  /\ WF_vars(Handle) /\ WF_vars(connect_timer_cb) /\ WF_vars(systembus_watcher_cb)
  /\ WF_vars(autoconnector_init) /\ WF_vars(autoconnector_init_state)
  /\ WF_vars(dsme_dbus_startup)

Spec == Init /\ [][Next]_vars /\ Fairness
-----------------------------------------------------------------------------
(***************************************************************************)
(* Properties.                                                             *)
(***************************************************************************)
\* On an open connection dbus-daemon has exactly the match rules of the bound signal
\* handlers and, unless somebody else has it, the name of a service with methods:
\* the plug-ins do not bind again after the first connection, so that every later
\* one must get all of it from the manager.  No handler is one of an unloaded plug-in.
BusInStep ==
  /\ Open => /\ rules = handlers
             /\ name = service.se_acquired
             /\ service.se_requested = (members # {})
  /\ handlers \union members \subseteq loaded

\* When dbus-daemon is there to stay, dsme gets to be connected, whenever the socket
\* appears relative to the start of the plug-ins and however long dbus-daemon takes
\* to accept connections.  Left out: dsmetool disconnected, a watch or a timer could
\* not be had, and a lost connection, after which dsme asks for a reboot (state.c
\* refuses it while shutdown is blocked) and does not connect by itself.
BusReached ==
  <>[](daemon.accepts /\ ~undone /\ ~rebooting) => <>(Open \/ conn = "closed")
=============================================================================
