----------------------------- MODULE UsbTracker -----------------------------
(***************************************************************************)
(* The USB tracker, modules/usbtracker.c: follows usb_moded over D-Bus and *)
(* tells state.c whether the device is mounted to a PC, which must not see *)
(* a shutdown.  A usb_moded that is not there, or gone, is waited for half *)
(* a minute before the device is taken for not mounted.                    *)
(*                                                                         *)
(* As in module Battery, what usb_moded and the bus daemon send arrives in *)
(* the order it was sent; here calls are never cancelled.                  *)
(***************************************************************************)
EXTENDS Integers, Sequences

CONSTANTS
  Modes,      \* the modes usb_moded may report, see mode_attrs
  UsbEvents   \* bound: what happens outside the module

VARIABLES
  up,          \* usbtracker.so is loaded
  systembus,
  prev,        \* xusbmoded_set_runstate(): usb_moded is running
  waiting,     \* wait_for_usb_moded_id
  mounted,     \* send_usb_status(): what was sent last, "unset" at first
  inbox,       \* messages to dsme
  calls,       \* [mode, owner]: calls under way
  usb_moded,   \* external: [on, mode]
  failed,      \* history: the last query failed after it last changed its mode
  unseen,      \* history: prev is not what the bus says and will say, see below
  events

vars == <<up, systembus, prev, waiting, mounted, inbox, calls, usb_moded, failed, unseen,
          events>>

Event == events < UsbEvents /\ events' = events + 1
-----------------------------------------------------------------------------
\* evaluate_status(): an unknown mode is charging at most; no mode is nothing.
\* (Whether it charges is evaluated, and not used.)
evaluate_status(mode) == mode \in {"mass_storage", "data_in_use"}

\* update_status(): ends the wait and sends what is new.
update_status(mode) ==
  /\ waiting' = FALSE
  /\ mounted' = IF evaluate_status(mode) THEN "mounted" ELSE "not mounted"

\* wait_for_usb_moded_cb()
wait_for_usb_moded_cb ==
  /\ up /\ waiting
  /\ update_status("none")
  /\ UNCHANGED <<up, systembus, prev, inbox, calls, usb_moded, failed, unseen, events>>

\* Mutant: an usb_moded that is back is not asked.
set_runstate_silent(running) ==
  /\ prev' = running
  /\ unseen' = (unseen /\ running = prev)
  /\ waiting' = IF running = prev THEN waiting ELSE ~running
  /\ UNCHANGED calls

\* Mutant: an usb_moded that is gone is not missed.
set_runstate_trusting(running) ==
  /\ prev' = running
  /\ unseen' = (unseen /\ running = prev)
  /\ waiting' = FALSE
  /\ calls' = IF running /\ ~prev THEN [calls EXCEPT !.mode = TRUE] ELSE calls

\* xusbmoded_set_runstate(): asks an usb_moded that is there for its mode
\* (xusbmoded_query_mode_async()), and waits for one that is gone.
xusbmoded_set_runstate(running) ==
  /\ prev' = running
  /\ unseen' = (unseen /\ running = prev)
  /\ waiting' = IF running = prev THEN waiting ELSE ~running
  /\ calls' = IF running /\ ~prev THEN [calls EXCEPT !.mode = TRUE] ELSE calls

\* xusbmoded_mode_changed_cb()
xusbmoded_mode_changed_cb(m) ==
  /\ update_status(m.mode)
  /\ unseen' = (unseen \/ ~prev)
  /\ UNCHANGED <<prev, calls>>

\* xusbmoded_query_mode_cb(): an error counts as no mode.
xusbmoded_query_mode_cb(m) ==
  /\ update_status(m.mode)
  /\ UNCHANGED <<prev, calls, unseen>>

\* xusbmoded_dbus_filter_cb(), xusbmoded_query_owner_cb()
xusbmoded_query_owner_cb(m) ==
  /\ xusbmoded_set_runstate(m.running)
  /\ UNCHANGED mounted

\* The next message of the connection.
Receive ==
  /\ up /\ systembus /\ inbox # <<>>
  /\ inbox' = Tail(inbox)
  /\ LET m == Head(inbox) IN
     \/ m.type = "signal" /\ xusbmoded_mode_changed_cb(m)
     \/ m.type = "mode" /\ xusbmoded_query_mode_cb(m)
     \/ m.type = "owner" /\ xusbmoded_query_owner_cb(m)
  /\ UNCHANGED <<up, systembus, usb_moded, failed, events>>

\* DSM_MSGTYPE_DBUS_CONNECTED: xusbmoded_init_tracking()
DBUS_CONNECTED ==
  /\ up /\ ~systembus /\ Event
  /\ systembus' = TRUE
  /\ calls' = [calls EXCEPT !.owner = TRUE]
  /\ UNCHANGED <<up, prev, waiting, mounted, inbox, usb_moded, failed, unseen>>

\* DSM_MSGTYPE_DBUS_DISCONNECT: systembus_disconnect().  The replies that have not
\* been read go with the connection; prev stays.
DBUS_DISCONNECT ==
  /\ up /\ systembus /\ Event
  /\ systembus' = FALSE
  /\ calls' = [mode |-> FALSE, owner |-> FALSE]
  /\ inbox' = <<>>
  /\ unseen' = (unseen \/ prev)
  /\ UNCHANGED <<up, prev, waiting, mounted, usb_moded, failed>>

\* module_init(): starts to wait.
module_init ==
  /\ ~up
  /\ up' = TRUE
  /\ waiting' = TRUE
  /\ UNCHANGED <<systembus, prev, mounted, inbox, calls, usb_moded, failed, unseen, events>>

\* module_fini(), and the end of the process.
module_fini ==
  /\ up /\ Event
  /\ up' = FALSE /\ systembus' = FALSE /\ prev' = FALSE /\ waiting' = FALSE
  /\ mounted' = "unset" /\ inbox' = <<>>
  /\ calls' = [mode |-> FALSE, owner |-> FALSE]
  /\ unseen' = FALSE
  /\ UNCHANGED <<usb_moded, failed>>
-----------------------------------------------------------------------------
(***************************************************************************)
(* usb_moded and the bus daemon.                                           *)
(***************************************************************************)
Send(m) == inbox' = IF systembus THEN Append(inbox, m) ELSE inbox

UsbModedStarts(mode) ==
  /\ ~usb_moded.on /\ Event
  /\ usb_moded' = [on |-> TRUE, mode |-> mode]
  /\ Send([type |-> "owner", running |-> TRUE])
  /\ failed' = FALSE
  /\ UNCHANGED <<up, systembus, prev, waiting, mounted, calls, unseen>>

\* The call it has not answered is answered by the bus.
UsbModedDies ==
  /\ usb_moded.on /\ Event
  /\ usb_moded' = [usb_moded EXCEPT !.on = FALSE]
  /\ inbox' = IF ~systembus THEN inbox
              ELSE inbox \o (IF calls.mode THEN <<[type |-> "mode", mode |-> "error"]>> ELSE <<>>)
                         \o <<[type |-> "owner", running |-> FALSE]>>
  /\ calls' = [calls EXCEPT !.mode = FALSE]
  /\ UNCHANGED <<up, systembus, prev, waiting, mounted, failed, unseen>>

UsbModedChanges(mode) ==
  /\ usb_moded.on /\ mode # usb_moded.mode /\ Event
  /\ usb_moded' = [usb_moded EXCEPT !.mode = mode]
  /\ Send([type |-> "signal", mode |-> mode])
  /\ failed' = FALSE
  /\ UNCHANGED <<up, systembus, prev, waiting, mounted, calls, unseen>>

\* usb_moded answers mode_request, or it fails or times out.
AnswerMode ==
  /\ calls.mode
  /\ calls' = [calls EXCEPT !.mode = FALSE]
  /\ \/ /\ usb_moded.on
        /\ Send([type |-> "mode", mode |-> usb_moded.mode])
        /\ failed' = FALSE
        /\ UNCHANGED events
     \/ /\ IF usb_moded.on THEN Event ELSE UNCHANGED events
        /\ Send([type |-> "mode", mode |-> "error"])
        /\ failed' = TRUE
  /\ UNCHANGED <<up, systembus, prev, waiting, mounted, usb_moded, unseen>>

AnswerOwner ==
  /\ calls.owner
  /\ calls' = [calls EXCEPT !.owner = FALSE]
  /\ Send([type |-> "owner", running |-> usb_moded.on])
  /\ UNCHANGED <<up, systembus, prev, waiting, mounted, usb_moded, failed, unseen, events>>
-----------------------------------------------------------------------------
Init ==
  /\ up = FALSE /\ systembus = FALSE /\ prev = FALSE /\ waiting = FALSE
  /\ mounted = "unset" /\ inbox = <<>>
  /\ calls = [mode |-> FALSE, owner |-> FALSE]
  /\ usb_moded \in [on : BOOLEAN, mode : Modes]
  /\ failed = FALSE /\ unseen = FALSE
  /\ events = 0

Next ==
  \/ Receive \/ wait_for_usb_moded_cb
  \/ DBUS_CONNECTED \/ DBUS_DISCONNECT
  \/ module_init \/ module_fini
  \/ \E mode \in Modes : UsbModedStarts(mode) \/ UsbModedChanges(mode)
  \/ UsbModedDies \/ AnswerMode \/ AnswerOwner

\* The main loop runs what is ready; calls are answered, if only by a timeout.
Fairness ==
  WF_vars(Receive) /\ WF_vars(wait_for_usb_moded_cb) /\ WF_vars(AnswerMode)
    /\ WF_vars(AnswerOwner)

Spec == Init /\ [][Next]_vars /\ Fairness
-----------------------------------------------------------------------------
(***************************************************************************)
(* Properties.                                                             *)
(***************************************************************************)
\* When nothing is under way, state.c has been told what usb_moded says, so that
\* no shutdown is allowed while a PC has the file system (and none is denied
\* when it has not), whatever order signals, replies and restarts came in.
\* Left out: a query that failed, which counts as not mounted, and a connection
\* that was made while usb_moded was thought to be running already.
MountTracked ==
  (up /\ systembus /\ usb_moded.on /\ inbox = <<>> /\ ~calls.mode /\ ~calls.owner
      /\ ~failed /\ ~unseen)
    => mounted = IF evaluate_status(usb_moded.mode) THEN "mounted" ELSE "not mounted"

\* "Wait a while for service to be available again before assuming charger is not
\* connected" (xusbmoded_set_runstate()), and at start-up: when usb_moded stays
\* away, state.c is told that nothing is mounted, and shutdowns are possible
\* again.  Left out: an usb_moded that sent a signal before its start was noticed.
MountForgotten ==
  <>[](up /\ systembus /\ ~usb_moded.on /\ ~unseen) => <>[](mounted = "not mounted")
=============================================================================
