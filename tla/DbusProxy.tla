----------------------------- MODULE DbusProxy -----------------------------
(***************************************************************************)
(* How D-Bus clients block shutdown: the inhibit_shutdown method of        *)
(* modules/dbusproxy.c, the client trackers of modules/dsme_dbus.c and the *)
(* system bus between them and the clients.                                *)
(*                                                                         *)
(* A tracked client may drop off the bus at any time.  dsme learns of it   *)
(* by a NameOwnerChanged signal it subscribes to, or, when the client was  *)
(* gone before the subscription, by an error reply to GetNameOwner.  The   *)
(* bus delivers in order in each direction, so there are two FIFO queues.  *)
(* What dbusproxy broadcasts travels through the dsme message queue to     *)
(* state.c, which keeps the one flag shutdown_blocked.                     *)
(*                                                                         *)
(* dbus-daemon may drop the connection, or die.  Nothing is flushed then:  *)
(* the tracked clients stay, with no subscription left to end them, until  *)
(* DBUS_DISCONNECT.  The REBOOT_REQ the loss leads to is in DbusManager;   *)
(* what state.c makes of it while shutdown is blocked, in State.           *)
(***************************************************************************)
EXTENDS Naturals, Sequences, FiniteSets

CONSTANTS
  Clients,       \* unique bus names; the bus never reuses one
  MaxToDsme,     \* bound on the messages the bus holds for dsme
  MaxToBus,      \* bound: dsme reads on when the bus holds fewer from it
  MaxQueue       \* bound: dsme reads on when state.c is fewer behind

ASSUME DbusAssumption ==
  /\ IsFiniteSet(Clients)
  /\ MaxToDsme \in Nat
  /\ MaxToBus \in Nat
  /\ MaxQueue \in Nat

VARIABLES
  alive,            \* clients on the system bus
  conn,             \* mr_connection: "none", "open", "closed" (by dbus-daemon)
  to_bus,           \* what dsme sent and the bus has not handled
  to_dsme,          \* what the bus sent and dsme has not read
  matches,          \* the NameOwnerChanged subscriptions the bus knows
  lut,              \* ddt_client_lut: the tracked clients
  client_cnt,       \* ddt_client_cnt: their number when last looked at
  owner_pc,         \* tracked clients whose ddc_owner_pc is pending
  message_queue,    \* BLOCK_SHUTDOWN and ALLOW_SHUTDOWN on their way
  shutdown_blocked, \* state.c
  inhibits,         \* history: clients whose last handled call said TRUE
  misjudged         \* history: clients GetNameOwner failed for though they lived

vars == <<alive, conn, to_bus, to_dsme, matches, lut, client_cnt, owner_pc,
          message_queue, shutdown_blocked, inhibits, misjudged>>

BusMsg == [kind : {"match", "unmatch", "query", "cancelled"}, name : Clients]

DsmeMsg == [kind : {"inhibit", "dropped", "owner", "cancelled"}, name : Clients,
            value : BOOLEAN]

Broadcast == {"BLOCK_SHUTDOWN", "ALLOW_SHUTDOWN"}
-----------------------------------------------------------------------------
(***************************************************************************)
(* The tracker, as functions of the new table of clients.                  *)
(***************************************************************************)
\* Mutant: the last blocker that goes is not reported.
shutdown_blocker_count_changed_sticky(cnt) ==
  IF cnt = 1 THEN <<"BLOCK_SHUTDOWN">> ELSE << >>

\* shutdown_blocker_count_changed(): the broadcasts for a new client count.
shutdown_blocker_count_changed(cnt) ==
  IF cnt = 1 THEN <<"BLOCK_SHUTDOWN">>
  ELSE IF cnt = 0 THEN <<"ALLOW_SHUTDOWN">>
  ELSE << >>

dsme_dbus_tracker_update_client_count(cnt) ==
  /\ client_cnt' = cnt
  /\ message_queue' = IF cnt = client_cnt THEN message_queue
                      ELSE message_queue \o shutdown_blocker_count_changed(cnt)

\* dbus_pending_call_cancel(): the query or reply stays, nobody waits for it.
dbus_pending_call_cancel(q, kind, name) ==
  [i \in DOMAIN q |-> IF q[i].kind = kind /\ q[i].name = name
                       THEN [q[i] EXCEPT !.kind = "cancelled"] ELSE q[i]]

\* Mutant: a new client is trusted to be on the bus when dsme subscribes.
dsme_dbus_tracker_add_client_unverified(name, rest) ==
  IF name \in lut
  THEN /\ to_dsme' = rest
       /\ UNCHANGED <<lut, client_cnt, message_queue, to_bus, owner_pc>>
  ELSE /\ lut' = lut \cup {name}
       /\ to_bus' = Append(to_bus, [kind |-> "match", name |-> name])
       /\ to_dsme' = rest
       /\ dsme_dbus_tracker_update_client_count(Cardinality(lut \cup {name}))
       /\ UNCHANGED owner_pc

\* dsme_dbus_client_create(): subscribe to the end of the client, then ask for
\* its owner (dsme_dbus_client_query_owner()).  On a connection that dbus-daemon
\* closed both are lost, or not even tried when libdbus knows already.
dsme_dbus_client_create(name) ==
  IF conn = "closed"
  THEN /\ owner_pc' \in {owner_pc, owner_pc \cup {name}}
       /\ UNCHANGED to_bus
  ELSE /\ to_bus' = to_bus \o <<[kind |-> "match", name |-> name],
                                [kind |-> "query", name |-> name]>>
       /\ owner_pc' = owner_pc \cup {name}

dsme_dbus_tracker_add_client(name, rest) ==
  IF name \in lut
  THEN /\ to_dsme' = rest
       /\ UNCHANGED <<lut, client_cnt, message_queue, to_bus, owner_pc>>
  ELSE /\ lut' = lut \cup {name}
       /\ dsme_dbus_client_create(name)
       /\ to_dsme' = rest
       /\ dsme_dbus_tracker_update_client_count(Cardinality(lut \cup {name}))

\* The query is cancelled: a late reply has no reader.
dsme_dbus_client_dtor(name, rest) ==
  /\ to_bus' = IF conn = "closed" THEN to_bus
               ELSE Append(dbus_pending_call_cancel(to_bus, "query", name),
                           [kind |-> "unmatch", name |-> name])
  /\ owner_pc' = owner_pc \ {name}
  /\ to_dsme' = dbus_pending_call_cancel(rest, "owner", name)

dsme_dbus_tracker_remove_client(name, rest) ==
  IF name \notin lut
  THEN /\ to_dsme' = rest
       /\ UNCHANGED <<lut, client_cnt, message_queue, to_bus, owner_pc>>
  ELSE /\ lut' = lut \ {name}
       /\ dsme_dbus_client_dtor(name, rest)
       /\ dsme_dbus_tracker_update_client_count(Cardinality(lut \ {name}))
-----------------------------------------------------------------------------
Init ==
  /\ alive = Clients
  /\ conn = "none"
  /\ to_bus = << >>
  /\ to_dsme = << >>
  /\ matches = {}
  /\ lut = {}
  /\ client_cnt = 0
  /\ owner_pc = {}
  /\ message_queue = << >>
  /\ shutdown_blocked = FALSE
  /\ inhibits = {}
  /\ misjudged = {}

\* DBUS_CONNECT: dsme_dbus_connect() succeeds.
Connect ==
  /\ conn = "none"
  /\ conn' = "open"
  /\ UNCHANGED <<alive, to_bus, to_dsme, matches, lut, client_cnt, owner_pc,
                 message_queue, shutdown_blocked, inhibits, misjudged>>

\* DBUS_DISCONNECT: the connection is closed first, then trackers are flushed.
manager_disconnect ==
  /\ conn # "none"
  /\ conn' = "none"
  /\ to_bus' = << >>
  /\ to_dsme' = << >>
  /\ matches' = {}
  /\ lut' = {}
  /\ owner_pc' = {}
  /\ dsme_dbus_tracker_update_client_count(0)
  /\ inhibits' = {}
  /\ UNCHANGED <<alive, shutdown_blocked, misjudged>>

\* dbus-daemon drops the connection of dsme: what it sent may still arrive, the
\* rest is lost.  The handler of the signal, in manager_message_filter_cb(), asks
\* for a reboot and leaves the trackers alone.
ConnectionLost ==
  /\ conn = "open"
  /\ conn' = "closed"
  /\ to_bus' = << >>
  /\ \E n \in 0 .. Len(to_dsme) : to_dsme' = SubSeq(to_dsme, 1, n)
  /\ matches' = {}
  /\ UNCHANGED <<alive, lut, client_cnt, owner_pc, message_queue, shutdown_blocked,
                 inhibits, misjudged>>

\* libdbus may end a call that is pending then with an error, after what has arrived:
\* dsme_dbus_client_owner_cb() takes it for the death of the client.
dsme_dbus_client_owner_cb_lost(name) ==
  /\ conn = "closed" /\ to_dsme = << >>
  /\ Len(message_queue) < MaxQueue
  /\ name \in owner_pc
  /\ dsme_dbus_tracker_remove_client(name, to_dsme)
  /\ misjudged' = misjudged \cup ({name} \cap alive)
  /\ UNCHANGED <<alive, conn, matches, shutdown_blocked, inhibits>>

\* A client calls inhibit_shutdown(value).
Call(name, value) ==
  /\ conn = "open"
  /\ name \in alive
  /\ Len(to_dsme) < MaxToDsme
  /\ to_dsme' = Append(to_dsme, [kind |-> "inhibit", name |-> name, value |-> value])
  /\ UNCHANGED <<alive, conn, to_bus, matches, lut, client_cnt, owner_pc,
                 message_queue, shutdown_blocked, inhibits, misjudged>>

\* A client exits or crashes; the bus tells subscribers.
DropOff(name) ==
  /\ name \in alive
  /\ alive' = alive \ {name}
  /\ to_dsme' = IF name \in matches
                THEN Append(to_dsme, [kind |-> "dropped", name |-> name, value |-> TRUE])
                ELSE to_dsme
  /\ UNCHANGED <<conn, to_bus, matches, lut, client_cnt, owner_pc,
                 message_queue, shutdown_blocked, inhibits, misjudged>>

\* The bus handles dsme's next request; a query may fail for other reasons.
BusHandles ==
  /\ to_bus # << >>
  /\ LET m == Head(to_bus) IN
     /\ matches' = CASE m.kind = "match"   -> matches \cup {m.name}
                     [] m.kind = "unmatch" -> matches \ {m.name}
                     [] OTHER              -> matches
     /\ IF m.kind = "query"
        THEN \E found \in BOOLEAN :
               /\ found => m.name \in alive
               /\ to_dsme' = Append(to_dsme, [kind |-> "owner", name |-> m.name,
                                              value |-> found])
               /\ misjudged' = misjudged \cup (IF found THEN {} ELSE {m.name} \cap alive)
        ELSE UNCHANGED <<to_dsme, misjudged>>
  /\ to_bus' = Tail(to_bus)
  /\ UNCHANGED <<alive, conn, lut, client_cnt, owner_pc, message_queue,
                 shutdown_blocked, inhibits>>

\* dsme reads its next message.
Ready ==
  /\ to_dsme # << >>
  /\ Len(to_bus) < MaxToBus
  /\ Len(message_queue) < MaxQueue

\* The method call inhibit_shutdown arrives.
block_shutdown ==
  /\ Ready
  /\ LET m == Head(to_dsme) IN
     /\ m.kind = "inhibit"
     /\ IF m.value THEN dsme_dbus_tracker_add_client(m.name, Tail(to_dsme))
                   ELSE dsme_dbus_tracker_remove_client(m.name, Tail(to_dsme))
     /\ inhibits' = IF m.value THEN inhibits \cup {m.name} ELSE inhibits \ {m.name}
  /\ UNCHANGED <<alive, conn, matches, shutdown_blocked, misjudged>>

\* NameOwnerChanged with no new owner arrives.
dsme_dbus_tracker_name_dropped ==
  /\ Ready
  /\ Head(to_dsme).kind = "dropped"
  /\ dsme_dbus_tracker_remove_client(Head(to_dsme).name, Tail(to_dsme))
  /\ UNCHANGED <<alive, conn, matches, shutdown_blocked, inhibits, misjudged>>

\* Mutant: the test of the reply is inverted.
dsme_dbus_client_owner_cb_inverted ==
  /\ Ready
  /\ LET m == Head(to_dsme) IN
     /\ m.kind = "owner"
     /\ IF m.value
        THEN dsme_dbus_tracker_remove_client(m.name, Tail(to_dsme))
        ELSE /\ owner_pc' = owner_pc \ {m.name}
             /\ to_dsme' = Tail(to_dsme)
             /\ UNCHANGED <<lut, client_cnt, message_queue, to_bus>>
  /\ UNCHANGED <<alive, conn, matches, shutdown_blocked, inhibits, misjudged>>

\* The reply to GetNameOwner arrives: on any error the client is removed.
dsme_dbus_client_owner_cb ==
  /\ Ready
  /\ LET m == Head(to_dsme) IN
     /\ m.kind = "owner"
     /\ IF m.value
        THEN /\ owner_pc' = owner_pc \ {m.name}
             /\ to_dsme' = Tail(to_dsme)
             /\ UNCHANGED <<lut, client_cnt, message_queue, to_bus>>
        ELSE dsme_dbus_tracker_remove_client(m.name, Tail(to_dsme))
  /\ UNCHANGED <<alive, conn, matches, shutdown_blocked, inhibits, misjudged>>

\* A reply nobody waits for is dropped by libdbus.
IgnoreReply ==
  /\ Ready
  /\ Head(to_dsme).kind = "cancelled"
  /\ to_dsme' = Tail(to_dsme)
  /\ UNCHANGED <<alive, conn, to_bus, matches, lut, client_cnt, owner_pc,
                 message_queue, shutdown_blocked, inhibits, misjudged>>

\* state.c handles BLOCK_SHUTDOWN or ALLOW_SHUTDOWN.
update_shutdown_blocked ==
  /\ message_queue # << >>
  /\ shutdown_blocked' = (Head(message_queue) = "BLOCK_SHUTDOWN")
  /\ message_queue' = Tail(message_queue)
  /\ UNCHANGED <<alive, conn, to_bus, to_dsme, matches, lut, client_cnt,
                 owner_pc, inhibits, misjudged>>

Receive ==
  \/ block_shutdown
  \/ dsme_dbus_tracker_name_dropped
  \/ dsme_dbus_client_owner_cb
  \/ IgnoreReply

Next ==
  \/ Connect
  \/ manager_disconnect
  \/ ConnectionLost
  \/ \E name \in Clients : dsme_dbus_client_owner_cb_lost(name)
  \/ \E name \in Clients : DropOff(name) \/ \E value \in BOOLEAN : Call(name, value)
  \/ BusHandles
  \/ Receive
  \/ update_shutdown_blocked

Spec == Init /\ [][Next]_vars

\* The bus, and the main loop of dsme, handle what they have been sent.
Fairness == WF_vars(BusHandles) /\ WF_vars(Receive) /\ WF_vars(update_shutdown_blocked)

FairSpec == Spec /\ Fairness
-----------------------------------------------------------------------------
\* The state of the tracker and of the queues.
TypeOK ==
  /\ alive \subseteq Clients
  /\ conn \in {"none", "open", "closed"}
  /\ to_bus \in Seq(BusMsg)
  /\ to_dsme \in Seq(DsmeMsg)
  /\ matches \subseteq Clients
  /\ lut \subseteq Clients
  /\ client_cnt = Cardinality(lut)
  /\ owner_pc \subseteq lut
  /\ message_queue \in Seq(Broadcast)
  /\ shutdown_blocked \in BOOLEAN
  /\ inhibits \subseteq Clients /\ misjudged \subseteq Clients

(***************************************************************************)
(* What state.c has been, or is about to be, told agrees with the tracker: *)
(* after the queued messages shutdown is blocked iff a client is tracked.  *)
(***************************************************************************)
BlockedIffTracked ==
  (IF message_queue = << >> THEN shutdown_blocked
   ELSE message_queue[Len(message_queue)] = "BLOCK_SHUTDOWN") <=> lut # {}

\* BlockedIffTracked with the facts about the tracker that make it inductive.
TrackerInv ==
  /\ lut \subseteq Clients
  /\ client_cnt = Cardinality(lut)
  /\ message_queue \in Seq(Broadcast)
  /\ shutdown_blocked \in BOOLEAN
  /\ BlockedIffTracked

\* The messages in flight between dsme and the bus.
QueuesOK ==
  /\ to_bus \in Seq(BusMsg)
  /\ to_dsme \in Seq(DsmeMsg)

(***************************************************************************)
(* A client that is on the bus and inhibits shutdown is tracked, whatever  *)
(* replies and signals of earlier incarnations of its tracking arrive; a   *)
(* GetNameOwner that fails for another reason is taken for its death.      *)
(***************************************************************************)
LiveInhibitorTracked == (inhibits \cap alive) \ misjudged \subseteq lut

(***************************************************************************)
(* A blocker that is gone is forgotten: shutdown is not inhibited for ever *)
(* by a client that died, even just before dsme subscribed to its death,   *)
(* and not after a DBUS_DISCONNECT, whatever went before.  It holds while  *)
(* dbus-daemon keeps the connection: a client tracked when that is lost    *)
(* blocks until DBUS_DISCONNECT, and with it the reboot the loss asks for. *)
(***************************************************************************)
NoDeadBlocker ==
  (alive = {} /\ conn # "closed") ~> ([](~shutdown_blocked) \/ conn = "closed")
=============================================================================
