-------------------------- MODULE DbusProxyProofs --------------------------
(***************************************************************************)
(* For any number of clients and any bounds on the queues: what state.c    *)
(* is told about blockers agrees with the tracker of modules/dsme_dbus.c,  *)
(* and the tracker forgets no client that lives and blocks.                *)
(***************************************************************************)
EXTENDS DbusProxy, FiniteSetTheorems, SequenceTheorems, TLAPS

\* A table of tracked clients is finite, so its size tells whether it is empty.
LEMMA TableSize ==
  ASSUME NEW T, T \subseteq Clients
  PROVE  /\ IsFiniteSet(T)
         /\ Cardinality(T) \in Nat
         /\ (Cardinality(T) = 0) <=> (T = {})
<1>1. IsFiniteSet(T)
  BY DbusAssumption, FS_Subset
<1> QED
  BY <1>1, FS_CardinalityType, FS_EmptySet

\* The broadcast for a table of another size tells whether it is empty; only
\* a table that was not empty before may grow past one without a broadcast.
LEMMA UpdateTellsState ==
  ASSUME TrackerInv, NEW new, new \subseteq Clients,
         lut = {} => Cardinality(new) \in {0, 1},
         lut' = new, UNCHANGED shutdown_blocked,
         dsme_dbus_tracker_update_client_count(Cardinality(new))
  PROVE  TrackerInv'
<1> DEFINE cnt == Cardinality(new)
           q   == message_queue'
<1>1. /\ cnt \in Nat
      /\ (cnt = 0) <=> (new = {})
  BY TableSize
<1>2. (Cardinality(lut) = 0) <=> (lut = {})
  BY TableSize DEF TrackerInv
<1>3. CASE cnt = client_cnt
  <2>1. q = message_queue
    BY <1>3 DEF dsme_dbus_tracker_update_client_count
  <2>2. (new = {}) <=> (lut = {})
    BY <1>1, <1>2, <1>3 DEF TrackerInv
  <2> QED
    BY <2>1, <2>2, <1>3
    DEF TrackerInv, BlockedIffTracked, dsme_dbus_tracker_update_client_count
<1>4. CASE cnt # client_cnt /\ cnt \in {0, 1}
  <2> DEFINE m == IF cnt = 1 THEN "BLOCK_SHUTDOWN" ELSE "ALLOW_SHUTDOWN"
  <2>1. q = message_queue \o <<m>>
    BY <1>4 DEF dsme_dbus_tracker_update_client_count, shutdown_blocker_count_changed
  <2>2. m \in Broadcast
    BY DEF Broadcast
  <2>3. /\ q \in Seq(Broadcast)
        /\ q # << >>
        /\ q[Len(q)] = m
    <3> HIDE DEF m
    <3> QED
      BY <2>1, <2>2 DEF TrackerInv
  <2>4. (m = "BLOCK_SHUTDOWN") <=> (new # {})
    BY <1>1, <1>4
  <2> QED
    BY <2>3, <2>4 DEF TrackerInv, BlockedIffTracked, dsme_dbus_tracker_update_client_count
<1>5. CASE cnt # client_cnt /\ cnt \notin {0, 1}
  <2>1. message_queue \o << >> = message_queue
    BY DEF TrackerInv
  <2>2. q = message_queue
    BY <1>5, <2>1
    DEF dsme_dbus_tracker_update_client_count, shutdown_blocker_count_changed
  <2>3. lut # {} /\ new # {}
    BY <1>1, <1>5
  <2> QED
    BY <2>2, <2>3
    DEF TrackerInv, BlockedIffTracked, dsme_dbus_tracker_update_client_count
<1> QED
  BY <1>3, <1>4, <1>5

\* The part of the state TrackerInv is about.
TrackerVars == <<lut, client_cnt, message_queue, shutdown_blocked>>

\* A step that leaves the tracker, the queue and the flag alone keeps TrackerInv.
LEMMA Unaffected ==
  ASSUME TrackerInv, UNCHANGED TrackerVars
  PROVE  TrackerInv'
BY DEF TrackerInv, BlockedIffTracked, TrackerVars

\* Adding a client grows the table by one.
LEMMA AddKeepsTracker ==
  ASSUME TrackerInv, NEW name \in Clients, NEW rest,
         dsme_dbus_tracker_add_client(name, rest), UNCHANGED shutdown_blocked
  PROVE  TrackerInv'
<1>1. CASE name \in lut
  BY <1>1, Unaffected DEF dsme_dbus_tracker_add_client, TrackerVars
<1>2. CASE name \notin lut
  <2>1. lut = {} => Cardinality(lut \cup {name}) = 1
    BY FS_Singleton
  <2> QED
    BY <1>2, <2>1, UpdateTellsState DEF dsme_dbus_tracker_add_client, TrackerInv
<1> QED
  BY <1>1, <1>2

\* Removing a client shrinks a table that is not empty.
LEMMA RemoveKeepsTracker ==
  ASSUME TrackerInv, NEW name, NEW rest,
         dsme_dbus_tracker_remove_client(name, rest), UNCHANGED shutdown_blocked
  PROVE  TrackerInv'
<1>1. CASE name \notin lut
  BY <1>1, Unaffected DEF dsme_dbus_tracker_remove_client, TrackerVars
<1>2. CASE name \in lut
  BY <1>2, UpdateTellsState DEF dsme_dbus_tracker_remove_client, TrackerInv
<1> QED
  BY <1>1, <1>2

\* Cancelling a pending call changes the kind of some messages, no more.
LEMMA CancelKeepsBusMsgs ==
  ASSUME NEW q \in Seq(BusMsg), NEW kind, NEW name
  PROVE  dbus_pending_call_cancel(q, kind, name) \in Seq(BusMsg)
<1>1. \A i \in DOMAIN q : q[i] \in BusMsg
  OBVIOUS
<1>2. \A m \in BusMsg : [m EXCEPT !.kind = "cancelled"] \in BusMsg
  BY DEF BusMsg
<1>3. DOMAIN q = 1..Len(q) /\ Len(q) \in Nat
  OBVIOUS
<1>4. dbus_pending_call_cancel(q, kind, name) \in [1..Len(q) -> BusMsg]
  BY <1>1, <1>2, <1>3 DEF dbus_pending_call_cancel
<1> QED
  BY <1>3, <1>4, SeqDef

\* The same for what the bus has sent to dsme.
LEMMA CancelKeepsDsmeMsgs ==
  ASSUME NEW q \in Seq(DsmeMsg), NEW kind, NEW name
  PROVE  dbus_pending_call_cancel(q, kind, name) \in Seq(DsmeMsg)
<1>1. \A i \in DOMAIN q : q[i] \in DsmeMsg
  OBVIOUS
<1>2. \A m \in DsmeMsg : [m EXCEPT !.kind = "cancelled"] \in DsmeMsg
  BY DEF DsmeMsg
<1>3. DOMAIN q = 1..Len(q) /\ Len(q) \in Nat
  OBVIOUS
<1>4. dbus_pending_call_cancel(q, kind, name) \in [1..Len(q) -> DsmeMsg]
  BY <1>1, <1>2, <1>3 DEF dbus_pending_call_cancel
<1> QED
  BY <1>3, <1>4, SeqDef

\* The tracker sends well formed requests.
LEMMA AddKeepsQueues ==
  ASSUME QueuesOK, NEW name \in Clients, NEW rest \in Seq(DsmeMsg),
         dsme_dbus_tracker_add_client(name, rest)
  PROVE  QueuesOK'
<1>1. /\ [kind |-> "match", name |-> name] \in BusMsg
      /\ [kind |-> "query", name |-> name] \in BusMsg
  BY DEF BusMsg
<1>2. /\ to_bus \in Seq(BusMsg)
      /\ to_bus' \in {to_bus, to_bus \o <<[kind |-> "match", name |-> name],
                                        [kind |-> "query", name |-> name]>>}
      /\ to_dsme' = rest
  BY DEF QueuesOK, dsme_dbus_tracker_add_client,
         dsme_dbus_client_create
<1>3. ASSUME NEW a \in BusMsg, NEW b \in BusMsg
      PROVE  to_bus \o <<a, b>> \in Seq(BusMsg)
  BY <1>2
<1>4. to_bus' \in Seq(BusMsg)
  BY <1>1, <1>2, <1>3, Zenon
<1> QED
  BY <1>2, <1>4 DEF QueuesOK

\* Removing a client queues an unmatch and cancels calls, nothing else.
LEMMA RemoveKeepsQueues ==
  ASSUME QueuesOK, NEW name \in Clients, NEW rest \in Seq(DsmeMsg),
         dsme_dbus_tracker_remove_client(name, rest)
  PROVE  QueuesOK'
<1>1. [kind |-> "unmatch", name |-> name] \in BusMsg
  BY DEF BusMsg
<1>2. /\ dbus_pending_call_cancel(to_bus, "query", name) \in Seq(BusMsg)
      /\ dbus_pending_call_cancel(rest, "owner", name) \in Seq(DsmeMsg)
  BY CancelKeepsBusMsgs, CancelKeepsDsmeMsgs DEF QueuesOK
<1>3. ASSUME NEW q \in Seq(BusMsg), NEW a \in BusMsg
      PROVE  Append(q, a) \in Seq(BusMsg)
  OBVIOUS
<1>4. CASE name \notin lut
  BY <1>4 DEF QueuesOK, dsme_dbus_tracker_remove_client
<1>5. CASE name \in lut
  <2>1. /\ \/ UNCHANGED to_bus
           \/ to_bus' = Append(dbus_pending_call_cancel(to_bus, "query", name),
                               [kind |-> "unmatch", name |-> name])
        /\ to_dsme' = dbus_pending_call_cancel(rest, "owner", name)
    BY <1>5 DEF dsme_dbus_tracker_remove_client, dsme_dbus_client_dtor
  <2> QED
    BY <2>1, <1>1, <1>2, <1>3, Zenon DEF QueuesOK
<1> QED
  BY <1>4, <1>5

\* The message dsme reads next names a client.
LEMMA NextMessage ==
  ASSUME QueuesOK, Ready
  PROVE  /\ Head(to_dsme) \in DsmeMsg
         /\ Head(to_dsme).name \in Clients
         /\ Tail(to_dsme) \in Seq(DsmeMsg)
<1>1. Head(to_dsme) \in DsmeMsg /\ Tail(to_dsme) \in Seq(DsmeMsg)
  BY DEF QueuesOK, Ready
<1> QED
  BY <1>1 DEF DsmeMsg

\* What arrives of the messages when the connection is lost are some of them.
LEMMA PrefixOK ==
  ASSUME NEW q \in Seq(DsmeMsg), NEW n \in 0 .. Len(q)
  PROVE  /\ SubSeq(q, 1, n) \in Seq(DsmeMsg)
         /\ DOMAIN SubSeq(q, 1, n) \subseteq DOMAIN q
         /\ \A i \in DOMAIN SubSeq(q, 1, n) : SubSeq(q, 1, n)[i] = q[i]
<1>1. Len(q) \in Nat /\ n \in Nat /\ n <= Len(q) /\ DOMAIN q = 1..Len(q)
  OBVIOUS
<1>2. /\ SubSeq(q, 1, n) \in Seq(DsmeMsg)
      /\ Len(SubSeq(q, 1, n)) = n
      /\ \A i \in 1..n : SubSeq(q, 1, n)[i] = q[i]
  BY <1>1
<1>3. DOMAIN SubSeq(q, 1, n) = 1..n
  BY <1>2
<1> QED
  BY <1>1, <1>2, <1>3

\* Both parts of the invariant are kept by every step.
LEMMA StepKeepsInv ==
  ASSUME QueuesOK, TrackerInv, [Next]_vars
  PROVE  QueuesOK' /\ TrackerInv'
<1>1. CASE Connect
  BY <1>1, Unaffected DEF Connect, TrackerVars, QueuesOK
<1>2. CASE manager_disconnect
  <2>1. QueuesOK'
    BY <1>2 DEF manager_disconnect, QueuesOK
  <2>2. Cardinality({}) = 0
    BY FS_EmptySet
  <2>3. TrackerInv'
    BY <1>2, <2>2, UpdateTellsState DEF manager_disconnect
  <2> QED
    BY <2>1, <2>3
<1>3. ASSUME NEW name \in Clients, DropOff(name)
      PROVE  QueuesOK' /\ TrackerInv'
  <2>1. [kind |-> "dropped", name |-> name, value |-> TRUE] \in DsmeMsg
    BY DEF DsmeMsg
  <2> QED
    BY <1>3, <2>1, Unaffected DEF DropOff, TrackerVars, QueuesOK
<1>4. ASSUME NEW name \in Clients, NEW value \in BOOLEAN, Call(name, value)
      PROVE  QueuesOK' /\ TrackerInv'
  <2>1. [kind |-> "inhibit", name |-> name, value |-> value] \in DsmeMsg
    BY DEF DsmeMsg
  <2> QED
    BY <1>4, <2>1, Unaffected DEF Call, TrackerVars, QueuesOK
<1>5. CASE BusHandles
  <2>1. Head(to_bus) \in BusMsg /\ Tail(to_bus) \in Seq(BusMsg)
    BY <1>5 DEF BusHandles, QueuesOK
  <2>2. Head(to_bus).name \in Clients
    BY <2>1 DEF BusMsg
  <2>3. \A b \in BOOLEAN :
          [kind |-> "owner", name |-> Head(to_bus).name, value |-> b] \in DsmeMsg
    BY <2>2 DEF DsmeMsg
  <2>4. to_dsme' \in Seq(DsmeMsg)
    <3>1. CASE Head(to_bus).kind = "query"
      <4>1. PICK found \in BOOLEAN :
              to_dsme' = Append(to_dsme, [kind |-> "owner", name |-> Head(to_bus).name,
                                          value |-> found])
        BY <1>5, <3>1 DEF BusHandles
      <4> QED
        BY <4>1, <2>3 DEF QueuesOK
    <3>2. CASE Head(to_bus).kind # "query"
      BY <1>5, <3>2 DEF BusHandles, QueuesOK
    <3> QED
      BY <3>1, <3>2
  <2>5. to_bus' \in Seq(BusMsg)
    BY <1>5, <2>1 DEF BusHandles
  <2>6. TrackerInv'
    BY <1>5, Unaffected DEF BusHandles, TrackerVars
  <2> QED
    BY <2>4, <2>5, <2>6 DEF QueuesOK
<1>6. CASE block_shutdown
  <2>1. Ready /\ UNCHANGED shutdown_blocked
    BY <1>6 DEF block_shutdown
  <2>2. \/ dsme_dbus_tracker_add_client(Head(to_dsme).name, Tail(to_dsme))
        \/ dsme_dbus_tracker_remove_client(Head(to_dsme).name, Tail(to_dsme))
    BY <1>6 DEF block_shutdown
  <2> QED
    BY <2>1, <2>2, NextMessage, AddKeepsQueues, RemoveKeepsQueues,
       AddKeepsTracker, RemoveKeepsTracker
<1>7. CASE dsme_dbus_tracker_name_dropped
  <2>1. /\ Ready
        /\ UNCHANGED shutdown_blocked
        /\ dsme_dbus_tracker_remove_client(Head(to_dsme).name, Tail(to_dsme))
    BY <1>7 DEF dsme_dbus_tracker_name_dropped
  <2> QED
    BY <2>1, NextMessage, RemoveKeepsQueues, RemoveKeepsTracker
<1>8. CASE dsme_dbus_client_owner_cb
  <2>1. Ready /\ UNCHANGED shutdown_blocked
    BY <1>8 DEF dsme_dbus_client_owner_cb
  <2>2. CASE Head(to_dsme).value
    <3>1. UNCHANGED TrackerVars /\ to_dsme' = Tail(to_dsme) /\ UNCHANGED to_bus
      BY <1>8, <2>2 DEF dsme_dbus_client_owner_cb, TrackerVars
    <3> QED
      BY <2>1, <3>1, NextMessage, Unaffected DEF QueuesOK
  <2>3. CASE ~Head(to_dsme).value
    <3>1. dsme_dbus_tracker_remove_client(Head(to_dsme).name, Tail(to_dsme))
      BY <1>8, <2>3 DEF dsme_dbus_client_owner_cb
    <3> QED
      BY <2>1, <3>1, NextMessage, RemoveKeepsQueues, RemoveKeepsTracker
  <2> QED
    BY <2>2, <2>3
<1>9. CASE IgnoreReply
  BY <1>9, NextMessage, Unaffected DEF IgnoreReply, TrackerVars, QueuesOK
<1>10. CASE update_shutdown_blocked
  <2>1. QueuesOK'
    BY <1>10 DEF update_shutdown_blocked, QueuesOK
  <2>2. /\ message_queue \in Seq(Broadcast)
        /\ message_queue # << >>
        /\ message_queue' = Tail(message_queue)
        /\ shutdown_blocked' = (Head(message_queue) = "BLOCK_SHUTDOWN")
    BY <1>10 DEF update_shutdown_blocked, TrackerInv
  <2>3. message_queue' \in Seq(Broadcast) /\ shutdown_blocked' \in BOOLEAN
    BY <2>2
  <2>4. CASE Tail(message_queue) = << >>
    <3>1. Len(message_queue) = 1 /\ Head(message_queue) = message_queue[1]
      <4>1. /\ Len(Tail(message_queue)) = Len(message_queue) - 1
            /\ Len(message_queue) \in Nat
        BY <2>2, HeadTailProperties
      <4>2. Len(Tail(message_queue)) = 0
        BY <2>4, EmptySeq, Zenon
      <4>3. Head(message_queue) = message_queue[1]
        BY <2>2
      <4> QED
        BY <4>1, <4>2, <4>3
    <3>2. shutdown_blocked' <=> lut # {}
      BY <2>2, <3>1 DEF TrackerInv, BlockedIffTracked
    <3>3. BlockedIffTracked'
      BY <1>10, <2>2, <2>4, <3>2 DEF update_shutdown_blocked, BlockedIffTracked
    <3> QED
      BY <1>10, <2>1, <2>3, <3>3 DEF update_shutdown_blocked, TrackerInv
  <2>5. CASE Tail(message_queue) # << >>
    <3>1. Tail(message_queue)[Len(Tail(message_queue))] = message_queue[Len(message_queue)]
      BY <2>2, <2>5
    <3> QED
      BY <1>10, <2>1, <2>2, <2>3, <2>5, <3>1
      DEF update_shutdown_blocked, TrackerInv, BlockedIffTracked
  <2> QED
    BY <2>4, <2>5
<1>11. CASE ConnectionLost
  <2>1. << >> \in Seq(BusMsg) /\ to_bus' = << >>
    BY <1>11 DEF ConnectionLost
  <2>2. to_dsme' \in Seq(DsmeMsg)
    BY <1>11, PrefixOK DEF ConnectionLost, QueuesOK
  <2> QED
    BY <1>11, <2>1, <2>2, Unaffected DEF ConnectionLost, TrackerVars, QueuesOK
<1>12. ASSUME NEW name \in Clients, dsme_dbus_client_owner_cb_lost(name)
       PROVE  QueuesOK' /\ TrackerInv'
  <2>1. /\ UNCHANGED shutdown_blocked
        /\ dsme_dbus_tracker_remove_client(name, to_dsme)
    BY <1>12 DEF dsme_dbus_client_owner_cb_lost
  <2> QED
    BY <2>1, RemoveKeepsQueues, RemoveKeepsTracker DEF QueuesOK
<1>13. CASE UNCHANGED vars
  BY <1>13, Unaffected DEF vars, TrackerVars, QueuesOK
<1> QED
  BY <1>1, <1>2, <1>3, <1>4, <1>5, <1>6, <1>7, <1>8, <1>9, <1>10, <1>11, <1>12, <1>13
  DEF Next, Receive

\* The invariants hold when dsme starts.
LEMMA InitInv == Init => QueuesOK /\ TrackerInv
<1>1. Cardinality({}) = 0
  BY FS_EmptySet
<1>2. Init => BlockedIffTracked
  BY Zenon DEF Init, BlockedIffTracked
<1>3. Init => shutdown_blocked \in BOOLEAN
  BY Zenon DEF Init
<1>4. \A S : << >> \in Seq(S)
  OBVIOUS
<1>5. Init => QueuesOK /\ message_queue \in Seq(Broadcast)
  BY <1>4, Zenon DEF Init, QueuesOK
<1>6. Init => lut \subseteq Clients /\ client_cnt = Cardinality(lut)
  BY <1>1 DEF Init
<1> QED
  BY <1>2, <1>3, <1>5, <1>6 DEF TrackerInv

(***************************************************************************)
(* dbusproxy.c and state.c never disagree for good: when the messages on   *)
(* their way are handled, shutdown is blocked iff a client is tracked.     *)
(***************************************************************************)
THEOREM BlockersAgree == Spec => []BlockedIffTracked
<1>1. Init => QueuesOK /\ TrackerInv
  BY InitInv
<1>2. (QueuesOK /\ TrackerInv) /\ [Next]_vars => (QueuesOK /\ TrackerInv)'
  BY StepKeepsInv
<1>3. TrackerInv => BlockedIffTracked
  BY DEF TrackerInv
<1> QED
  BY <1>1, <1>2, <1>3, PTL DEF Spec
-----------------------------------------------------------------------------
(***************************************************************************)
(* Clients that live.                                                      *)
(***************************************************************************)
\* What makes dsme forget a client says that it is dead, or was taken for it.
Obituary(m) == m.kind = "dropped" \/ (m.kind = "owner" /\ ~m.value)

ObituariesTrue == \A i \in DOMAIN to_dsme :
                    Obituary(to_dsme[i]) => to_dsme[i].name \notin alive \ misjudged

LiveInv == QueuesOK /\ ObituariesTrue /\ LiveInhibitorTracked

\* A cancelled call leaves no obituary that was not there.
LEMMA CancelKeepsTruth ==
  ASSUME NEW q \in Seq(DsmeMsg), NEW name, NEW i \in DOMAIN q
  PROVE  LET r == dbus_pending_call_cancel(q, "owner", name) IN
         /\ DOMAIN r = DOMAIN q /\ r[i].name = q[i].name
         /\ Obituary(r[i]) => Obituary(q[i])
<1>1. q[i] \in DsmeMsg
  OBVIOUS
<1>2. \A m \in DsmeMsg : [m EXCEPT !.kind = "cancelled"].name = m.name
                         /\ ~Obituary([m EXCEPT !.kind = "cancelled"])
  BY DEF DsmeMsg, Obituary
<1> QED
  BY <1>1, <1>2 DEF dbus_pending_call_cancel

\* The obituaries in q are true of who lives now.
TrueIn(q, living) == \A i \in DOMAIN q : Obituary(q[i]) => q[i].name \notin living

\* Reading a message leaves the others, cancelled or not.
LEMMA RestTrue ==
  ASSUME NEW q \in Seq(DsmeMsg), q # << >>, NEW living, TrueIn(q, living)
  PROVE  /\ TrueIn(Tail(q), living)
         /\ \A name : TrueIn(dbus_pending_call_cancel(Tail(q), "owner", name), living)
         /\ Obituary(Head(q)) => Head(q).name \notin living
<1> DEFINE t == Tail(q)
<1>1. /\ t \in Seq(DsmeMsg) /\ Head(q) = q[1] /\ DOMAIN q = 1..Len(q) /\ Len(q) \in Nat
      /\ Len(q) # 0 /\ Len(t) = Len(q) - 1 /\ DOMAIN t = 1..Len(t)
  BY HeadTailProperties, EmptySeq
<1>2. \A i \in 1..Len(t) : t[i] = q[i + 1]
  BY HeadTailProperties
<1> HIDE DEF t
<1>3. \A i \in DOMAIN t : i + 1 \in DOMAIN q
  BY <1>1
<1>4. TrueIn(t, living)
  BY <1>1, <1>2, <1>3 DEF TrueIn
<1>5. ASSUME NEW name
      PROVE  TrueIn(dbus_pending_call_cancel(t, "owner", name), living)
  <2>1. DOMAIN dbus_pending_call_cancel(t, "owner", name) = DOMAIN t
    BY DEF dbus_pending_call_cancel
  <2> QED
    BY <1>1, <1>4, <2>1, CancelKeepsTruth DEF TrueIn
<1>6. 1 \in DOMAIN q
  BY <1>1
<1> QED
  BY <1>1, <1>4, <1>5, <1>6 DEF TrueIn, t

\* A new message keeps the queue true if it is no obituary, or a true one.
LEMMA NewTrue ==
  ASSUME NEW q \in Seq(DsmeMsg), NEW m \in DsmeMsg, NEW living, TrueIn(q, living),
         Obituary(m) => m.name \notin living
  PROVE  TrueIn(Append(q, m), living)
<1> DEFINE r == Append(q, m)
<1>1. /\ Len(q) \in Nat /\ DOMAIN q = 1..Len(q) /\ DOMAIN r = 1..(Len(q) + 1)
      /\ \A i \in 1..Len(q) : r[i] = q[i]
      /\ r[Len(q) + 1] = m
  BY AppendProperties
<1> HIDE DEF r
<1>2. \A i \in DOMAIN r : i \in DOMAIN q \/ i = Len(q) + 1
  BY <1>1
<1>3. TrueIn(r, living)
  BY <1>1, <1>2 DEF TrueIn
<1> QED
  BY <1>3 DEF r

\* Who lives is forgotten only when it says that it blocks no longer.
LEMMA StepKeepsLive ==
  ASSUME LiveInv, QueuesOK', [Next]_vars
  PROVE  ObituariesTrue' /\ LiveInhibitorTracked'
<1> DEFINE living == alive \ misjudged
           m == Head(to_dsme)
           rest == Tail(to_dsme)
<1>1. /\ to_dsme \in Seq(DsmeMsg) /\ to_bus \in Seq(BusMsg) /\ TrueIn(to_dsme, living)
      /\ inhibits \cap living \subseteq lut
  BY DEF LiveInv, QueuesOK, ObituariesTrue, TrueIn, LiveInhibitorTracked
<1>2. ASSUME TrueIn(to_dsme', living), UNCHANGED <<alive, misjudged>>
      PROVE  ObituariesTrue'
  BY <1>2 DEF ObituariesTrue, TrueIn
<1>3. ASSUME inhibits' \cap living \subseteq lut', UNCHANGED <<alive, misjudged>>
      PROVE  LiveInhibitorTracked'
  BY <1>3 DEF LiveInhibitorTracked
<1>4. ASSUME Ready
      PROVE  /\ m \in DsmeMsg /\ TrueIn(rest, living)
             /\ TrueIn(dbus_pending_call_cancel(rest, "owner", m.name), living)
             /\ Obituary(m) => m.name \notin living
  BY <1>1, <1>4, RestTrue, NextMessage DEF Ready, LiveInv
<1>5. ASSUME Ready, dsme_dbus_tracker_remove_client(m.name, rest)
      PROVE  TrueIn(to_dsme', living) /\ lut' = lut \ {m.name}
  <2>1. CASE m.name \in lut
    BY <1>4, <1>5, <2>1 DEF dsme_dbus_tracker_remove_client, dsme_dbus_client_dtor
  <2>2. CASE m.name \notin lut
    BY <1>4, <1>5, <2>2 DEF dsme_dbus_tracker_remove_client
  <2> QED
    BY <2>1, <2>2
<1>6. ASSUME Ready, dsme_dbus_tracker_add_client(m.name, rest)
      PROVE  TrueIn(to_dsme', living) /\ lut' = lut \cup {m.name}
  BY <1>4, <1>6 DEF dsme_dbus_tracker_add_client
<1>7. CASE Connect
  BY <1>7 DEF Connect, LiveInv, ObituariesTrue, LiveInhibitorTracked
<1>8. CASE manager_disconnect
  BY <1>8 DEF manager_disconnect, ObituariesTrue, LiveInhibitorTracked
<1>9. ASSUME NEW name \in Clients, NEW value \in BOOLEAN, Call(name, value)
      PROVE  ObituariesTrue' /\ LiveInhibitorTracked'
  <2> DEFINE n == [kind |-> "inhibit", name |-> name, value |-> value]
  <2>1. n \in DsmeMsg /\ ~Obituary(n)
    BY DEF DsmeMsg, Obituary
  <2>2. to_dsme' = Append(to_dsme, n) /\ UNCHANGED <<alive, misjudged, inhibits, lut>>
    BY <1>9 DEF Call
  <2> HIDE DEF n
  <2> QED
    BY <1>1, <1>2, <1>3, <2>1, <2>2, NewTrue
<1>10. ASSUME NEW name \in Clients, DropOff(name)
       PROVE  ObituariesTrue' /\ LiveInhibitorTracked'
  <2> DEFINE n == [kind |-> "dropped", name |-> name, value |-> TRUE]
             fewer == living \ {name}
  <2>1. n \in DsmeMsg /\ n.name \notin fewer
    BY DEF DsmeMsg
  <2>2. /\ to_dsme' \in {to_dsme, Append(to_dsme, n)} /\ alive' \ misjudged' = fewer
        /\ UNCHANGED <<inhibits, lut>>
    BY <1>10 DEF DropOff
  <2>3. TrueIn(to_dsme, fewer)
    BY <1>1 DEF TrueIn
  <2> HIDE DEF n
  <2>4. TrueIn(to_dsme', fewer)
    BY <1>1, <2>1, <2>2, <2>3, NewTrue
  <2> QED
    BY <1>1, <2>2, <2>4 DEF ObituariesTrue, TrueIn, LiveInhibitorTracked
<1>11. CASE BusHandles
  <2>1. CASE Head(to_bus).kind = "query"
    <3> DEFINE b == Head(to_bus)
    <3>1. PICK found \in BOOLEAN :
            /\ to_dsme' = Append(to_dsme, [kind |-> "owner", name |-> b.name,
                                           value |-> found])
            /\ misjudged' = misjudged \cup (IF found THEN {} ELSE {b.name} \cap alive)
      BY <1>11, <2>1 DEF BusHandles
    <3>2. UNCHANGED <<alive, inhibits, lut>>
      BY <1>11 DEF BusHandles
    <3>3. b \in BusMsg
      BY <1>1, <1>11 DEF BusHandles
    <3> DEFINE n == [kind |-> "owner", name |-> b.name, value |-> found]
               fewer == alive \ misjudged'
    <3>4. n \in DsmeMsg
      BY <3>3 DEF BusMsg, DsmeMsg
    <3>5. Obituary(n) => n.name \notin fewer
      BY <3>1 DEF Obituary
    <3>6. fewer \subseteq living
      BY <3>1
    <3>7. TrueIn(to_dsme, fewer)
      BY <1>1, <3>6 DEF TrueIn
    <3>8. to_dsme' = Append(to_dsme, n)
      BY <3>1
    <3> HIDE DEF n
    <3>9. TrueIn(to_dsme', fewer)
      BY <1>1, <3>4, <3>5, <3>7, <3>8, NewTrue
    <3> QED
      BY <1>1, <3>2, <3>6, <3>9 DEF ObituariesTrue, TrueIn, LiveInhibitorTracked
  <2>2. CASE Head(to_bus).kind # "query"
    BY <1>1, <1>2, <1>3, <1>11, <2>2 DEF BusHandles
  <2> QED
    BY <2>1, <2>2
<1>12. CASE block_shutdown
  <2>1. /\ Ready /\ UNCHANGED <<alive, misjudged>>
        /\ inhibits' = IF m.value THEN inhibits \cup {m.name} ELSE inhibits \ {m.name}
    BY <1>12 DEF block_shutdown
  <2>2. CASE m.value
    <3>1. dsme_dbus_tracker_add_client(m.name, rest)
      BY <1>12, <2>2 DEF block_shutdown
    <3>2. TrueIn(to_dsme', living) /\ lut' = lut \cup {m.name}
      BY <1>6, <2>1, <3>1
    <3> QED
      BY <1>1, <1>2, <1>3, <2>1, <2>2, <3>2
  <2>3. CASE ~m.value
    <3>1. dsme_dbus_tracker_remove_client(m.name, rest)
      BY <1>12, <2>3 DEF block_shutdown
    <3>2. TrueIn(to_dsme', living) /\ lut' = lut \ {m.name}
      BY <1>5, <2>1, <3>1
    <3> QED
      BY <1>1, <1>2, <1>3, <2>1, <2>3, <3>2
  <2> QED
    BY <2>2, <2>3
<1>13. CASE dsme_dbus_tracker_name_dropped
  <2>1. /\ Ready /\ UNCHANGED <<alive, misjudged, inhibits>> /\ Obituary(m)
        /\ dsme_dbus_tracker_remove_client(m.name, rest)
    BY <1>13 DEF dsme_dbus_tracker_name_dropped, Obituary
  <2>2. TrueIn(to_dsme', living) /\ lut' = lut \ {m.name} /\ m.name \notin living
    BY <1>4, <1>5, <2>1
  <2> QED
    BY <1>1, <1>2, <1>3, <2>1, <2>2
<1>14. CASE dsme_dbus_client_owner_cb
  <2>1. Ready /\ UNCHANGED <<alive, misjudged, inhibits>> /\ m.kind = "owner"
    BY <1>14 DEF dsme_dbus_client_owner_cb
  <2>2. CASE m.value
    <3>1. to_dsme' = rest /\ lut' = lut
      BY <1>14, <2>2 DEF dsme_dbus_client_owner_cb
    <3> QED
      BY <1>1, <1>2, <1>3, <1>4, <2>1, <3>1
  <2>3. CASE ~m.value
    <3>1. dsme_dbus_tracker_remove_client(m.name, rest) /\ Obituary(m)
      BY <1>14, <2>1, <2>3 DEF dsme_dbus_client_owner_cb, Obituary
    <3>2. TrueIn(to_dsme', living) /\ lut' = lut \ {m.name} /\ m.name \notin living
      BY <1>4, <1>5, <2>1, <3>1
    <3> QED
      BY <1>1, <1>2, <1>3, <2>1, <3>2
  <2> QED
    BY <2>2, <2>3
<1>15. CASE IgnoreReply
  BY <1>1, <1>2, <1>3, <1>4, <1>15 DEF IgnoreReply
<1>16. CASE update_shutdown_blocked
  BY <1>16 DEF update_shutdown_blocked, LiveInv, ObituariesTrue, LiveInhibitorTracked
<1>17. CASE ConnectionLost
  <2>1. PICK n \in 0 .. Len(to_dsme) : to_dsme' = SubSeq(to_dsme, 1, n)
    BY <1>17 DEF ConnectionLost
  <2>2. TrueIn(to_dsme', living)
    BY <1>1, <2>1, PrefixOK DEF TrueIn
  <2> QED
    BY <1>1, <1>2, <1>3, <1>17, <2>2 DEF ConnectionLost
<1>18. ASSUME NEW name \in Clients, dsme_dbus_client_owner_cb_lost(name)
       PROVE  ObituariesTrue' /\ LiveInhibitorTracked'
  <2>1. /\ UNCHANGED <<alive, inhibits>> /\ alive' \ misjudged' = living \ {name}
        /\ to_dsme = << >>
        /\ dsme_dbus_tracker_remove_client(name, to_dsme)
    BY <1>18 DEF dsme_dbus_client_owner_cb_lost
  <2>2. lut' = lut \/ lut' = lut \ {name}
    BY <2>1 DEF dsme_dbus_tracker_remove_client
  <2>3. to_dsme' = to_dsme \/ to_dsme' = dbus_pending_call_cancel(to_dsme, "owner", name)
    BY <2>1 DEF dsme_dbus_tracker_remove_client, dsme_dbus_client_dtor
  <2>4. DOMAIN to_dsme' = {}
    BY <2>1, <2>3 DEF dbus_pending_call_cancel
  <2> QED
    BY <1>1, <2>1, <2>2, <2>4 DEF ObituariesTrue, LiveInhibitorTracked
<1>19. CASE UNCHANGED vars
  BY <1>19 DEF vars, LiveInv, ObituariesTrue, LiveInhibitorTracked
<1> QED
  BY <1>7, <1>8, <1>9, <1>10, <1>11, <1>12, <1>13, <1>14, <1>15, <1>16, <1>17, <1>18,
     <1>19
  DEF Next, Receive

(***************************************************************************)
(* No late signal or reply of an earlier tracking makes dsme forget a      *)
(* client that lives and inhibits shutdown; a GetNameOwner that fails for  *)
(* another reason is the one exception.                                    *)
(***************************************************************************)
THEOREM LivingBlockersKept == Spec => []LiveInhibitorTracked
<1>1. Init => LiveInv /\ TrackerInv
  BY InitInv DEF Init, LiveInv, ObituariesTrue, LiveInhibitorTracked
<1>2. (LiveInv /\ TrackerInv) /\ [Next]_vars => (LiveInv /\ TrackerInv)'
  BY StepKeepsInv, StepKeepsLive DEF LiveInv
<1>3. LiveInv => LiveInhibitorTracked
  BY DEF LiveInv
<1> QED
  BY <1>1, <1>2, <1>3, PTL DEF Spec
=============================================================================
