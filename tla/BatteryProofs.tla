--------------------------- MODULE BatteryProofs ---------------------------
(***************************************************************************)
(* Proofs about batterytracker.c: what it has told dsme is what its values *)
(* call for, and its values are those of MCE.                              *)
(***************************************************************************)
EXTENDS Battery, SequenceTheorems, TLAPS

\* What a value may be, when nothing is known included.
AnyValue == (UNION {Values[q] : q \in Queries}) \cup {UNKNOWN, LEVEL_UNKNOWN}

\* What IsMessage describes, as a set.
Message ==
  [type : {"signal", "reply"}, of : Queries, value : AnyValue]
    \cup [type : {"error"}, of : Queries]
    \cup [type : {"owner", "owner_reply"}, running : BOOLEAN]
    \cup [type : {"init_done", "cancelled"}]

\* The types of what the invariants are about.
Types ==
  /\ known \in [Queries -> AnyValue]
  /\ mce \in [on : BOOLEAN, values : [Queries -> AnyValue]]
  /\ inbox \in Seq(Message)
  /\ pc \subseteq Queries \cup {"owner"}
  /\ {loaded, init_done, battery_empty_rethink_id, shutdown_requested, systembus,
      xmce_running, remembered, boot_done} \subseteq BOOLEAN

\* A module that is not loaded has no timers and has not asked for a shutdown.
DecisionOK ==
  /\ ReportsCurrent
  /\ ~loaded => /\ shutdown_requested = FALSE /\ battery_empty_rethink_id = FALSE
                /\ alarm_holdon_id = FALSE
-----------------------------------------------------------------------------
\* Messages about the owner of MCE's name, that it is there, about a value, and
\* the end of a call.
Runner(m) == m.type \in {"owner", "owner_reply"}
Runs(m) == Runner(m) /\ m.running
Says(m, c) == m.type \in {"signal", "reply"} /\ m.of = c
Ends(m, c) == m.type \in {"reply", "error"} /\ m.of = c

NoRunner(q) == \A i \in 1 .. Len(q) : ~Runner(q[i])
NoOwnerReply(q) == \A i \in 1 .. Len(q) : q[i].type # "owner_reply"
NoEnd(q, c) == \A i \in 1 .. Len(q) : ~Ends(q[i], c)

\* After the messages q, MCE is taken to be running, which p says of it before.
RunsAfter(q, p) ==
  \/ \E i \in 1 .. Len(q) : Runs(q[i]) /\ \A j \in 1 .. Len(q) : j > i => ~Runner(q[j])
  \/ p /\ NoRunner(q)

\* After the messages q, it is taken to be gone.
GoneAfter(q, p) ==
  \/ \E i \in 1 .. Len(q) : /\ Runner(q[i]) /\ ~Runs(q[i])
                            /\ \A j \in 1 .. Len(q) : j > i => ~Runner(q[j])
  \/ ~p /\ NoRunner(q)

\* One of the messages q makes the tracker ask MCE for everything.
Queried(q, p) ==
  \E i \in 1 .. Len(q) :
    /\ Runs(q[i])
    /\ ~p \/ \E j \in 1 .. Len(q) : j < i /\ Runner(q[j]) /\ ~Runs(q[j])

\* The last that the messages q say of c is v, or k is and they say nothing.
Told(q, c, v, k) ==
  \/ \E i \in 1 .. Len(q) : /\ Says(q[i], c) /\ parse(c, q[i].value) = v
                            /\ \A j \in 1 .. Len(q) : j > i => ~Says(q[j], c)
  \/ k = v /\ \A i \in 1 .. Len(q) : ~Says(q[i], c)

\* The bus says whether MCE is there, or will.
SyncOK ==
  /\ ~loaded => ~systembus
  /\ ~systembus => inbox = << >> /\ pc = {} /\ (xmce_running => remembered)
  /\ systembus => \/ mce.on /\ RunsAfter(inbox, xmce_running)
                  \/ ~mce.on /\ GoneAfter(inbox, xmce_running)
                  \/ /\ "owner" \in pc /\ (xmce_running => remembered)
                     /\ NoRunner(inbox)

\* MCE is being asked for c, or will be, or has told.
Follows(c) ==
  \/ c \in pc /\ NoEnd(inbox, c)
  \/ Queried(inbox, xmce_running)
  \/ "owner" \in pc /\ NoOwnerReply(inbox) /\ GoneAfter(inbox, xmce_running)
  \/ Told(inbox, c, parse(c, mce.values[c]), known[c])

\* Every value whose last query has not failed is followed while MCE is there.
TrackOK ==
  (systembus /\ mce.on /\ ~remembered) => \A c \in Queries \ failed : Follows(c)

\* The inductive invariant.
BInv == Types /\ DecisionOK /\ SyncOK /\ TrackOK
-----------------------------------------------------------------------------
(***************************************************************************)
(* What the messages on the connection add up to.                          *)
(***************************************************************************)
\* What a message that arrives changes.
LEMMA AfterAppend ==
  ASSUME NEW q \in Seq(Message), NEW m \in Message, NEW p, NEW c, NEW v, NEW k
  PROVE  LET r == Append(q, m) IN
         /\ Runs(m) => RunsAfter(r, p) /\ (GoneAfter(q, p) \/ ~p => Queried(r, p))
         /\ (Runner(m) /\ ~Runs(m)) => GoneAfter(r, p)
         /\ ~Runner(m) => /\ RunsAfter(q, p) => RunsAfter(r, p)
                          /\ GoneAfter(q, p) => GoneAfter(r, p)
                          /\ NoRunner(q) => NoRunner(r)
         /\ Queried(q, p) => Queried(r, p)
         /\ (Says(m, c) /\ parse(c, m.value) = v) => Told(r, c, v, k)
         /\ (~Says(m, c) /\ Told(q, c, v, k)) => Told(r, c, v, k)
         /\ (~Ends(m, c) /\ NoEnd(q, c)) => NoEnd(r, c)
         /\ (m.type # "owner_reply" /\ NoOwnerReply(q)) => NoOwnerReply(r)
<1> DEFINE r == Append(q, m)
           n == Len(q)
<1>1. /\ n \in Nat /\ Len(r) = n + 1
      /\ \A i \in 1 .. n : r[i] = q[i]
      /\ r[n + 1] = m
  BY AppendProperties
<1>2. Runs(m) => Runner(m)
  BY DEF Runs
<1> HIDE DEF r
<1>3. Runs(m) => RunsAfter(r, p)
  BY <1>1 DEF RunsAfter
<1>4. (Runner(m) /\ ~Runs(m)) => GoneAfter(r, p)
  BY <1>1 DEF GoneAfter
<1>5. Runs(m) => (GoneAfter(q, p) \/ ~p => Queried(r, p))
  BY <1>1 DEF GoneAfter, Queried
<1>6. ~Runner(m) => /\ RunsAfter(q, p) => RunsAfter(r, p)
                    /\ GoneAfter(q, p) => GoneAfter(r, p)
                    /\ NoRunner(q) => NoRunner(r)
  BY <1>1 DEF RunsAfter, GoneAfter, NoRunner
<1>7. Queried(q, p) => Queried(r, p)
  BY <1>1 DEF Queried
<1>8. (Says(m, c) /\ parse(c, m.value) = v) => Told(r, c, v, k)
  BY <1>1 DEF Told
<1>9. (~Says(m, c) /\ Told(q, c, v, k)) => Told(r, c, v, k)
  BY <1>1 DEF Told
<1>10. /\ (~Ends(m, c) /\ NoEnd(q, c)) => NoEnd(r, c)
       /\ (m.type # "owner_reply" /\ NoOwnerReply(q)) => NoOwnerReply(r)
  BY <1>1 DEF NoEnd, NoOwnerReply
<1> QED
  BY <1>3, <1>4, <1>5, <1>6, <1>7, <1>8, <1>9, <1>10 DEF r

\* What reading the first message changes.
LEMMA AfterTail ==
  ASSUME NEW q \in Seq(Message), q # << >>, NEW p, NEW c, NEW v, NEW k
  PROVE  LET h == Head(q)
             r == Tail(q) IN
         /\ Runner(h) => /\ RunsAfter(q, p) => RunsAfter(r, h.running)
                         /\ GoneAfter(q, p) => GoneAfter(r, h.running)
                         /\ Queried(q, p) => Queried(r, h.running) \/ (h.running /\ ~p)
                         /\ (~h.running /\ RunsAfter(q, p)) => Queried(r, FALSE)
                         /\ ~NoRunner(q)
         /\ ~Runner(h) => /\ RunsAfter(q, p) => RunsAfter(r, p)
                          /\ GoneAfter(q, p) => GoneAfter(r, p)
                          /\ Queried(q, p) => Queried(r, p)
         /\ Says(h, c) => (Told(q, c, v, k) => Told(r, c, v, parse(c, h.value)))
         /\ ~Says(h, c) => (Told(q, c, v, k) => Told(r, c, v, k))
         /\ NoEnd(q, c) => NoEnd(r, c) /\ ~Ends(h, c)
         /\ NoOwnerReply(q) => NoOwnerReply(r) /\ h.type # "owner_reply"
         /\ NoRunner(q) => NoRunner(r) /\ ~Runner(h)
<1> DEFINE h == Head(q)
           r == Tail(q)
           n == Len(q)
<1>1. /\ n \in Nat /\ n >= 1 /\ Len(r) = n - 1 /\ h = q[1]
      /\ \A i \in 1 .. n - 1 : r[i] = q[i + 1]
  BY HeadTailProperties, EmptySeq
<1>2. \A i \in 2 .. n : q[i] = r[i - 1] /\ i - 1 \in 1 .. n - 1
  BY <1>1
<1>3. Runs(h) <=> Runner(h) /\ h.running
  BY DEF Runs
<1> HIDE DEF r, h, n
<1>4. ASSUME Runner(h)
      PROVE  /\ RunsAfter(q, p) => RunsAfter(r, h.running)
             /\ GoneAfter(q, p) => GoneAfter(r, h.running)
             /\ Queried(q, p) => Queried(r, h.running) \/ (h.running /\ ~p)
             /\ (~h.running /\ RunsAfter(q, p)) => Queried(r, FALSE)
             /\ ~NoRunner(q)
  <2>1. RunsAfter(q, p) => RunsAfter(r, h.running)
    BY <1>1, <1>2, <1>3, <1>4 DEF RunsAfter, NoRunner, n
  <2>2. GoneAfter(q, p) => GoneAfter(r, h.running)
    BY <1>1, <1>2, <1>3, <1>4 DEF GoneAfter, NoRunner, n
  <2>3. Queried(q, p) => Queried(r, h.running) \/ (h.running /\ ~p)
    BY <1>1, <1>2, <1>3, <1>4 DEF Queried, n
  <2>4. (~h.running /\ RunsAfter(q, p)) => Queried(r, FALSE)
    BY <1>1, <1>2, <1>3, <1>4 DEF Queried, RunsAfter, NoRunner, n
  <2>5. ~NoRunner(q)
    BY <1>1, <1>4 DEF NoRunner, n
  <2> QED
    BY <2>1, <2>2, <2>3, <2>4, <2>5
<1>5. ASSUME ~Runner(h)
      PROVE  /\ RunsAfter(q, p) => RunsAfter(r, p)
             /\ GoneAfter(q, p) => GoneAfter(r, p)
             /\ Queried(q, p) => Queried(r, p)
  <2>1. RunsAfter(q, p) => RunsAfter(r, p)
    BY <1>1, <1>2, <1>3, <1>5 DEF RunsAfter, NoRunner, n
  <2>2. GoneAfter(q, p) => GoneAfter(r, p)
    BY <1>1, <1>2, <1>5 DEF GoneAfter, NoRunner, n
  <2>3. ASSUME Queried(q, p) PROVE Queried(r, p)
    <3>1. PICK i \in 1 .. n :
            /\ Runs(q[i])
            /\ ~p \/ \E j \in 1 .. n : j < i /\ Runner(q[j]) /\ ~Runs(q[j])
      BY <2>3 DEF Queried, n
    <3>2. i # 1 /\ \A j \in 1 .. n : Runner(q[j]) => j # 1
      BY <1>1, <1>3, <1>5, <3>1
    <3>3. /\ i - 1 \in 1 .. Len(r) /\ r[i - 1] = q[i]
          /\ \A j \in 1 .. n : Runner(q[j]) => j - 1 \in 1 .. Len(r) /\ r[j - 1] = q[j]
      BY <1>1, <1>2, <3>2
    <3>4. CASE ~p
      BY <3>1, <3>3, <3>4 DEF Queried
    <3>5. ASSUME NEW j \in 1 .. n, j < i, Runner(q[j]), ~Runs(q[j])
          PROVE  Queried(r, p)
      <4>1. j - 1 < i - 1 /\ j - 1 \in 1 .. Len(r) /\ r[j - 1] = q[j]
        BY <3>3, <3>5
      <4> QED
        BY <3>1, <3>3, <3>5, <4>1 DEF Queried
    <3> QED
      BY <3>1, <3>4, <3>5
  <2> QED
    BY <2>1, <2>2, <2>3
<1>6. ASSUME Says(h, c), Told(q, c, v, k)
      PROVE  Told(r, c, v, parse(c, h.value))
  <2>1. PICK i \in 1 .. n : /\ Says(q[i], c) /\ parse(c, q[i].value) = v
                            /\ \A j \in 1 .. n : j > i => ~Says(q[j], c)
    BY <1>1, <1>6 DEF Told, n
  <2>2. CASE i = 1
    BY <1>1, <2>1, <2>2 DEF Told, n
  <2>3. CASE i # 1
    BY <1>1, <1>2, <2>1, <2>3 DEF Told, n
  <2> QED
    BY <2>2, <2>3
<1>7. ~Says(h, c) => (Told(q, c, v, k) => Told(r, c, v, k))
  BY <1>1, <1>2 DEF Told, n
<1>8. /\ NoEnd(q, c) => NoEnd(r, c) /\ ~Ends(h, c)
      /\ NoOwnerReply(q) => NoOwnerReply(r) /\ h.type # "owner_reply"
      /\ NoRunner(q) => NoRunner(r) /\ ~Runner(h)
  BY <1>1 DEF NoEnd, NoOwnerReply, NoRunner, n
<1> QED
  BY <1>4, <1>5, <1>6, <1>7, <1>8 DEF r, h

\* Cancelling the calls for values leaves what is said of the owner.
LEMMA AfterCancel ==
  ASSUME NEW q \in Seq(Message), NEW p
  PROVE  LET r == Without(q, Queries) IN
         /\ r \in Seq(Message)
         /\ RunsAfter(q, p) => RunsAfter(r, p)
         /\ GoneAfter(q, p) => GoneAfter(r, p)
         /\ Queried(q, p) => Queried(r, p)
         /\ NoOwnerReply(q) => NoOwnerReply(r)
         /\ \A c \in Queries : NoEnd(r, c)
<1> DEFINE r == Without(q, Queries)
           n == Len(q)
           x == [type |-> "cancelled"]
<1>1. n \in Nat /\ DOMAIN q = 1 .. n /\ \A i \in 1 .. n : q[i] \in Message
  OBVIOUS
<1>2. x \in Message /\ ~Runner(x) /\ ~Runs(x) /\ x.type = "cancelled"
      /\ \A c \in Queries : ~Ends(x, c)
  BY DEF Message, Runner, Runs, Ends
<1>3. ASSUME NEW i \in 1 .. n
      PROVE  /\ r[i] = q[i] \/ r[i] = x
             /\ Runner(q[i]) => r[i] = q[i]
             /\ \A c \in Queries : ~Ends(r[i], c)
  <2> HIDE DEF x
  <2>1. r[i] = IF q[i].type \in {"reply", "error"} /\ q[i].of \in Queries THEN x ELSE q[i]
    BY <1>1, <1>3 DEF Without, x
  <2>2. \A c \in Queries : ~Ends(x, c)
    BY <1>2
  <2>3. CASE q[i].type \in {"reply", "error"} /\ q[i].of \in Queries
    BY <2>1, <2>2, <2>3 DEF Runner
  <2>4. CASE ~(q[i].type \in {"reply", "error"} /\ q[i].of \in Queries)
    BY <2>1, <2>4 DEF Ends
  <2> QED
    BY <2>3, <2>4
<1>4. r \in Seq(Message) /\ Len(r) = n
  <2>1. r \in [1 .. n -> Message]
    BY <1>1, <1>2, <1>3 DEF Without
  <2> QED
    BY <1>1, <2>1, SeqDef
<1>5. \A i \in 1 .. n : /\ Runner(r[i]) <=> Runner(q[i])
                        /\ Runs(r[i]) <=> Runs(q[i])
                        /\ r[i].type = "owner_reply" => q[i].type = "owner_reply"
                        /\ \A c \in Queries : ~Ends(r[i], c)
  <2> SUFFICES ASSUME NEW i \in 1 .. n
               PROVE  /\ Runner(r[i]) <=> Runner(q[i])
                      /\ Runs(r[i]) <=> Runs(q[i])
                      /\ r[i].type = "owner_reply" => q[i].type = "owner_reply"
                      /\ \A c \in Queries : ~Ends(r[i], c)
    OBVIOUS
  <2> HIDE DEF r, x, n
  <2>1. CASE r[i] = q[i]
    BY <1>3, <2>1
  <2>2. CASE r[i] = x
    BY <1>2, <1>3, <2>2 DEF Runs
  <2> QED
    BY <1>3, <2>1, <2>2
<1> HIDE DEF r, n, x
<1>6. RunsAfter(q, p) => RunsAfter(r, p)
  BY <1>4, <1>5 DEF RunsAfter, NoRunner, n
<1>7. GoneAfter(q, p) => GoneAfter(r, p)
  BY <1>4, <1>5 DEF GoneAfter, NoRunner, n
<1>8. Queried(q, p) => Queried(r, p)
  BY <1>4, <1>5 DEF Queried, n
<1>9. (NoOwnerReply(q) => NoOwnerReply(r)) /\ \A c \in Queries : NoEnd(r, c)
  BY <1>4, <1>5 DEF NoOwnerReply, NoEnd, n
<1> QED
  BY <1>4, <1>6, <1>7, <1>8, <1>9 DEF r
-----------------------------------------------------------------------------
(***************************************************************************)
(* The decision.                                                           *)
(***************************************************************************)
\* What the decision is made from.
Grounds == <<known, limit, init_done, dsme_state, alarm_active>>

\* The decision depends on nothing else.
LEMMA SameDecision ==
  ASSUME UNCHANGED Grounds
  PROVE  request_shutdown' <=> request_shutdown
BY DEF Grounds, request_shutdown, condition_battery_is_empty, condition_charging_is_on,
       condition_level_is_critical

\* A decision that is made anew soon, or from the same grounds, is as good as before.
LEMMA QuietKeepsDecision ==
  ASSUME Types, DecisionOK, UNCHANGED <<loaded, shutdown_requested>>,
         loaded = TRUE \/ UNCHANGED <<battery_empty_rethink_id, alarm_holdon_id>>,
         battery_empty_rethink_id' = TRUE \/
           (UNCHANGED Grounds /\ battery_empty_rethink_id' = battery_empty_rethink_id),
         known'["charger"] # UNKNOWN => charger_prev' = known'["charger"]
  PROVE  DecisionOK'
<1>1. CASE battery_empty_rethink_id' = TRUE
  BY <1>1 DEF DecisionOK, ReportsCurrent
<1>2. CASE UNCHANGED Grounds /\ battery_empty_rethink_id' = battery_empty_rethink_id
  <2>1. request_shutdown' <=> request_shutdown
    BY <1>2, SameDecision
  <2>2. loaded /\ ~battery_empty_rethink_id => (shutdown_requested <=> request_shutdown)
    BY DEF DecisionOK, ReportsCurrent
  <2>3. loaded' /\ ~battery_empty_rethink_id' => (shutdown_requested' <=> request_shutdown')
    BY <1>2, <2>1, <2>2
  <2>4. shutdown_requested' \in BOOLEAN
    BY DEF Types
  <2>5. loaded' /\ ~battery_empty_rethink_id' => shutdown_requested' = request_shutdown'
    BY <2>3, <2>4 DEF request_shutdown
  <2> QED
    BY <2>5 DEF DecisionOK, ReportsCurrent
<1> QED
  BY <1>1, <1>2

\* Setting a value leads to a new decision when it changes.
LEMMA ValueSetKeepsDecision ==
  ASSUME Types, DecisionOK, loaded = TRUE, NEW c \in Queries, NEW v \in AnyValue,
         value_set(c, v),
         UNCHANGED <<loaded, shutdown_requested, limit, init_done, dsme_state, alarm_active>>
  PROVE  /\ DecisionOK' /\ known' \in [Queries -> AnyValue]
         /\ known'[c] = v /\ \A d \in Queries : d # c => known'[d] = known[d]
         /\ battery_empty_rethink_id' \in BOOLEAN
<1>1. /\ known \in [Queries -> AnyValue] /\ battery_empty_rethink_id \in BOOLEAN
      /\ "charger" \in Queries
  BY BatteryAssumption DEF Types
<1>2. /\ known' = [known EXCEPT ![c] = v]
      /\ battery_empty_rethink_id' = (battery_empty_rethink_id \/ known[c] # v)
      /\ charger_prev' = IF c = "charger" /\ v # known[c] /\ v # UNKNOWN THEN v
                         ELSE charger_prev
  BY DEF value_set
<1>3. /\ known' \in [Queries -> AnyValue]
      /\ known'[c] = v /\ \A d \in Queries : d # c => known'[d] = known[d]
  BY <1>1, <1>2
<1>4. battery_empty_rethink_id' \in BOOLEAN
  BY <1>1, <1>2
<1>5. known'["charger"] # UNKNOWN => charger_prev' = known'["charger"]
  BY <1>1, <1>2, <1>3 DEF DecisionOK, ReportsCurrent
<1>6. CASE known[c] # v
  BY <1>2, <1>3, <1>4, <1>5, <1>6, QuietKeepsDecision
<1>7. CASE known[c] = v
  <2>1. known' = known
    BY <1>1, <1>2, <1>7
  <2>2. battery_empty_rethink_id' = battery_empty_rethink_id
    BY <1>1, <1>2, <1>7
  <2> QED
    BY <1>3, <1>4, <1>5, <2>1, <2>2, QuietKeepsDecision DEF Grounds
<1> QED
  BY <1>6, <1>7

\* What MCE sends is parsed to a value.
LEMMA ParseType ==
  ASSUME NEW c, NEW v \in AnyValue
  PROVE  parse(c, v) \in AnyValue
BY DEF parse, AnyValue
-----------------------------------------------------------------------------
(***************************************************************************)
(* The messages of the connection.                                         *)
(***************************************************************************)
\* What following MCE depends on.
Following == <<loaded, known, systembus, xmce_running, pc, inbox, remembered, mce, failed>>

\* A step that leaves that alone.
LEMMA Unaffected ==
  ASSUME SyncOK, TrackOK, UNCHANGED Following
  PROVE  SyncOK' /\ TrackOK'
BY DEF SyncOK, TrackOK, Follows, Following

\* What Receive leaves alone.
LEMMA ReceiveFrame ==
  ASSUME BInv, Receive
  PROVE  /\ loaded = TRUE /\ systembus = TRUE /\ inbox # << >> /\ inbox \in Seq(Message)
         /\ Head(inbox) \in Message /\ Tail(inbox) \in Seq(Message)
         /\ UNCHANGED <<loaded, limit, dsme_state, alarm_active, shutdown_requested, systembus,
                        mce, failed, boot_done>>
<1>1. loaded /\ systembus /\ inbox # << >>
  BY DEF Receive
<1>2. /\ inbox \in Seq(Message) /\ loaded \in BOOLEAN /\ systembus \in BOOLEAN
  BY DEF BInv, Types
<1>3. Head(inbox) \in Message /\ Tail(inbox) \in Seq(Message)
  BY <1>1, <1>2, HeadTailProperties
<1>4. UNCHANGED <<loaded, limit, dsme_state, alarm_active, shutdown_requested, systembus,
                  mce, failed, boot_done>>
  BY DEF Receive, envVars
<1> QED
  BY <1>1, <1>2, <1>3, <1>4

\* A message that is not about the owner: what it says is known, what it ends is
\* no longer pending.
LEMMA ReadKeepsFollowing ==
  ASSUME BInv, systembus = TRUE, inbox # << >>, ~Runner(Head(inbox)),
         inbox' = Tail(inbox),
         UNCHANGED <<loaded, systembus, xmce_running, remembered, mce, failed>>,
         "owner" \in pc => "owner" \in pc',
         \A c \in Queries : (c \in pc /\ ~Ends(Head(inbox), c)) => c \in pc',
         \A c \in Queries : IF Says(Head(inbox), c)
                            THEN known'[c] = parse(c, Head(inbox).value)
                            ELSE known'[c] = known[c]
  PROVE  SyncOK' /\ TrackOK'
<1> DEFINE h == Head(inbox)
           p == xmce_running
<1>1. inbox \in Seq(Message)
  BY DEF BInv, Types
<1>2. /\ RunsAfter(inbox, p) => RunsAfter(inbox', p)
      /\ GoneAfter(inbox, p) => GoneAfter(inbox', p)
      /\ Queried(inbox, p) => Queried(inbox', p)
      /\ NoRunner(inbox) => NoRunner(inbox')
      /\ NoOwnerReply(inbox) => NoOwnerReply(inbox')
  BY <1>1, AfterTail
<1>3. SyncOK'
  BY <1>2 DEF BInv, SyncOK
<1>4. ASSUME NEW c \in Queries, Follows(c)
      PROVE  Follows(c)'
  <2> DEFINE v == parse(c, mce.values[c])
  <2>1. /\ Says(h, c) => (Told(inbox, c, v, known[c])
                            => Told(inbox', c, v, parse(c, h.value)))
        /\ ~Says(h, c) => (Told(inbox, c, v, known[c]) => Told(inbox', c, v, known[c]))
        /\ NoEnd(inbox, c) => NoEnd(inbox', c) /\ ~Ends(h, c)
    BY <1>1, AfterTail
  <2>2. parse(c, mce'.values[c]) = v
    OBVIOUS
  <2>3. CASE c \in pc /\ NoEnd(inbox, c)
    BY <2>1, <2>3 DEF Follows
  <2>4. CASE Queried(inbox, p)
    BY <1>2, <2>4 DEF Follows
  <2>5. CASE "owner" \in pc /\ NoOwnerReply(inbox) /\ GoneAfter(inbox, p)
    BY <1>2, <2>5 DEF Follows
  <2>6. CASE Told(inbox, c, v, known[c])
    <3>1. Told(inbox', c, v, known'[c])
      BY <2>1, <2>6
    <3> QED
      BY <2>2, <3>1 DEF Follows
  <2> QED
    BY <1>4, <2>3, <2>4, <2>5, <2>6 DEF Follows
<1>5. TrackOK'
  BY <1>4 DEF BInv, TrackOK
<1> QED
  BY <1>3, <1>5

\* A message about the owner: MCE that appears is asked for everything, and when it
\* has gone it will be, should it be back.
LEMMA OwnerKeepsFollowing ==
  ASSUME BInv, systembus = TRUE, inbox # << >>, Runner(Head(inbox)), NEW pending,
         xmce_running_set(Head(inbox).running, Tail(inbox), pending),
         pending = pc \/ (pending = pc \ {"owner"} /\ Head(inbox).type = "owner_reply"),
         UNCHANGED <<loaded, known, systembus, mce, failed>>
  PROVE  /\ SyncOK' /\ TrackOK'
         /\ inbox' \in Seq(Message) /\ pc' \subseteq Queries \cup {"owner"}
         /\ xmce_running' \in BOOLEAN /\ remembered' \in BOOLEAN
<1> DEFINE h == Head(inbox)
           R == Head(inbox).running
           t == Tail(inbox)
           p == xmce_running
<1>1. /\ inbox \in Seq(Message) /\ p \in BOOLEAN /\ remembered \in BOOLEAN
      /\ pc \subseteq Queries \cup {"owner"} /\ "owner" \notin Queries
      /\ mce.on \in BOOLEAN
  BY BatteryAssumption DEF BInv, Types
<1>2. h \in Message /\ t \in Seq(Message)
  BY <1>1, HeadTailProperties
<1>3. R \in BOOLEAN
  BY <1>2 DEF Message, Runner
<1>4. /\ RunsAfter(inbox, p) => RunsAfter(t, R)
      /\ GoneAfter(inbox, p) => GoneAfter(t, R)
      /\ Queried(inbox, p) => Queried(t, R) \/ (R /\ ~p)
      /\ (~R /\ RunsAfter(inbox, p)) => Queried(t, FALSE)
      /\ ~NoRunner(inbox)
      /\ NoOwnerReply(inbox) => NoOwnerReply(t) /\ h.type # "owner_reply"
  BY <1>1, AfterTail
<1>5. /\ xmce_running' = R /\ remembered' = (remembered /\ R)
      /\ pc' = IF R = p THEN pending
               ELSE IF R THEN pending \cup Queries ELSE pending \ Queries
      /\ inbox' = IF R = p THEN t ELSE Without(t, Queries)
  BY DEF xmce_running_set, xmce_send_queries
<1>6. /\ inbox' \in Seq(Message)
      /\ RunsAfter(t, R) => RunsAfter(inbox', R)
      /\ GoneAfter(t, R) => GoneAfter(inbox', R)
      /\ Queried(t, R) => Queried(inbox', R)
      /\ NoOwnerReply(t) => NoOwnerReply(inbox')
      /\ R # p => \A c \in Queries : NoEnd(inbox', c)
  <2>1. CASE R = p
    BY <1>2, <1>5, <2>1
  <2>2. CASE R # p
    BY <1>2, <1>5, <2>2, AfterCancel
  <2> QED
    BY <2>1, <2>2
<1> HIDE DEF h, R, t, p
<1>7. /\ xmce_running' \in BOOLEAN /\ remembered' \in BOOLEAN
      /\ pc' \subseteq Queries \cup {"owner"}
  BY <1>1, <1>3, <1>5
<1>8. \/ mce.on /\ RunsAfter(inbox, p)
      \/ ~mce.on /\ GoneAfter(inbox, p)
  BY <1>4 DEF BInv, SyncOK, p
<1>9. SyncOK'
  BY <1>4, <1>5, <1>6, <1>8 DEF BInv, SyncOK
<1>10. ASSUME mce.on, ~remembered', NEW c \in Queries \ failed
       PROVE  Follows(c)'
  <2>1. RunsAfter(inbox, p)
    BY <1>8, <1>10
  <2>2. CASE ~R
    <3>1. Queried(t, FALSE) /\ R = FALSE
      BY <1>3, <1>4, <2>1, <2>2
    <3> QED
      BY <1>5, <1>6, <3>1 DEF Follows
  <2>3. CASE R /\ ~p
    <3>1. R # p /\ c \in pc'
      BY <1>1, <1>3, <1>5, <2>3
    <3> QED
      BY <1>6, <3>1 DEF Follows
  <2>4. CASE R /\ p
    <3>1. R = p /\ R = TRUE /\ inbox' = t /\ pc' = pending /\ xmce_running' = R
      BY <1>1, <1>3, <1>5, <2>4
    <3>2. ~remembered
      BY <1>1, <1>5, <1>10, <3>1
    <3>3. Follows(c)
      BY <1>10, <3>2 DEF BInv, TrackOK
    <3> DEFINE v == parse(c, mce.values[c])
    <3>4. ~Says(h, c)
      BY DEF Says, Runner, h
    <3>5. /\ Told(inbox, c, v, known[c]) => Told(t, c, v, known[c])
          /\ NoEnd(inbox, c) => NoEnd(t, c)
      BY <1>1, <3>4, AfterTail DEF h, t
    <3>6. parse(c, mce'.values[c]) = v /\ known'[c] = known[c]
      OBVIOUS
    <3>7. CASE c \in pc /\ NoEnd(inbox, c)
      <4>1. c \in pending
        BY <1>1, <3>7
      <4> QED
        BY <3>1, <3>5, <3>7, <4>1 DEF Follows
    <3>8. CASE Queried(inbox, p)
      BY <1>4, <2>4, <3>1, <3>8 DEF Follows
    <3>9. CASE "owner" \in pc /\ NoOwnerReply(inbox) /\ GoneAfter(inbox, p)
      <4>1. pending = pc
        BY <1>4, <3>9 DEF h
      <4> QED
        BY <1>4, <3>1, <3>9, <4>1 DEF Follows
    <3>10. CASE Told(inbox, c, v, known[c])
      <4>1. Told(inbox', c, v, known'[c])
        BY <3>1, <3>5, <3>6, <3>10
      <4> QED
        BY <3>6, <4>1 DEF Follows
    <3> QED
      BY <3>3, <3>7, <3>8, <3>9, <3>10 DEF Follows, p
  <2> QED
    BY <1>3, <2>2, <2>3, <2>4
<1>11. TrackOK'
  BY <1>10 DEF TrackOK
<1> QED
  BY <1>6, <1>7, <1>9, <1>11

\* The next message of the connection is handled.
LEMMA ReceiveKeeps ==
  ASSUME BInv, Receive
  PROVE  BInv'
<1> DEFINE h == Head(inbox)
<1>1. /\ loaded = TRUE /\ systembus = TRUE /\ inbox # << >> /\ inbox \in Seq(Message)
      /\ h \in Message /\ Tail(inbox) \in Seq(Message)
      /\ UNCHANGED <<loaded, limit, dsme_state, alarm_active, shutdown_requested, systembus,
                     mce, failed, boot_done>>
  BY ReceiveFrame
<1>2. Types /\ DecisionOK /\ "owner" \notin Queries
  BY BatteryAssumption DEF BInv
<1>3. ASSUME NEW c \in Queries, h.type \in {"signal", "reply"}, h.of = c,
             value_set(c, parse(c, h.value)), UNCHANGED <<init_done, xmce_running, remembered>>,
             inbox' = Tail(inbox), pc' = pc \/ (pc' = pc \ {c} /\ h.type = "reply")
      PROVE  BInv'
  <2>1. h.value \in AnyValue
    BY <1>1, <1>3 DEF Message
  <2>2. parse(c, h.value) \in AnyValue
    BY <2>1, ParseType
  <2>3. /\ DecisionOK' /\ known' \in [Queries -> AnyValue]
        /\ known'[c] = parse(c, h.value) /\ \A d \in Queries : d # c => known'[d] = known[d]
        /\ battery_empty_rethink_id' \in BOOLEAN
    BY <1>1, <1>2, <1>3, <2>2, ValueSetKeepsDecision
  <2>4. Types'
    BY <1>1, <1>2, <1>3, <2>3 DEF Types
  <2>5. ~Runner(h) /\ \A d \in Queries : Says(h, d) <=> d = c
    BY <1>3 DEF Runner, Says
  <2>6. \A d \in Queries : (d \in pc /\ ~Ends(h, d)) => d \in pc'
    BY <1>3 DEF Ends
  <2>7. "owner" \in pc => "owner" \in pc'
    BY <1>2, <1>3
  <2> HIDE DEF h
  <2>8. \A d \in Queries : IF Says(h, d) THEN known'[d] = parse(d, h.value)
                           ELSE known'[d] = known[d]
    BY <2>3, <2>5
  <2>9. SyncOK' /\ TrackOK'
    BY <1>1, <1>3, <2>5, <2>6, <2>7, <2>8, ReadKeepsFollowing DEF h
  <2> QED
    BY <2>3, <2>4, <2>9 DEF BInv
<1>4. ASSUME ~Runner(h), \A c \in Queries : ~Says(h, c), inbox' = Tail(inbox),
             UNCHANGED <<known, charger_prev, xmce_running, remembered>>,
             init_done' \in BOOLEAN, battery_empty_rethink_id' \in BOOLEAN,
             battery_empty_rethink_id' = TRUE \/
               UNCHANGED <<init_done, battery_empty_rethink_id>>,
             pc' = pc \/ \E c \in Queries : pc' = pc \ {c} /\ Ends(h, c)
      PROVE  BInv'
  <2>1. DecisionOK'
    BY <1>1, <1>2, <1>4, QuietKeepsDecision DEF Grounds, DecisionOK, ReportsCurrent
  <2>2. Types'
    BY <1>1, <1>2, <1>4 DEF Types
  <2>3. /\ \A d \in Queries : (d \in pc /\ ~Ends(h, d)) => d \in pc'
        /\ "owner" \in pc => "owner" \in pc'
    BY <1>2, <1>4
  <2>4. SyncOK' /\ TrackOK'
    BY <1>1, <1>4, <2>3, ReadKeepsFollowing
  <2> QED
    BY <2>1, <2>2, <2>4 DEF BInv
<1>5. CASE h.type = "signal" /\ signal_cb(h)
  <2>1. h.of \in Queries
    BY <1>1, <1>5 DEF Message
  <2> QED
    BY <1>3, <1>5, <2>1 DEF signal_cb
<1>6. CASE h.type \in {"reply", "error"} /\ reply_cb(h)
  <2>1. h.of \in Queries
    BY <1>1, <1>6 DEF Message
  <2>2. CASE h.type = "reply"
    BY <1>3, <1>6, <2>1, <2>2 DEF reply_cb
  <2>3. CASE h.type = "error"
    <3>1. ~Runner(h) /\ (\A c \in Queries : ~Says(h, c)) /\ Ends(h, h.of)
      BY <2>3 DEF Runner, Says, Ends
    <3>2. /\ inbox' = Tail(inbox) /\ pc' = pc \ {h.of}
          /\ UNCHANGED <<known, charger_prev, xmce_running, remembered, init_done,
                         battery_empty_rethink_id>>
      BY <1>6, <2>3 DEF reply_cb
    <3>3. init_done' \in BOOLEAN /\ battery_empty_rethink_id' \in BOOLEAN
      BY <1>2, <3>2 DEF Types
    <3> QED
      BY <1>4, <2>1, <3>1, <3>2, <3>3
  <2> QED
    BY <1>6, <2>2, <2>3
<1>7. ASSUME NEW pending, Runner(h), xmce_running_set(h.running, Tail(inbox), pending),
             pending = pc \/ (pending = pc \ {"owner"} /\ h.type = "owner_reply"),
             UNCHANGED <<known, battery_empty_rethink_id, charger_prev, init_done>>
      PROVE  BInv'
  <2>1. /\ SyncOK' /\ TrackOK'
        /\ inbox' \in Seq(Message) /\ pc' \subseteq Queries \cup {"owner"}
        /\ xmce_running' \in BOOLEAN /\ remembered' \in BOOLEAN
    BY <1>1, <1>7, OwnerKeepsFollowing
  <2>2. Types'
    BY <1>1, <1>2, <1>7, <2>1 DEF Types
  <2>3. DecisionOK'
    BY <1>1, <1>2, <1>7, QuietKeepsDecision DEF Grounds, DecisionOK, ReportsCurrent
  <2> QED
    BY <2>1, <2>2, <2>3 DEF BInv
<1>8. CASE h.type = "owner" /\ xmce_name_owner_filter_cb(h)
  BY <1>7, <1>8 DEF xmce_name_owner_filter_cb, Runner
<1>9. CASE h.type = "owner_reply" /\ xmce_name_owner_reply_cb(h)
  BY <1>7, <1>9 DEF xmce_name_owner_reply_cb, Runner
<1>10. CASE h.type = "init_done" /\ init_done_signal_cb
  <2>1. ~Runner(h) /\ \A c \in Queries : ~Says(h, c)
    BY <1>10 DEF Runner, Says
  <2>2. init_done \in BOOLEAN /\ battery_empty_rethink_id \in BOOLEAN
    BY <1>2 DEF Types
  <2>3. /\ init_done' = TRUE
        /\ battery_empty_rethink_id' = (battery_empty_rethink_id \/ ~init_done)
        /\ inbox' = Tail(inbox)
        /\ UNCHANGED <<known, charger_prev, xmce_running, remembered, pc>>
    BY <1>10 DEF init_done_signal_cb, init_done_set
  <2>4. /\ battery_empty_rethink_id' \in BOOLEAN
        /\ ~init_done => battery_empty_rethink_id' = TRUE
        /\ init_done => battery_empty_rethink_id' = battery_empty_rethink_id
    BY <2>2, <2>3
  <2>5. \/ battery_empty_rethink_id' = TRUE
        \/ init_done' = init_done /\ battery_empty_rethink_id' = battery_empty_rethink_id
    BY <2>2, <2>3, <2>4
  <2> QED
    BY <1>4, <2>1, <2>3, <2>4, <2>5
<1>11. CASE h.type = "cancelled" /\ unhandled
  <2>1. ~Runner(h) /\ \A c \in Queries : ~Says(h, c)
    BY <1>11 DEF Runner, Says
  <2>2. /\ inbox' = Tail(inbox)
        /\ UNCHANGED <<known, battery_empty_rethink_id, charger_prev, init_done, xmce_running,
                       remembered, pc>>
    BY <1>11 DEF unhandled
  <2>3. init_done' \in BOOLEAN /\ battery_empty_rethink_id' \in BOOLEAN
    BY <1>2, <2>2 DEF Types
  <2> QED
    BY <1>4, <2>1, <2>2, <2>3
<1> QED
  BY <1>5, <1>6, <1>8, <1>9, <1>10, <1>11 DEF Receive
-----------------------------------------------------------------------------
(***************************************************************************)
(* MCE, the bus daemon and systemd.                                        *)
(***************************************************************************)
\* What these leave alone.
LEMMA OutsideFrame ==
  ASSUME BInv, UNCHANGED <<trackerVars, systembus, xmce_running, remembered, pc>>,
         inbox' \in Seq(Message), boot_done' \in BOOLEAN,
         mce' \in [on : BOOLEAN, values : [Queries -> AnyValue]]
  PROVE  Types' /\ DecisionOK'
<1>1. UNCHANGED <<loaded, limit, known, init_done, dsme_state, alarm_active, alarm_holdon_id,
                  battery_empty_rethink_id, shutdown_requested, charger_prev>>
  BY DEF trackerVars
<1>2. Types'
  BY <1>1 DEF BInv, Types
<1>3. DecisionOK'
  BY <1>1, QuietKeepsDecision DEF BInv, Grounds, DecisionOK, ReportsCurrent
<1> QED
  BY <1>2, <1>3

\* Without a connection there is nothing to follow.
LEMMA OffBus ==
  ASSUME SyncOK, systembus = FALSE,
         UNCHANGED <<loaded, systembus, inbox, pc, xmce_running, remembered>>
  PROVE  SyncOK' /\ TrackOK'
BY DEF SyncOK, TrackOK

\* MCE starts, with values of its own: it is asked when the bus has told.
LEMMA StartKeeps ==
  ASSUME BInv, NEW values \in StartValues, MceStarts(values)
  PROVE  BInv'
<1> DEFINE m == [type |-> "owner", running |-> TRUE]
           p == xmce_running
<1>1. /\ inbox \in Seq(Message) /\ systembus \in BOOLEAN /\ p \in BOOLEAN
      /\ boot_done \in BOOLEAN
  BY DEF BInv, Types
<1>2. m \in Message /\ Runs(m)
  BY DEF Message, Runs, Runner
<1>3. /\ ~mce.on /\ mce' = [on |-> TRUE, values |-> values] /\ failed' = {}
      /\ inbox' = IF systembus THEN Append(inbox, m) ELSE inbox
      /\ UNCHANGED <<trackerVars, systembus, xmce_running, remembered, pc, boot_done>>
  BY DEF MceStarts, Send
<1> HIDE DEF m
<1>4. values \in [Queries -> AnyValue]
  <2>1. /\ values = [q \in Queries |-> values[q]]
        /\ \A q \in Queries : values[q] \in Values[q] \cup {Nothing[q]}
    BY BatteryAssumption
  <2>2. \A q \in Queries : Nothing[q] \in {UNKNOWN, LEVEL_UNKNOWN}
    BY DEF Nothing
  <2>3. \A q \in Queries : values[q] \in AnyValue
    BY <2>1, <2>2 DEF AnyValue
  <2> QED
    BY <2>1, <2>3
<1>5. mce' \in [on : BOOLEAN, values : [Queries -> AnyValue]] /\ mce'.on = TRUE
  BY <1>3, <1>4
<1>6. inbox' \in Seq(Message)
  BY <1>1, <1>2, <1>3, AppendProperties
<1>7. Types' /\ DecisionOK'
  BY <1>1, <1>3, <1>5, <1>6, OutsideFrame
<1>8. CASE systembus = FALSE
  BY <1>3, <1>7, <1>8, OffBus DEF BInv, trackerVars
<1>9. CASE systembus = TRUE
  <2>1. inbox' = Append(inbox, m)
    BY <1>3, <1>9
  <2>2. RunsAfter(inbox', p) /\ (GoneAfter(inbox, p) \/ ~p => Queried(inbox', p))
    BY <1>1, <1>2, <2>1, AfterAppend
  <2>3. GoneAfter(inbox, p) \/ (p => remembered)
    BY <1>3, <1>9 DEF BInv, SyncOK
  <2>4. SyncOK'
    BY <1>3, <1>5, <1>9, <2>2 DEF BInv, SyncOK, trackerVars
  <2>5. TrackOK'
    BY <1>3, <2>2, <2>3 DEF TrackOK, Follows
  <2> QED
    BY <1>7, <2>4, <2>5 DEF BInv
<1> QED
  BY <1>1, <1>8, <1>9

\* MCE goes, as the bus will tell.
LEMMA DeathKeeps ==
  ASSUME BInv, MceDies
  PROVE  BInv'
<1> DEFINE m == [type |-> "owner", running |-> FALSE]
           p == xmce_running
<1>1. /\ inbox \in Seq(Message) /\ systembus \in BOOLEAN /\ boot_done \in BOOLEAN
      /\ mce \in [on : BOOLEAN, values : [Queries -> AnyValue]]
  BY DEF BInv, Types
<1>2. m \in Message /\ Runner(m) /\ ~Runs(m)
  BY DEF Message, Runs, Runner
<1>3. /\ mce' = [mce EXCEPT !.on = FALSE]
      /\ inbox' = IF systembus THEN Append(inbox, m) ELSE inbox
      /\ UNCHANGED <<trackerVars, systembus, xmce_running, remembered, pc, boot_done, failed>>
  BY DEF MceDies, Send
<1> HIDE DEF m
<1>4. mce' \in [on : BOOLEAN, values : [Queries -> AnyValue]] /\ mce'.on = FALSE
  BY <1>1, <1>3
<1>5. inbox' \in Seq(Message)
  BY <1>1, <1>2, <1>3, AppendProperties
<1>6. Types' /\ DecisionOK'
  BY <1>1, <1>3, <1>4, <1>5, OutsideFrame
<1>7. CASE systembus = FALSE
  BY <1>3, <1>6, <1>7, OffBus DEF BInv, trackerVars
<1>8. CASE systembus = TRUE
  <2>1. GoneAfter(inbox', p)
    BY <1>1, <1>2, <1>3, <1>8, AfterAppend
  <2>2. SyncOK'
    BY <1>3, <1>4, <1>8, <2>1 DEF BInv, SyncOK, trackerVars
  <2>3. TrackOK'
    BY <1>4 DEF TrackOK
  <2> QED
    BY <1>6, <2>2, <2>3 DEF BInv
<1> QED
  BY <1>1, <1>7, <1>8

\* A message that is not about the owner arrives, and says what has changed.
LEMMA ArrivalKeepsFollowing ==
  ASSUME BInv, systembus = TRUE, NEW m \in Message, ~Runner(m), inbox' = Append(inbox, m),
         UNCHANGED <<trackerVars, systembus, xmce_running, remembered, pc>>,
         mce'.on = mce.on,
         \A c \in Queries \ failed' :
           \/ Says(m, c) /\ m.value = mce'.values[c]
           \/ /\ ~Says(m, c) /\ ~Ends(m, c) /\ c \notin failed
              /\ mce'.values[c] = mce.values[c]
  PROVE  SyncOK' /\ TrackOK'
<1> DEFINE p == xmce_running
<1>1. inbox \in Seq(Message) /\ known' = known
  BY DEF BInv, Types, trackerVars
<1>2. m.type # "owner_reply"
  BY DEF Runner
<1>3. /\ RunsAfter(inbox, p) => RunsAfter(inbox', p)
      /\ GoneAfter(inbox, p) => GoneAfter(inbox', p)
      /\ NoRunner(inbox) => NoRunner(inbox')
      /\ Queried(inbox, p) => Queried(inbox', p)
      /\ NoOwnerReply(inbox) => NoOwnerReply(inbox')
  BY <1>1, <1>2, AfterAppend
<1>4. SyncOK'
  BY <1>3 DEF BInv, SyncOK, trackerVars
<1>5. ASSUME mce.on, ~remembered, NEW c \in Queries \ failed'
      PROVE  Follows(c)'
  <2> DEFINE v == parse(c, mce.values[c])
             w == parse(c, mce'.values[c])
  <2>1. /\ (Says(m, c) /\ parse(c, m.value) = w) => Told(inbox', c, w, known[c])
        /\ (~Says(m, c) /\ Told(inbox, c, v, known[c])) => Told(inbox', c, v, known[c])
        /\ (~Ends(m, c) /\ NoEnd(inbox, c)) => NoEnd(inbox', c)
    BY <1>1, AfterAppend
  <2>2. CASE Says(m, c) /\ m.value = mce'.values[c]
    <3>1. Told(inbox', c, w, known'[c])
      BY <1>1, <2>1, <2>2
    <3> QED
      BY <3>1 DEF Follows
  <2>3. CASE ~Says(m, c) /\ ~Ends(m, c) /\ c \notin failed /\ mce'.values[c] = mce.values[c]
    <3>1. Follows(c)
      BY <1>5, <2>3 DEF BInv, TrackOK
    <3>2. CASE Told(inbox, c, v, known[c])
      <4>1. Told(inbox', c, w, known'[c])
        BY <1>1, <2>1, <2>3, <3>2
      <4> QED
        BY <4>1 DEF Follows
    <3>3. CASE ~Told(inbox, c, v, known[c])
      BY <1>3, <2>1, <2>3, <3>1, <3>3 DEF Follows
    <3> QED
      BY <3>2, <3>3
  <2> QED
    BY <2>2, <2>3
<1>6. TrackOK'
  BY <1>5 DEF TrackOK
<1> QED
  BY <1>4, <1>6

\* MCE changes a value and signals it.
LEMMA ChangeKeeps ==
  ASSUME BInv, NEW q \in Queries, NEW v \in Values[q], MceChanges(q, v)
  PROVE  BInv'
<1> DEFINE m == [type |-> "signal", of |-> q, value |-> v]
<1>1. /\ inbox \in Seq(Message) /\ systembus \in BOOLEAN /\ boot_done \in BOOLEAN
      /\ mce \in [on : BOOLEAN, values : [Queries -> AnyValue]]
  BY DEF BInv, Types
<1>2. v \in AnyValue
  BY DEF AnyValue
<1>3. /\ m \in Message /\ ~Runner(m) /\ Says(m, q) /\ m.value = v
      /\ \A c \in Queries : c # q => ~Says(m, c) /\ ~Ends(m, c)
  BY <1>2 DEF Message, Runner, Says, Ends
<1>4. /\ mce' = [mce EXCEPT !.values[q] = v]
      /\ inbox' = IF systembus THEN Append(inbox, m) ELSE inbox
      /\ failed' = failed \ {q}
      /\ UNCHANGED <<trackerVars, systembus, xmce_running, remembered, pc, boot_done>>
  BY DEF MceChanges, Send
<1> HIDE DEF m
<1>5. /\ mce' \in [on : BOOLEAN, values : [Queries -> AnyValue]] /\ mce'.on = mce.on
      /\ mce'.values[q] = v /\ \A c \in Queries : c # q => mce'.values[c] = mce.values[c]
  BY <1>1, <1>2, <1>4
<1>6. inbox' \in Seq(Message)
  BY <1>1, <1>3, <1>4, AppendProperties
<1>7. Types' /\ DecisionOK'
  BY <1>1, <1>4, <1>5, <1>6, OutsideFrame
<1>8. CASE systembus = FALSE
  BY <1>4, <1>7, <1>8, OffBus DEF BInv, trackerVars
<1>9. CASE systembus = TRUE
  <2>1. \A c \in Queries \ failed' :
           \/ Says(m, c) /\ m.value = mce'.values[c]
           \/ /\ ~Says(m, c) /\ ~Ends(m, c) /\ c \notin failed
              /\ mce'.values[c] = mce.values[c]
    BY <1>3, <1>4, <1>5
  <2>2. SyncOK' /\ TrackOK'
    BY <1>3, <1>4, <1>5, <1>9, <2>1, ArrivalKeepsFollowing
  <2> QED
    BY <1>7, <2>2 DEF BInv
<1> QED
  BY <1>1, <1>8, <1>9

\* A call for a value is answered, or fails.
LEMMA AnswerKeeps ==
  ASSUME BInv, NEW q \in Queries, Answer(q)
  PROVE  BInv'
<1>1. /\ inbox \in Seq(Message) /\ systembus \in BOOLEAN /\ boot_done \in BOOLEAN
      /\ mce \in [on : BOOLEAN, values : [Queries -> AnyValue]]
  BY DEF BInv, Types
<1>2. UNCHANGED <<trackerVars, systembus, xmce_running, remembered, pc, mce, boot_done>>
  BY DEF Answer
<1>3. systembus = TRUE
  BY <1>1 DEF Answer, BInv, SyncOK
<1>4. ASSUME NEW m \in Message, ~Runner(m), inbox' = Append(inbox, m),
             \A c \in Queries \ failed' :
               \/ Says(m, c) /\ m.value = mce.values[c]
               \/ ~Says(m, c) /\ ~Ends(m, c) /\ c \notin failed
      PROVE  BInv'
  <2>1. inbox' \in Seq(Message)
    BY <1>1, <1>4, AppendProperties
  <2>2. Types' /\ DecisionOK'
    BY <1>1, <1>2, <2>1, OutsideFrame
  <2>3. SyncOK' /\ TrackOK'
    BY <1>2, <1>3, <1>4, ArrivalKeepsFollowing
  <2> QED
    BY <2>2, <2>3 DEF BInv
<1>5. CASE Send([type |-> "reply", of |-> q, value |-> mce.values[q]])
           /\ failed' = failed \ {q}
  <2> DEFINE m == [type |-> "reply", of |-> q, value |-> mce.values[q]]
  <2>1. mce.values[q] \in AnyValue
    BY <1>1
  <2>2. /\ m \in Message /\ ~Runner(m) /\ Says(m, q) /\ m.value = mce.values[q]
        /\ \A c \in Queries : c # q => ~Says(m, c) /\ ~Ends(m, c)
    BY <2>1 DEF Message, Runner, Says, Ends
  <2>3. inbox' = Append(inbox, m)
    BY <1>3, <1>5 DEF Send
  <2> HIDE DEF m
  <2>4. \A c \in Queries \ failed' :
           \/ Says(m, c) /\ m.value = mce.values[c]
           \/ ~Says(m, c) /\ ~Ends(m, c) /\ c \notin failed
    BY <1>5, <2>2
  <2> QED
    BY <1>4, <2>2, <2>3, <2>4
<1>6. CASE Send([type |-> "error", of |-> q]) /\ failed' = failed \cup {q}
  <2> DEFINE m == [type |-> "error", of |-> q]
  <2>1. /\ m \in Message /\ ~Runner(m)
        /\ \A c \in Queries : c # q => ~Says(m, c) /\ ~Ends(m, c)
    BY DEF Message, Runner, Says, Ends
  <2>2. inbox' = Append(inbox, m)
    BY <1>3, <1>6 DEF Send
  <2> HIDE DEF m
  <2>3. \A c \in Queries \ failed' :
           \/ Says(m, c) /\ m.value = mce.values[c]
           \/ ~Says(m, c) /\ ~Ends(m, c) /\ c \notin failed
    BY <1>6, <2>1
  <2> QED
    BY <1>4, <2>1, <2>2, <2>3
<1> QED
  BY <1>5, <1>6 DEF Answer

\* The bus daemon says whether MCE is there.
LEMMA OwnerAnswerKeeps ==
  ASSUME BInv, AnswerOwner
  PROVE  BInv'
<1> DEFINE m == [type |-> "owner_reply", running |-> mce.on]
           p == xmce_running
<1>1. /\ inbox \in Seq(Message) /\ systembus \in BOOLEAN /\ boot_done \in BOOLEAN
      /\ mce \in [on : BOOLEAN, values : [Queries -> AnyValue]] /\ mce.on \in BOOLEAN
  BY DEF BInv, Types
<1>2. /\ UNCHANGED <<trackerVars, systembus, xmce_running, remembered, pc, mce, boot_done,
                     failed>>
      /\ "owner" \in pc
  BY DEF AnswerOwner, envVars
<1>3. systembus = TRUE
  BY <1>1, <1>2 DEF BInv, SyncOK
<1>4. m \in Message /\ Runner(m) /\ (Runs(m) <=> mce.on)
  BY <1>1 DEF Message, Runner, Runs
<1>5. inbox' = Append(inbox, m)
  BY <1>3 DEF AnswerOwner, Send
<1> HIDE DEF m
<1>6. inbox' \in Seq(Message)
  BY <1>1, <1>4, <1>5, AppendProperties
<1>7. Types' /\ DecisionOK'
  BY <1>1, <1>2, <1>6, OutsideFrame
<1>8. /\ Runs(m) => RunsAfter(inbox', p) /\ (GoneAfter(inbox, p) \/ ~p => Queried(inbox', p))
      /\ (Runner(m) /\ ~Runs(m)) => GoneAfter(inbox', p)
      /\ Queried(inbox, p) => Queried(inbox', p)
  BY <1>1, <1>4, <1>5, AfterAppend
<1>9. SyncOK'
  BY <1>2, <1>4, <1>8 DEF BInv, SyncOK, trackerVars
<1>10. ASSUME mce.on, ~remembered, NEW c \in Queries \ failed
       PROVE  Follows(c)'
  <2> DEFINE v == parse(c, mce.values[c])
  <2>1. ~Says(m, c) /\ ~Ends(m, c)
    BY <1>4 DEF Runner, Says, Ends
  <2>2. /\ Told(inbox, c, v, known[c]) => Told(inbox', c, v, known[c])
        /\ NoEnd(inbox, c) => NoEnd(inbox', c)
    BY <1>1, <1>4, <1>5, <2>1, AfterAppend
  <2>3. Follows(c)
    BY <1>3, <1>10 DEF BInv, TrackOK
  <2>4. known' = known
    BY <1>2 DEF trackerVars
  <2>5. CASE Told(inbox, c, v, known[c])
    <3>1. Told(inbox', c, parse(c, mce'.values[c]), known'[c])
      BY <1>2, <2>2, <2>4, <2>5
    <3> QED
      BY <3>1 DEF Follows
  <2>6. CASE ~Told(inbox, c, v, known[c])
    BY <1>2, <1>4, <1>8, <1>10, <2>2, <2>3, <2>6 DEF Follows
  <2> QED
    BY <2>5, <2>6
<1>11. TrackOK'
  BY <1>2, <1>10 DEF TrackOK
<1> QED
  BY <1>7, <1>9, <1>11 DEF BInv

\* systemd has booted.
LEMMA BootKeeps ==
  ASSUME BInv, BootDone
  PROVE  BInv'
<1> DEFINE m == [type |-> "init_done"]
<1>1. /\ inbox \in Seq(Message) /\ systembus \in BOOLEAN
      /\ mce \in [on : BOOLEAN, values : [Queries -> AnyValue]]
  BY DEF BInv, Types
<1>2. /\ m \in Message /\ ~Runner(m) /\ \A c \in Queries : ~Says(m, c) /\ ~Ends(m, c)
  BY DEF Message, Runner, Says, Ends
<1>3. /\ inbox' = IF systembus THEN Append(inbox, m) ELSE inbox
      /\ boot_done' = TRUE
      /\ UNCHANGED <<trackerVars, systembus, xmce_running, remembered, pc, mce, failed>>
  BY DEF BootDone, Send
<1> HIDE DEF m
<1>4. inbox' \in Seq(Message)
  BY <1>1, <1>2, <1>3, AppendProperties
<1>5. Types' /\ DecisionOK'
  BY <1>1, <1>3, <1>4, OutsideFrame
<1>6. CASE systembus = FALSE
  BY <1>3, <1>5, <1>6, OffBus DEF BInv, trackerVars
<1>7. CASE systembus = TRUE
  <2>1. SyncOK' /\ TrackOK'
    BY <1>2, <1>3, <1>7, ArrivalKeepsFollowing
  <2> QED
    BY <1>5, <2>1 DEF BInv
<1> QED
  BY <1>1, <1>6, <1>7
-----------------------------------------------------------------------------
(***************************************************************************)
(* The connection, the other modules and the timers.                       *)
(***************************************************************************)
\* A new connection: xmce_tracking_init() asks for the owner.
LEMMA ConnectKeeps ==
  ASSUME BInv, DBUS_CONNECTED
  PROVE  BInv'
<1>1. /\ loaded /\ ~systembus /\ systembus' = TRUE /\ pc' = pc \cup {"owner"}
      /\ UNCHANGED <<trackerVars, xmce_running, remembered, inbox, mce, boot_done, failed>>
  BY DEF DBUS_CONNECTED
<1>2. UNCHANGED <<loaded, limit, known, init_done, dsme_state, alarm_active, alarm_holdon_id,
                  battery_empty_rethink_id, shutdown_requested, charger_prev>>
  BY <1>1 DEF trackerVars
<1>3. Types'
  BY <1>1, <1>2 DEF BInv, Types
<1>4. DecisionOK'
  BY <1>2, QuietKeepsDecision DEF BInv, Grounds, DecisionOK, ReportsCurrent
<1>5. inbox = << >> /\ (xmce_running => remembered)
  BY <1>1 DEF BInv, SyncOK
<1>6. NoRunner(inbox) /\ NoOwnerReply(inbox)
  BY <1>5 DEF NoRunner, NoOwnerReply
<1>7. ~xmce_running => GoneAfter(inbox, xmce_running)
  BY <1>6 DEF GoneAfter
<1>8. SyncOK'
  BY <1>1, <1>2, <1>5, <1>6 DEF SyncOK
<1>9. TrackOK'
  BY <1>1, <1>5, <1>6, <1>7 DEF TrackOK, Follows
<1> QED
  BY <1>3, <1>4, <1>8, <1>9 DEF BInv

\* The connection is closed; that MCE was running is remembered.
LEMMA DisconnectKeeps ==
  ASSUME BInv, DBUS_DISCONNECT
  PROVE  BInv'
<1>1. /\ loaded /\ systembus' = FALSE /\ pc' = {} /\ inbox' = << >>
      /\ remembered' = xmce_running
      /\ UNCHANGED <<trackerVars, xmce_running, mce, boot_done, failed>>
  BY DEF DBUS_DISCONNECT, systembus_disconnect
<1>2. UNCHANGED <<loaded, limit, known, init_done, dsme_state, alarm_active, alarm_holdon_id,
                  battery_empty_rethink_id, shutdown_requested, charger_prev>>
  BY <1>1 DEF trackerVars
<1>3. << >> \in Seq(Message)
  OBVIOUS
<1>4. Types'
  BY <1>1, <1>2, <1>3 DEF BInv, Types
<1>5. DecisionOK'
  BY <1>2, QuietKeepsDecision DEF BInv, Grounds, DecisionOK, ReportsCurrent
<1>6. SyncOK' /\ TrackOK'
  BY <1>1, <1>2 DEF BInv, SyncOK, TrackOK
<1> QED
  BY <1>4, <1>5, <1>6 DEF BInv

\* A message of another module and the end of the hold-on time lead to a new decision.
LEMMA RethinkSoonKeeps ==
  ASSUME BInv, loaded = TRUE, battery_empty_rethink_id' = TRUE,
         UNCHANGED <<loaded, known, init_done, shutdown_requested, charger_prev, busVars, mce,
                     boot_done, failed>>
  PROVE  BInv'
<1>1. UNCHANGED <<systembus, xmce_running, pc, inbox, remembered>>
  BY DEF busVars
<1>2. Types'
  BY <1>1 DEF BInv, Types
<1>3. DecisionOK'
  BY QuietKeepsDecision DEF BInv, DecisionOK, ReportsCurrent
<1>4. SyncOK' /\ TrackOK'
  BY <1>1, Unaffected DEF BInv, Following
<1> QED
  BY <1>2, <1>3, <1>4 DEF BInv

\* battery_empty_rethink_cb() tells what it decides.
LEMMA RethinkKeeps ==
  ASSUME BInv, battery_empty_rethink_cb
  PROVE  BInv'
<1>1. /\ battery_empty_rethink_id = TRUE /\ battery_empty_rethink_id' = FALSE
      /\ shutdown_requested' = request_shutdown
      /\ UNCHANGED <<loaded, limit, known, init_done, dsme_state, alarm_active, charger_prev,
                     busVars, envVars>>
  BY DEF battery_empty_rethink_cb, BInv, Types
<1>2. UNCHANGED <<systembus, xmce_running, pc, inbox, remembered, mce, boot_done, failed>>
  BY <1>1 DEF busVars, envVars
<1>3. request_shutdown' <=> request_shutdown
  BY <1>1, SameDecision DEF Grounds
<1>4. request_shutdown \in BOOLEAN /\ request_shutdown' \in BOOLEAN
  BY DEF request_shutdown
<1>5. shutdown_requested' \in BOOLEAN /\ shutdown_requested' = request_shutdown'
  BY <1>1, <1>3, <1>4
<1>6. Types'
  BY <1>1, <1>2, <1>5 DEF BInv, Types
<1>7. loaded = TRUE
  BY <1>1 DEF BInv, DecisionOK, Types
<1>8. DecisionOK'
  BY <1>1, <1>5, <1>7 DEF BInv, DecisionOK, ReportsCurrent
<1>9. SyncOK' /\ TrackOK'
  BY <1>1, <1>2, Unaffected DEF BInv, Following
<1> QED
  BY <1>6, <1>8, <1>9 DEF BInv

\* The module is loaded: it decides when the boot is over.
LEMMA LoadKeeps ==
  ASSUME BInv, module_init
  PROVE  BInv'
<1>1. /\ ~loaded /\ loaded' = TRUE /\ init_done' = boot_done
      /\ battery_empty_rethink_id' = boot_done
      /\ UNCHANGED <<known, shutdown_requested, charger_prev, busVars, envVars>>
  BY DEF module_init
<1>2. UNCHANGED <<systembus, xmce_running, pc, inbox, remembered, mce, boot_done, failed>>
  BY <1>1 DEF busVars, envVars
<1>3. Types'
  BY <1>1, <1>2 DEF BInv, Types
<1>4. shutdown_requested' = FALSE /\ boot_done \in BOOLEAN
  BY <1>1 DEF BInv, DecisionOK, Types
<1>5. ~battery_empty_rethink_id' => ~request_shutdown'
  BY <1>1 DEF request_shutdown
<1>6. request_shutdown' \in BOOLEAN
  BY DEF request_shutdown
<1>7. DecisionOK'
  BY <1>1, <1>4, <1>5, <1>6 DEF BInv, DecisionOK, ReportsCurrent
<1>8. systembus = FALSE
  BY <1>1 DEF BInv, SyncOK, Types
<1>9. SyncOK' /\ TrackOK'
  BY <1>1, <1>2, <1>8 DEF BInv, SyncOK, TrackOK
<1> QED
  BY <1>3, <1>7, <1>9 DEF BInv

\* Nothing is known of any value.
LEMMA NothingType == Nothing \in [Queries -> AnyValue] /\ Nothing["charger"] = UNKNOWN
BY BatteryAssumption DEF Nothing, AnyValue

\* The module is unloaded.
LEMMA UnloadKeeps ==
  ASSUME BInv, module_fini
  PROVE  BInv'
<1>1. /\ loaded' = FALSE /\ known' = Nothing /\ init_done' = FALSE
      /\ alarm_holdon_id' = FALSE /\ battery_empty_rethink_id' = FALSE
      /\ shutdown_requested' = FALSE /\ systembus' = FALSE /\ xmce_running' = FALSE
      /\ pc' = {} /\ inbox' = << >> /\ remembered' = FALSE
      /\ UNCHANGED <<mce, boot_done, failed>>
  BY DEF module_fini
<1>2. << >> \in Seq(Message)
  OBVIOUS
<1>3. Types'
  BY <1>1, <1>2, NothingType DEF BInv, Types
<1>4. DecisionOK'
  BY <1>1, NothingType DEF DecisionOK, ReportsCurrent
<1>5. SyncOK' /\ TrackOK'
  BY <1>1 DEF SyncOK, TrackOK
<1> QED
  BY <1>3, <1>4, <1>5 DEF BInv

\* Initially nothing is loaded.
LEMMA InitKeeps ==
  ASSUME Init
  PROVE  BInv
<1>1. << >> \in Seq(Message)
  OBVIOUS
<1>2. Types
  BY <1>1, NothingType DEF Init, Types
<1>3. DecisionOK
  BY NothingType DEF Init, DecisionOK, ReportsCurrent
<1>4. SyncOK /\ TrackOK
  BY DEF Init, SyncOK, TrackOK
<1> QED
  BY <1>2, <1>3, <1>4 DEF BInv

\* Every step keeps the invariant.
LEMMA NextKeeps ==
  ASSUME BInv, [Next]_vars
  PROVE  BInv'
<1>1. CASE UNCHANGED vars
  <2>1. UNCHANGED <<trackerVars, busVars, mce, boot_done, failed>>
    BY <1>1 DEF vars, envVars
  <2>2. UNCHANGED Following /\ UNCHANGED <<systembus, xmce_running, remembered, pc>>
    BY <2>1 DEF Following, trackerVars, busVars
  <2>3. SyncOK' /\ TrackOK'
    BY <2>2, Unaffected DEF BInv
  <2>4. Types' /\ DecisionOK'
    <3>1. /\ inbox' \in Seq(Message) /\ boot_done' \in BOOLEAN
          /\ mce' \in [on : BOOLEAN, values : [Queries -> AnyValue]]
      BY <2>1, <2>2 DEF BInv, Types, Following
    <3> QED
      BY <2>1, <2>2, <3>1, OutsideFrame
  <2> QED
    BY <2>3, <2>4 DEF BInv
<1>2. CASE Receive
  BY <1>2, ReceiveKeeps
<1>3. CASE DBUS_CONNECTED
  BY <1>3, ConnectKeeps
<1>4. CASE DBUS_DISCONNECT
  BY <1>4, DisconnectKeeps
<1>5. loaded \in BOOLEAN
  BY DEF BInv, Types
<1>6. ASSUME NEW s \in DeviceStates, STATE_CHANGE_IND(s)
      PROVE  BInv'
  BY <1>5, <1>6, RethinkSoonKeeps DEF STATE_CHANGE_IND, battery_empty_schedule_rethink, BInv, Types
<1>7. ASSUME NEW set \in BOOLEAN, SET_ALARM_STATE(set)
      PROVE  BInv'
  BY <1>5, <1>7, RethinkSoonKeeps
     DEF SET_ALARM_STATE, alarm_active_set, battery_empty_schedule_rethink, BInv, Types
<1>8. CASE alarm_holdon_cb
  <2>1. loaded = TRUE
    BY <1>8 DEF alarm_holdon_cb, BInv, DecisionOK, Types
  <2> QED
    BY <1>8, <2>1, RethinkSoonKeeps
       DEF alarm_holdon_cb, alarm_active_set, battery_empty_schedule_rethink, envVars
<1>9. CASE battery_empty_rethink_cb
  BY <1>9, RethinkKeeps
<1>10. CASE module_init
  BY <1>10, LoadKeeps
<1>11. CASE module_fini
  BY <1>11, UnloadKeeps
<1>12. ASSUME NEW values \in StartValues, MceStarts(values)
       PROVE  BInv'
  BY <1>12, StartKeeps
<1>13. CASE MceDies
  BY <1>13, DeathKeeps
<1>14. ASSUME NEW q \in Queries, Answer(q)
       PROVE  BInv'
  BY <1>14, AnswerKeeps
<1>15. ASSUME NEW q \in Queries, NEW v \in Values[q], MceChanges(q, v)
       PROVE  BInv'
  BY <1>15, ChangeKeeps
<1>16. CASE AnswerOwner
  BY <1>16, OwnerAnswerKeeps
<1>17. CASE BootDone
  BY <1>17, BootKeeps
<1> QED
  BY <1>1, <1>2, <1>3, <1>4, <1>6, <1>7, <1>8, <1>9, <1>10, <1>11, <1>12, <1>13, <1>14,
     <1>15, <1>16, <1>17 DEF Next
-----------------------------------------------------------------------------
(***************************************************************************)
(* The theorems.                                                           *)
(***************************************************************************)
\* The inductive invariant of the battery tracker, for every set of values, start of
\* MCE and number of events.
THEOREM BatterySafety == Spec => []BInv
<1>1. Init => BInv
  BY InitKeeps
<1>2. BInv /\ [Next]_vars => BInv'
  BY NextKeeps
<1> QED
  BY <1>1, <1>2, PTL DEF Spec

\* batterytracker.c has told dsme what its values call for, whenever no new decision
\* is scheduled (battery_empty_rethink_cb()), and the state of the charger.
THEOREM DecisionIsCurrent == Spec => []ReportsCurrent
<1>1. BInv => ReportsCurrent
  BY DEF BInv, DecisionOK
<1> QED
  BY <1>1, BatterySafety, PTL

\* With nothing under way on the bus batterytracker.c knows what MCE knows, whatever
\* order signals, replies, cancelled calls and changes of the owner came in.
THEOREM MceIsTracked == Spec => []TracksMce
<1>1. BInv => TracksMce
  <2> SUFFICES ASSUME BInv, systembus, mce.on, inbox = << >>, pc = {}, ~remembered,
                      NEW q \in Queries \ failed
               PROVE  known[q] = parse(q, mce.values[q])
    BY DEF TracksMce
  <2>1. Follows(q)
    BY DEF BInv, TrackOK
  <2>2. Len(inbox) = 0
    OBVIOUS
  <2>3. ~Queried(inbox, xmce_running)
    BY <2>2 DEF Queried
  <2>4. Told(inbox, q, parse(q, mce.values[q]), known[q])
    BY <2>1, <2>3 DEF Follows
  <2> QED
    BY <2>2, <2>4 DEF Told
<1> QED
  BY <1>1, BatterySafety, PTL
=============================================================================
