--------------------------- MODULE LoggingProofs ---------------------------
(***************************************************************************)
(* For a ring of any size and counters that wrap at any multiple of it:    *)
(* the two threads of dsme/logging.c never meet in a slot, and every step  *)
(* of either is a step of LogChannel or leaves the channel alone.          *)
(***************************************************************************)
EXTENDS Logging, SequenceTheorems, TLAPS

(***************************************************************************)
(* Arithmetic of the counters.                                             *)
(***************************************************************************)
\* A remainder is determined by any quotient that leaves one in range.
LEMMA ModUnique ==
  ASSUME NEW a \in Int, NEW b \in Nat \ {0}, NEW q \in Int, NEW r \in 0 .. b - 1,
         a = b * q + r
  PROVE  a % b = r
OBVIOUS

\* The remainder by n does not change when a multiple of n is taken away.
LEMMA ModMultiple ==
  ASSUME NEW a \in Int, NEW n \in Nat \ {0}, NEW m \in Nat \ {0}, m % n = 0
  PROVE  (a - m) % n = a % n
<1> DEFINE q == a \div n
           k == m \div n
           r == a % n
<1>1. m = n * k /\ k \in Int
  OBVIOUS
<1>2. a = n * q + r /\ q \in Int /\ r \in 0 .. n - 1
  OBVIOUS
<1> HIDE DEF q, k, r
<1>3. a - m = n * (q - k) + r
  BY <1>1, <1>2
<1>4. (a - m) % n = r
  BY <1>1, <1>2, <1>3, ModUnique
<1> QED
  BY <1>4 DEF r

\* A count and one that is a whole round later have the same slot.
LEMMA SlotOfRound ==
  ASSUME NEW c \in Int
  PROVE  Slot(c - COUNT_MODULUS) = Slot(c)
<1>1. ENTRY_COUNT \in Nat \ {0} /\ COUNT_MODULUS \in Nat \ {0}
      /\ COUNT_MODULUS % ENTRY_COUNT = 0
  BY LoggingAssumption
<1> QED
  BY <1>1, ModMultiple DEF Slot

\* What the assumption on the constants says of the sizes.
LEMMA Sizes ==
  /\ ENTRY_COUNT \in Nat \ {0, 1} /\ COUNT_MODULUS \in Nat \ {0}
  /\ ENTRY_COUNT < COUNT_MODULUS
  /\ LOW_MARK \in 0 .. ENTRY_COUNT - 1
<1>1. ENTRY_COUNT \in Nat /\ ENTRY_COUNT > 1
  BY LoggingAssumption
<1> QED
  BY <1>1, LoggingAssumption DEF LOW_MARK

Counts == 0 .. COUNT_MODULUS - 1
Next1(c) == (c + 1) % COUNT_MODULUS
Between(w, r) == (w - r) % COUNT_MODULUS

\* buffered_count() when the counters do not and do wrap.
LEMMA BetweenIs ==
  ASSUME NEW w \in Counts, NEW r \in Counts
  PROVE  /\ Between(w, r) \in Counts
         /\ w >= r => Between(w, r) = w - r
         /\ w < r => Between(w, r) = w - r + COUNT_MODULUS
BY Sizes DEF Between, Counts

\* Incrementing a counter, with its wrap-around spelled out.
LEMMA Next1Is ==
  ASSUME NEW c \in Counts
  PROVE  /\ Next1(c) \in Counts
         /\ c + 1 < COUNT_MODULUS => Next1(c) = c + 1
         /\ c + 1 = COUNT_MODULUS => Next1(c) = 0
BY Sizes DEF Next1, Counts

\* write_count_inc adds an entry, as long as there is room for a count.
LEMMA CountUp ==
  ASSUME NEW w \in Counts, NEW r \in Counts, Between(w, r) < COUNT_MODULUS - 1
  PROVE  Between(Next1(w), r) = Between(w, r) + 1
<1> DEFINE v == Next1(w)
           b == Between(w, r)
           c == Between(v, r)
<1>1. /\ v \in Counts
      /\ w + 1 < COUNT_MODULUS => v = w + 1
      /\ w + 1 = COUNT_MODULUS => v = 0
  BY Next1Is
<1>2. /\ b \in Counts
      /\ w >= r => b = w - r
      /\ w < r => b = w - r + COUNT_MODULUS
  BY BetweenIs
<1>3. /\ c \in Counts
      /\ v >= r => c = v - r
      /\ v < r => c = v - r + COUNT_MODULUS
  BY <1>1, BetweenIs
<1> HIDE DEF v, b, c
<1>4. c = b + 1
  BY <1>1, <1>2, <1>3, Sizes DEF Counts, b
<1> QED
  BY <1>4 DEF v, b, c

\* read_count_inc takes one away, as long as there is one.
LEMMA CountDown ==
  ASSUME NEW w \in Counts, NEW r \in Counts, Between(w, r) > 0
  PROVE  Between(w, Next1(r)) = Between(w, r) - 1
<1> DEFINE v == Next1(r)
           b == Between(w, r)
           c == Between(w, v)
<1>1. /\ v \in Counts
      /\ r + 1 < COUNT_MODULUS => v = r + 1
      /\ r + 1 = COUNT_MODULUS => v = 0
  BY Next1Is
<1>2. /\ b \in Counts
      /\ w >= r => b = w - r
      /\ w < r => b = w - r + COUNT_MODULUS
  BY BetweenIs
<1>3. /\ c \in Counts
      /\ w >= v => c = w - v
      /\ w < v => c = w - v + COUNT_MODULUS
  BY <1>1, BetweenIs
<1> HIDE DEF v, b, c
<1>4. c = b - 1
  BY <1>1, <1>2, <1>3, Sizes DEF Counts, b
<1> QED
  BY <1>4 DEF v, b, c

\* The slot of a count does not depend on whether the count has wrapped.
LEMMA SlotWraps ==
  ASSUME NEW c \in Counts, NEW i \in Nat
  PROVE  Slot(Next1(c) + i) = Slot(c + 1 + i)
<1>1. CASE c + 1 < COUNT_MODULUS
  BY <1>1, Next1Is
<1>2. CASE c + 1 = COUNT_MODULUS
  <2>1. (c + 1 + i) - COUNT_MODULUS = i
    BY <1>2, Sizes DEF Counts
  <2>2. c + 1 + i \in Int
    BY DEF Counts
  <2>3. Slot((c + 1 + i) - COUNT_MODULUS) = Slot(c + 1 + i)
    BY <2>2, SlotOfRound
  <2>4. Next1(c) + i = i
    BY <1>2, Next1Is
  <2> QED
    BY <2>1, <2>3, <2>4
<1> QED
  BY <1>1, <1>2, Sizes DEF Counts

\* The slot of write_count is as far from that of read_count as the counters are.
LEMMA SlotOfWrite ==
  ASSUME NEW w \in Counts, NEW r \in Counts
  PROVE  Slot(w) = Slot(r + Between(w, r))
<1>1. CASE w >= r
  BY <1>1, BetweenIs DEF Counts
<1>2. CASE w < r
  <2>1. r + Between(w, r) = w + COUNT_MODULUS
    BY <1>2, BetweenIs, Sizes DEF Counts
  <2>2. /\ w + COUNT_MODULUS \in Int
        /\ (w + COUNT_MODULUS) - COUNT_MODULUS = w
    BY Sizes DEF Counts
  <2>3. Slot((w + COUNT_MODULUS) - COUNT_MODULUS) = Slot(w + COUNT_MODULUS)
    BY <2>2, SlotOfRound
  <2> QED
    BY <2>1, <2>2, <2>3
<1> QED
  BY <1>1, <1>2 DEF Counts

\* Counts less than a ring apart have different slots.
LEMMA SlotsDiffer ==
  ASSUME NEW a \in Nat, NEW b \in Nat, a < b, b < a + ENTRY_COUNT
  PROVE  Slot(a) # Slot(b)
<1> DEFINE n == ENTRY_COUNT
           q == a \div n
           k == b \div n
           r == a % n
<1>1. n \in Nat \ {0}
  BY Sizes
<1>2. a = n * q + r /\ q \in Int /\ r \in 0 .. n - 1
  BY <1>1
<1>3. b = n * k + (b % n) /\ k \in Int
  BY <1>1
<1> SUFFICES ASSUME b % n = r PROVE FALSE
  BY DEF Slot
<1> HIDE DEF n, q, k, r
<1>4. b - a = n * (k - q)
  BY <1>1, <1>2, <1>3
<1>5. k - q > 0
  BY <1>1, <1>2, <1>3, <1>4
<1>6. n * (k - q) >= n
  BY <1>1, <1>2, <1>3, <1>5
<1>7. b - a < n
  BY <1>1 DEF n
<1> QED
  BY <1>1, <1>4, <1>6, <1>7

\* A slot is one of the ring.
LEMMA SlotInRing ==
  ASSUME NEW c \in Int
  PROVE  Slot(c) \in 0 .. ENTRY_COUNT - 1
BY Sizes DEF Slot
-----------------------------------------------------------------------------
(***************************************************************************)
(* The invariant.                                                          *)
(***************************************************************************)
Busy == {"format", "inc", "notify"}
Stopped == {"join", "flush", "done"}

Loss(n) == [kind |-> "lost", n |-> n]
Messages == {e \in Entry : e.kind = "message"}
Losses == {e \in Entry : e.kind = "lost" /\ e.n > 0}

WorkerType == [pc : {"none", "read", "check", "output", "inc", "enabled", "exited"},
               cnt : Int]

\* The types that the steps need.
Types ==
  /\ ring_buffer \in [0 .. ENTRY_COUNT - 1 -> Entry]
  /\ write_count \in Counts /\ read_count \in Counts
  /\ thread_enabled \in BOOLEAN /\ failed \in BOOLEAN /\ overflow \in BOOLEAN
  /\ skipped \in Nat /\ calls \in Nat
  /\ main \in [pc : {"idle", "stop"} \cup Busy \cup Stopped, todo : Seq(Entry),
               at : Counts, closing : BOOLEAN]
  /\ worker \in WorkerType /\ event_fd \in Int
  /\ log \in Seq(Entry)

\* The entries the main thread has still to put into the ring: a message, and
\* before it the report of a loss.
TodoOK ==
  IF main.pc \in Busy
  THEN /\ skipped = 0
       /\ \/ Len(main.todo) = 1
          \/ Len(main.todo) = 2 /\ main.todo[1] \in Losses
       /\ main.todo[Len(main.todo)] \in Messages
  ELSE main.todo = << >>

\* There is room in the ring for what the main thread has still to put there, the
\* entry that it has formatted is in its slot, and a report of a loss goes in below
\* the low mark.
RoomOK ==
  /\ buffered_count <= ENTRY_COUNT
  /\ main.pc \in {"format", "inc"} => buffered_count + Len(main.todo) <= ENTRY_COUNT
  /\ main.pc = "notify" => buffered_count + Len(main.todo) - 1 <= ENTRY_COUNT
  /\ main.pc \in {"format", "inc"} /\ Len(main.todo) = 2 => buffered_count < LOW_MARK
  /\ main.pc = "inc" => ring_buffer[Slot(write_count)] = main.todo[1]

\* The logging thread has an entry in hand only when there is one.
WorkerOK == worker.pc \in {"output", "inc"} => buffered_count > 0

\* Skipped messages are those of an overflow; there is no thread after the stop.
LossOK ==
  /\ overflow <=> skipped > 0
  /\ main.pc \in Stopped => ~thread_enabled

RingInv == Types /\ TodoOK /\ RoomOK /\ WorkerOK /\ LossOK

\* buffered_count() in the words of the lemmas about the counters.
LEMMA BufferedIs ==
  /\ buffered_count = Between(write_count, read_count)
  /\ buffered_count' = Between(write_count', read_count')
BY DEF buffered_count, Between

\* The ring is never more than full.
LEMMA BufferedType ==
  ASSUME RingInv
  PROVE  buffered_count \in 0 .. ENTRY_COUNT
<1>1. buffered_count \in Counts
  BY BufferedIs, BetweenIs DEF RingInv, Types
<1> QED
  BY <1>1, Sizes DEF RingInv, RoomOK, Counts

\* The ring is empty and consistent at first.
LEMMA InitRing ==
  ASSUME Init
  PROVE  RingInv
<1>1. Blank \in Entry
  BY DEF Blank, Entry
<1>2. 0 \in Counts
  BY Sizes DEF Counts
<1>3. Types
  <2>1. ring_buffer \in [0 .. ENTRY_COUNT - 1 -> Entry]
    BY <1>1 DEF Init
  <2>2. main \in [pc : {"idle", "stop"} \cup Busy \cup Stopped, todo : Seq(Entry),
                  at : Counts, closing : BOOLEAN]
    BY <1>2 DEF Init
  <2>3. log \in Seq(Entry)
    BY DEF Init
  <2>4. worker \in WorkerType /\ event_fd \in Int
    BY DEF Init, WorkerType
  <2>5. skipped \in Nat /\ calls \in Nat
    BY DEF Init
  <2> QED
    BY <1>2, <2>1, <2>2, <2>3, <2>4, <2>5, Zenon DEF Init, Types
<1>4. buffered_count = 0
  BY <1>2, BufferedIs, BetweenIs DEF Init
<1>5. TodoOK /\ WorkerOK /\ LossOK
  BY DEF Init, TodoOK, WorkerOK, LossOK, Busy, Stopped
<1>6. RoomOK
  BY <1>4, Sizes DEF Init, RoomOK
<1> QED
  BY <1>3, <1>5, <1>6 DEF RingInv

\* What dsme_log_queue() decides: nothing in an overflow, else the message, after
\* an overflow with the report of its losses before it.
LEMMA AdmitIs ==
  ASSUME RingInv, NEW m
  PROVE  \/ /\ Admit(m) = << >>
            /\ buffered_count >= (IF overflow THEN LOW_MARK ELSE ENTRY_COUNT)
         \/ Admit(m) = <<m>> /\ ~overflow /\ buffered_count < ENTRY_COUNT
         \/ Admit(m) = <<Loss(skipped), m>> /\ overflow /\ buffered_count < LOW_MARK
<1>1. overflow \in BOOLEAN /\ buffered_count \in 0 .. ENTRY_COUNT
  BY BufferedType DEF RingInv, Types
<1>2. CASE overflow
  BY <1>1, <1>2, Sizes DEF Admit, Loss
<1>3. CASE ~overflow
  BY <1>1, <1>3, Sizes DEF Admit, Loss
<1> QED
  BY <1>2, <1>3

\* A call of dsme_log_queue() begins.
LEMMA QueueKeepsRing ==
  ASSUME RingInv, main.pc = "idle", NEW closing \in BOOLEAN, dsme_log_queue(closing),
         UNCHANGED worker
  PROVE  RingInv'
<1> DEFINE m == [kind |-> "message", n |-> calls + 1]
           t == Admit(m)
<1>1. /\ calls' = calls + 1 /\ calls \in Nat
      /\ overflow' = (t = << >>)
      /\ skipped' = IF t = << >> THEN skipped + 1 ELSE 0
      /\ main' = [main EXCEPT !.todo = t, !.closing = closing,
                    !.pc = IF t # << >> THEN "format"
                           ELSE IF closing THEN "stop" ELSE "idle"]
      /\ UNCHANGED <<ringVars, event_fd, thread_enabled, log, failed>>
  BY DEF dsme_log_queue, RingInv, Types
<1>2. m \in Messages
  BY <1>1 DEF Messages, Entry
<1>3. buffered_count' = buffered_count /\ buffered_count \in 0 .. ENTRY_COUNT
  BY <1>1, BufferedIs, BufferedType DEF ringVars
<1>4. skipped \in Nat /\ (overflow => Loss(skipped) \in Losses)
  BY DEF RingInv, Types, LossOK, Loss, Losses, Entry
<1>5. \/ t = << >>
      \/ t = <<m>> /\ buffered_count < ENTRY_COUNT
      \/ t = <<Loss(skipped), m>> /\ overflow /\ buffered_count < LOW_MARK
  BY AdmitIs
<1> HIDE DEF m, t
<1>6. /\ t \in Seq(Entry)
      /\ t # << >> => /\ \/ Len(t) = 1 /\ buffered_count < ENTRY_COUNT
                         \/ Len(t) = 2 /\ t[1] \in Losses /\ buffered_count < LOW_MARK
                      /\ t[Len(t)] \in Messages
  <2>1. m \in Entry /\ (overflow => Loss(skipped) \in Entry)
    BY <1>2, <1>4 DEF Messages, Losses
  <2>2. CASE t = << >>
    BY <2>2
  <2>3. CASE t = <<m>> /\ buffered_count < ENTRY_COUNT
    BY <2>1, <2>3, <1>2
  <2>4. CASE t = <<Loss(skipped), m>> /\ overflow /\ buffered_count < LOW_MARK
    BY <2>1, <2>4, <1>2, <1>4
  <2> QED
    BY <1>5, <2>2, <2>3, <2>4
<1>7. /\ main'.pc = IF t # << >> THEN "format" ELSE IF closing THEN "stop" ELSE "idle"
      /\ main'.todo = t /\ main'.closing = closing /\ main'.at = main.at
      /\ main' \in [pc : {"idle", "stop"} \cup Busy \cup Stopped, todo : Seq(Entry),
                    at : Counts, closing : BOOLEAN]
  <2>1. main \in [pc : {"idle", "stop"} \cup Busy \cup Stopped, todo : Seq(Entry),
                  at : Counts, closing : BOOLEAN]
    BY DEF RingInv, Types
  <2>2. CASE t # << >>
    BY <1>1, <1>6, <2>1, <2>2 DEF Busy
  <2>3. CASE t = << >> /\ closing
    BY <1>1, <1>6, <2>1, <2>3 DEF Busy
  <2>4. CASE t = << >> /\ ~closing
    BY <1>1, <1>6, <2>1, <2>4 DEF Busy
  <2> QED
    BY <2>2, <2>3, <2>4
<1>8. Types'
  BY <1>1, <1>4, <1>7 DEF RingInv, Types, ringVars
<1>9. TodoOK'
  <2>1. CASE t = << >>
    BY <2>1, <1>7 DEF TodoOK, Busy
  <2>2. CASE t # << >>
    BY <2>2, <1>1, <1>6, <1>7 DEF TodoOK, Busy
  <2> QED
    BY <2>1, <2>2
<1>10. RoomOK'
  <2>1. CASE t = << >>
    BY <2>1, <1>3, <1>7 DEF RoomOK
  <2>2. CASE t # << >>
    BY <2>2, <1>3, <1>6, <1>7, Sizes DEF RoomOK
  <2> QED
    BY <2>1, <2>2
<1>11. WorkerOK'
  BY <1>3 DEF WorkerOK, RingInv
<1>12. LossOK'
  <2>1. overflow' <=> t = << >>
    BY <1>1
  <2>2. skipped' > 0 <=> t = << >>
    BY <1>1, <1>4
  <2>3. main'.pc \notin Stopped
    BY <1>7 DEF Stopped
  <2> QED
    BY <2>1, <2>2, <2>3 DEF LossOK
<1> QED
  BY <1>8, <1>9, <1>10, <1>11, <1>12 DEF RingInv

\* The type of main, and what a step that only moves its pc leaves.
MainType == [pc : {"idle", "stop"} \cup Busy \cup Stopped, todo : Seq(Entry),
             at : Counts, closing : BOOLEAN]

\* While the main thread is busy it holds one message, or a loss report and a message.
LEMMA TodoShape ==
  ASSUME RingInv, main.pc \in Busy
  PROVE  /\ main \in MainType /\ skipped = 0 /\ main.todo \in Seq(Entry)
         /\ Len(main.todo) \in 1 .. 2 /\ main.todo[1] \in Entry
         /\ Head(main.todo) = main.todo[1]
         /\ Len(main.todo) = 1 => main.todo[1] \in Messages
         /\ Len(main.todo) = 2 => main.todo[1] \in Losses /\ main.todo[2] \in Messages
BY DEF RingInv, Types, MainType, TodoOK

\* What is left of one or two entries.
LEMMA TailOfTodo ==
  ASSUME NEW t \in Seq(Entry), Len(t) \in 1 .. 2
  PROVE  /\ Tail(t) \in Seq(Entry)
         /\ Len(t) = 1 => Tail(t) = << >>
         /\ Len(t) = 2 => Len(Tail(t)) = 1 /\ Tail(t)[1] = t[2]
<1> DEFINE u == Tail(t)
           l == Len(t)
<1>1. t # << >>
  BY EmptySeq
<1>2. /\ u \in Seq(Entry)
      /\ Len(u) = l - 1
      /\ \A i \in 1 .. Len(u) : u[i] = t[i + 1]
  BY <1>1, HeadTailProperties
<1>3. l = 1 \/ l = 2
  OBVIOUS
<1> HIDE DEF u, l
<1>4. CASE l = 1
  <2>1. Len(u) = 0
    BY <1>2, <1>4
  <2>2. u = << >>
    BY <1>2, <2>1, EmptySeq
  <2> QED
    BY <1>2, <1>4, <2>2 DEF u, l
<1>5. CASE l = 2
  <2>1. Len(u) = 1
    BY <1>2, <1>5
  <2>2. u[1] = t[1 + 1]
    BY <1>2, <2>1, SMTT(20)
  <2> QED
    BY <1>2, <1>5, <2>1, <2>2 DEF u, l
<1> QED
  BY <1>3, <1>4, <1>5

\* A step of the main thread from format on to the counter.
LEMMA FormatKeepsRing ==
  ASSUME RingInv, log_entry_format
  PROVE  RingInv'
<1> DEFINE t == main.todo
<1>1. main.pc = "format" /\ main.pc \in Busy
  BY DEF log_entry_format, Busy
<1>2. /\ t \in Seq(Entry) /\ Head(t) = t[1] /\ t[1] \in Entry
      /\ main \in MainType
  BY <1>1, TodoShape
<1>3. /\ main' = [main EXCEPT !.pc = "inc"]
      /\ ring_buffer' = [ring_buffer EXCEPT ![Slot(write_count)] = t[1]]
      /\ UNCHANGED <<write_count, read_count, event_fd, thread_enabled, overflow, skipped,
                     worker, calls, log, failed>>
  BY <1>2 DEF log_entry_format
<1>4. main' \in MainType /\ main'.pc = "inc" /\ main'.todo = t
  BY <1>2, <1>3 DEF MainType, Busy
<1>5. /\ ring_buffer' \in [0 .. ENTRY_COUNT - 1 -> Entry]
      /\ ring_buffer'[Slot(write_count)] = t[1]
  <2>1. Slot(write_count) \in 0 .. ENTRY_COUNT - 1
    BY SlotInRing DEF RingInv, Types, Counts
  <2>2. ring_buffer \in [0 .. ENTRY_COUNT - 1 -> Entry]
    BY DEF RingInv, Types
  <2> QED
    BY <1>2, <1>3, <2>1, <2>2
<1>6. Types'
  BY <1>3, <1>4, <1>5 DEF RingInv, Types, MainType
<1>7. buffered_count' = buffered_count
  BY <1>3, BufferedIs
<1>8. TodoOK'
  BY <1>1, <1>3, <1>4 DEF RingInv, TodoOK, Busy
<1>9. RoomOK'
  BY <1>1, <1>3, <1>4, <1>5, <1>7 DEF RingInv, RoomOK
<1>10. WorkerOK' /\ LossOK'
  BY <1>3, <1>4, <1>7 DEF RingInv, WorkerOK, LossOK, Stopped
<1> QED
  BY <1>6, <1>8, <1>9, <1>10 DEF RingInv

\* Counting the formatted entry hands it to the worker.
LEMMA WriteIncKeepsRing ==
  ASSUME RingInv, write_count_inc
  PROVE  RingInv' /\ buffered_count' = buffered_count + 1
<1> DEFINE t == main.todo
           b == buffered_count
<1>1. main.pc = "inc" /\ main.pc \in Busy
  BY DEF write_count_inc, Busy
<1>2. /\ Len(t) \in 1 .. 2 /\ main \in MainType
  BY <1>1, TodoShape
<1>3. /\ main' = [main EXCEPT !.pc = "notify"]
      /\ write_count' = Next1(write_count)
      /\ UNCHANGED <<ring_buffer, read_count, event_fd, thread_enabled, overflow, skipped,
                     worker, calls, log, failed>>
  BY DEF write_count_inc, Next1
<1>4. main' \in MainType /\ main'.pc = "notify" /\ main'.todo = t
  BY <1>2, <1>3 DEF MainType, Busy
<1>5. b \in 0 .. ENTRY_COUNT /\ b + Len(t) <= ENTRY_COUNT
  BY <1>1, BufferedType DEF RingInv, RoomOK
<1>6. b < COUNT_MODULUS - 1
  BY <1>2, <1>5, Sizes
<1>7. write_count \in Counts /\ read_count \in Counts
  BY DEF RingInv, Types
<1>8. buffered_count' = b + 1
  BY <1>3, <1>6, <1>7, BufferedIs, CountUp
<1>9. write_count' \in Counts
  BY <1>3, <1>7, Next1Is
<1>10. Types'
  BY <1>3, <1>4, <1>9 DEF RingInv, Types, MainType
<1>11. TodoOK'
  BY <1>1, <1>3, <1>4 DEF RingInv, TodoOK, Busy
<1>12. RoomOK'
  <2>1. CASE Len(t) = 1
    BY <1>4, <1>5, <1>8, <2>1, Sizes DEF RoomOK
  <2>2. CASE Len(t) = 2
    BY <1>4, <1>5, <1>8, <2>2, Sizes DEF RoomOK
  <2> QED
    BY <1>2, <2>1, <2>2
<1>13. WorkerOK' /\ LossOK'
  BY <1>3, <1>4, <1>5, <1>8 DEF RingInv, WorkerOK, LossOK, Stopped
<1> QED
  BY <1>8, <1>10, <1>11, <1>12, <1>13 DEF RingInv

\* What becomes of main in dsme_log_notify_worker().
LEMMA NotifyMain ==
  ASSUME RingInv, dsme_log_notify_worker
  PROVE  /\ main' \in MainType
         /\ \/ /\ main'.pc = "format" /\ Len(main.todo) = 2
               /\ main'.todo \in Seq(Entry) /\ Len(main'.todo) = 1
               /\ main'.todo[1] \in Messages
            \/ main'.pc \in {"idle", "stop"} /\ main'.todo = << >> /\ Len(main.todo) = 1
<1> DEFINE t == main.todo
<1>1. main.pc = "notify" /\ main.pc \in Busy
  BY DEF dsme_log_notify_worker, Busy
<1>2. /\ main \in MainType /\ t \in Seq(Entry) /\ Len(t) \in 1 .. 2
      /\ Len(t) = 2 => t[2] \in Messages
  BY <1>1, TodoShape
<1>3. main' = [main EXCEPT !.todo = Tail(t),
                           !.pc = IF Len(t) > 1 THEN "format" ELSE Continue]
  BY DEF dsme_log_notify_worker
<1> DEFINE u == Tail(t)
<1>4. /\ u \in Seq(Entry)
      /\ Len(t) = 1 => u = << >>
      /\ Len(t) = 2 => Len(u) = 1 /\ u[1] = t[2]
  BY <1>2, TailOfTodo
<1> HIDE DEF u
<1>5. CASE Len(t) = 2
  <2>1. main' = [main EXCEPT !.todo = u, !.pc = "format"]
    BY <1>3, <1>5 DEF u
  <2> QED
    BY <1>2, <1>4, <1>5, <2>1 DEF MainType, Busy
<1>6. CASE Len(t) = 1
  <2>1. main' = [main EXCEPT !.todo = u, !.pc = Continue]
    BY <1>3, <1>6 DEF u
  <2>2. Continue \in {"idle", "stop"}
    BY DEF Continue
  <2> QED
    BY <1>2, <1>4, <1>6, <2>1, <2>2 DEF MainType
<1> QED
  BY <1>2, <1>5, <1>6

\* Writing to the eventfd: the token stands for the entry that was counted.
LEMMA NotifyKeepsRing ==
  ASSUME RingInv, dsme_log_notify_worker
  PROVE  RingInv'
<1> DEFINE t == main.todo
<1>1. main.pc = "notify" /\ main.pc \in Busy
  BY DEF dsme_log_notify_worker, Busy
<1>2. /\ Len(t) \in 1 .. 2 /\ skipped = 0 /\ Head(t) \in Entry
  BY <1>1, TodoShape
<1>3. /\ UNCHANGED <<ring_buffer, write_count, read_count, overflow, skipped, worker,
                     calls>>
      /\ thread_enabled' \in BOOLEAN /\ failed' \in BOOLEAN /\ event_fd' \in Int
      /\ log' = log \/ log' = Append(log, Head(t))
  <2>1. thread_enabled \in BOOLEAN /\ failed \in BOOLEAN /\ event_fd \in Int
    BY DEF RingInv, Types
  <2>2. event_fd' = event_fd \/ event_fd' = event_fd + 1
    BY DEF dsme_log_notify_worker
  <2>3. event_fd' \in Int
    BY <2>1, <2>2
  <2> QED
    BY <2>1, <2>3, Zenon DEF dsme_log_notify_worker, ringVars
<1>4. log' \in Seq(Entry)
  <2>1. log \in Seq(Entry)
    BY DEF RingInv, Types
  <2>2. Append(log, Head(t)) \in Seq(Entry)
    BY <1>2, <2>1, AppendProperties
  <2> QED
    BY <1>3, <2>1, <2>2
<1>5. Types'
  BY <1>3, <1>4, NotifyMain DEF RingInv, Types, MainType
<1>6. buffered_count' = buffered_count /\ buffered_count \in 0 .. ENTRY_COUNT
  BY <1>3, BufferedIs, BufferedType
<1>7. TodoOK'
  BY <1>2, <1>3, NotifyMain DEF TodoOK, Busy
<1>8. RoomOK'
  <2>1. buffered_count + Len(t) - 1 <= ENTRY_COUNT
    BY <1>1 DEF RingInv, RoomOK
  <2>2. CASE main'.pc = "format" /\ Len(t) = 2 /\ Len(main'.todo) = 1
    BY <1>6, <2>1, <2>2, Sizes DEF RoomOK
  <2>3. CASE main'.pc \in {"idle", "stop"}
    BY <1>6, <2>3, Sizes DEF RoomOK
  <2> QED
    BY <2>2, <2>3, NotifyMain
<1>9. WorkerOK' /\ LossOK'
  BY <1>3, <1>6, NotifyMain DEF RingInv, WorkerOK, LossOK, Stopped
<1> QED
  BY <1>5, <1>7, <1>8, <1>9 DEF RingInv

\* The worker's part of the invariant does not depend on the rules.
LEMMA StutterKeepsRing ==
  ASSUME RingInv,
         UNCHANGED <<ringVars, event_fd, thread_enabled, overflow, skipped, main, worker,
                     calls, log, failed>>
  PROVE  RingInv'
<1>1. buffered_count' = buffered_count
  BY BufferedIs DEF ringVars
<1>2. Types' /\ TodoOK'
  BY DEF RingInv, Types, TodoOK, ringVars
<1>3. RoomOK' /\ WorkerOK' /\ LossOK'
  BY <1>1 DEF RingInv, RoomOK, WorkerOK, LossOK, ringVars
<1> QED
  BY <1>2, <1>3 DEF RingInv

\* The steps of dsme_log_stop(), Join and Flush leave the ring alone.
LEMMA ClosingKeepsRing ==
  ASSUME RingInv, dsme_log_stop \/ Join \/ Flush
  PROVE  RingInv'
<1>1. /\ main.pc \in {"stop", "join", "flush"} /\ main.pc \notin Busy
      /\ UNCHANGED <<ring_buffer, write_count, read_count, overflow, skipped, calls, failed>>
  BY DEF dsme_log_stop, Join, Flush, ringVars, Busy
<1>2. /\ main \in MainType /\ main.todo = << >>
      /\ read_count \in Counts /\ write_count \in Counts /\ log \in Seq(Entry)
  BY <1>1 DEF RingInv, Types, MainType, TodoOK
<1>3. buffered_count' = buffered_count
  BY <1>1, BufferedIs
<1>4. main' \in MainType /\ main'.pc \in Stopped /\ main'.todo = << >>
  <2>1. CASE dsme_log_stop
    BY <1>2, <2>1 DEF dsme_log_stop, MainType, Stopped
  <2>2. CASE Join
    BY <1>2, <2>2 DEF Join, MainType, Stopped
  <2>3. CASE Flush /\ main.at = write_count
    BY <1>2, <2>3 DEF Flush, MainType, Stopped
  <2>4. CASE Flush /\ main.at # write_count
    <3>1. main' = [main EXCEPT !.at = Next1(main.at)] /\ main.pc = "flush"
      BY <2>4 DEF Flush, Next1
    <3>2. Next1(main.at) \in Counts
      BY <1>2, Next1Is DEF MainType
    <3> QED
      BY <1>2, <3>1, <3>2 DEF MainType, Stopped
  <2> QED
    BY <2>1, <2>2, <2>3, <2>4
<1>5. ~thread_enabled' /\ thread_enabled' \in BOOLEAN /\ event_fd' \in Int
  <2>1. CASE dsme_log_stop
    <3>1. event_fd' \in Int
      BY <2>1 DEF dsme_log_stop, Closed
    <3>2. thread_enabled' = FALSE
      BY <2>1 DEF dsme_log_stop
    <3> QED
      BY <3>1, <3>2, Zenon
  <2>2. CASE Join \/ Flush
    <3>1. main.pc \in Stopped /\ UNCHANGED <<thread_enabled, event_fd>>
      BY <2>2 DEF Join, Flush, Stopped
    <3> QED
      BY <3>1, Zenon DEF RingInv, Types, LossOK
  <2> QED
    BY <2>1, <2>2
<1>6. /\ worker' \in WorkerType
      /\ worker'.pc \in {"output", "inc"} => worker'.pc = worker.pc
  BY DEF RingInv, Types, WorkerType, dsme_log_stop, Join, Flush
<1>7. log' \in Seq(Entry)
  <2>1. ring_buffer[Slot(main.at)] \in Entry
    BY <1>2, SlotInRing DEF RingInv, Types, MainType, Counts
  <2>2. log' = log \/ log' = Append(log, ring_buffer[Slot(main.at)])
    BY DEF dsme_log_stop, Join, Flush
  <2> QED
    BY <1>2, <2>1, <2>2, AppendProperties
<1>8. Types'
  BY <1>1, <1>4, <1>5, <1>6, <1>7 DEF RingInv, Types, MainType
<1>9. TodoOK' /\ RoomOK'
  BY <1>1, <1>3, <1>4 DEF RingInv, TodoOK, RoomOK, Busy, Stopped
<1>10. WorkerOK' /\ LossOK'
  BY <1>1, <1>3, <1>5, <1>6 DEF RingInv, WorkerOK, LossOK
<1> QED
  BY <1>8, <1>9, <1>10 DEF RingInv

\* The start of the logging thread.
LEMMA OpenKeepsRing ==
  ASSUME RingInv, dsme_log_open
  PROVE  RingInv'
<1>1. /\ UNCHANGED <<ring_buffer, write_count, read_count, event_fd, thread_enabled,
                     overflow, skipped, main, calls, log>>
      /\ worker' = worker \/ worker' = [worker EXCEPT !.pc = "read"]
      /\ failed' \in BOOLEAN
  BY DEF dsme_log_open, ringVars, RingInv, Types
<1>2. buffered_count' = buffered_count
  BY <1>1, BufferedIs
<1>3. /\ worker' \in WorkerType
      /\ worker'.pc \in {"output", "inc"} => worker'.pc = worker.pc
  BY <1>1 DEF RingInv, Types, WorkerType
<1>4. Types'
  BY <1>1, <1>3 DEF RingInv, Types
<1>5. TodoOK' /\ RoomOK'
  BY <1>1, <1>2 DEF RingInv, TodoOK, RoomOK
<1>6. WorkerOK' /\ LossOK'
  BY <1>1, <1>2, <1>3 DEF RingInv, WorkerOK, LossOK
<1> QED
  BY <1>4, <1>5, <1>6 DEF RingInv

\* A step of the logging thread: it takes an entry in hand only when the ring has
\* one, and counts it only when it has it in hand.
LEMMA WorkerKeepsRing ==
  ASSUME RingInv, WorkerNext
  PROVE  RingInv'
<1> USE DEF WorkerNext
<1>1. /\ UNCHANGED <<ring_buffer, write_count, overflow, skipped, main, calls>>
      /\ thread_enabled' \in BOOLEAN /\ (thread_enabled' => thread_enabled)
      /\ failed' \in BOOLEAN
  <2>1. UNCHANGED mainVars
    BY DEF WorkerRead, WorkerCheck, WorkerOutput, read_count_inc, WorkerEnabled
  <2>2. \/ thread_enabled' = thread_enabled /\ failed' = failed
        \/ thread_enabled' = FALSE /\ failed' \in BOOLEAN
    BY DEF WorkerRead, WorkerCheck, WorkerOutput, read_count_inc, WorkerEnabled, WorkerExit
  <2>3. thread_enabled \in BOOLEAN /\ failed \in BOOLEAN
    BY DEF RingInv, Types
  <2>4. UNCHANGED <<ring_buffer, write_count, overflow, skipped, main, calls>>
    BY <2>1 DEF mainVars
  <2>5. thread_enabled' \in BOOLEAN /\ failed' \in BOOLEAN
    BY <2>2, <2>3, Zenon
  <2>6. thread_enabled' => thread_enabled
    BY <2>2, <2>3, Zenon
  <2> QED
    BY <2>4, <2>5, <2>6
<1>2. worker' \in WorkerType /\ event_fd' \in Int
  BY DEF WorkerRead, WorkerCheck, WorkerOutput, read_count_inc, WorkerEnabled, WorkerExit,
         RingInv, Types, WorkerType
<1>3. /\ write_count \in Counts /\ read_count \in Counts /\ log \in Seq(Entry)
      /\ buffered_count \in 0 .. ENTRY_COUNT /\ ring_buffer[Slot(read_count)] \in Entry
  <2>1. /\ write_count \in Counts /\ read_count \in Counts /\ log \in Seq(Entry)
        /\ ring_buffer \in [0 .. ENTRY_COUNT - 1 -> Entry]
    BY DEF RingInv, Types
  <2>2. Slot(read_count) \in 0 .. ENTRY_COUNT - 1
    BY <2>1, SlotInRing DEF Counts
  <2>3. buffered_count \in 0 .. ENTRY_COUNT
    BY BufferedType
  <2> QED
    BY <2>1, <2>2, <2>3
<1>4. log' \in Seq(Entry)
  <2>1. log' = log \/ log' = Append(log, ring_buffer[Slot(read_count)])
    BY DEF WorkerRead, WorkerCheck, WorkerOutput, read_count_inc, WorkerEnabled
  <2> QED
    BY <1>3, <2>1, AppendProperties
<1>5. CASE read_count_inc
  <2>1. /\ read_count' = Next1(read_count) /\ worker.pc = "inc" /\ worker'.pc = "enabled"
    BY <1>5 DEF read_count_inc, Next1
  <2>2. buffered_count > 0
    BY <2>1 DEF RingInv, WorkerOK
  <2>3. buffered_count' = buffered_count - 1
    BY <1>1, <1>3, <2>1, <2>2, BufferedIs, CountDown
  <2>4. Types'
    BY <1>1, <1>2, <1>3, <1>4, <2>1, Next1Is DEF RingInv, Types
  <2>5. TodoOK'
    BY <1>1 DEF RingInv, TodoOK
  <2>6. RoomOK'
    <3>1. Len(main.todo) \in Nat
      BY DEF RingInv, Types
    <3> QED
      BY <1>1, <1>3, <2>3, <3>1, Sizes DEF RingInv, RoomOK
  <2>7. WorkerOK' /\ LossOK'
    BY <1>1, <2>1 DEF RingInv, WorkerOK, LossOK
  <2> QED
    BY <2>4, <2>5, <2>6, <2>7 DEF RingInv
<1>6. CASE WorkerRead \/ WorkerCheck \/ WorkerOutput \/ WorkerEnabled
  <2>1. read_count' = read_count
    BY <1>6 DEF WorkerRead, WorkerCheck, WorkerOutput, WorkerEnabled
  <2>2. buffered_count' = buffered_count
    BY <1>1, <2>1, BufferedIs
  <2>3. Types'
    BY <1>1, <1>2, <1>4, <2>1 DEF RingInv, Types
  <2>4. TodoOK' /\ RoomOK' /\ LossOK'
    BY <1>1, <2>1, <2>2 DEF RingInv, TodoOK, RoomOK, LossOK
  <2>5. worker'.pc \in {"output", "inc"} => buffered_count > 0
    BY <1>3, <1>6 DEF WorkerRead, WorkerCheck, WorkerOutput, WorkerEnabled, WorkerExit,
                      RingInv, Types, WorkerType, WorkerOK
  <2>6. WorkerOK'
    BY <2>2, <2>5 DEF WorkerOK
  <2> QED
    BY <2>3, <2>4, <2>6 DEF RingInv
<1> QED
  BY <1>5, <1>6

\* A step of either thread keeps the invariant.
LEMMA NextKeepsRing ==
  ASSUME RingInv, [Next]_vars
  PROVE  RingInv'
<1>1. CASE UNCHANGED vars
  BY <1>1, StutterKeepsRing DEF vars
<1>2. ASSUME NEW c \in Callers, NEW prio \in Prios, dsme_log(c, prio)
      PROVE  RingInv'
  <2>1. CASE dsme_log_queue(FALSE)
    BY <1>2, <2>1, QueueKeepsRing DEF dsme_log
  <2>2. CASE UNCHANGED <<ringVars, event_fd, thread_enabled, overflow, skipped, main, calls,
                         log, accepted, failed>>
    BY <1>2, <2>2, StutterKeepsRing DEF dsme_log
  <2> QED
    BY <1>2, <2>1, <2>2 DEF dsme_log
<1>3. ASSUME NEW p \in Patterns, NEW s \in {"included", "excluded"}, AddRule(p, s)
      PROVE  RingInv'
  BY <1>3, QueueKeepsRing DEF AddRule
<1>4. CASE dsme_log_clear_rules
  BY <1>4, QueueKeepsRing DEF dsme_log_clear_rules
<1>5. ASSUME NEW v \in Prios, dsme_log_set_verbosity(v)
      PROVE  RingInv'
  BY <1>5, QueueKeepsRing DEF dsme_log_set_verbosity
<1>6. CASE dsme_log_close
  BY <1>6, QueueKeepsRing DEF dsme_log_close
<1> QED
  BY <1>1, <1>2, <1>3, <1>4, <1>5, <1>6, OpenKeepsRing, FormatKeepsRing,
     WriteIncKeepsRing, NotifyKeepsRing, ClosingKeepsRing, WorkerKeepsRing
     DEF Next, MainNext

\* logging.c, dsme_log_queue(), log_entry_format(), write_count_inc() and
\* dsme_log_thread(): for a ring of any size, the main thread formats an entry only
\* into a free slot, and the logging thread reads only a full one.
THEOREM RingAlways == Spec => []RingInv
<1>1. Init => RingInv
  BY InitRing
<1>2. RingInv /\ [Next]_vars => RingInv'
  BY NextKeepsRing
<1> QED
  BY <1>1, <1>2, PTL DEF Spec

\* logging.c, dsme_log_queue(): the main thread never formats an entry into the
\* slot that the logging thread is writing out, overflow entry included.
THEOREM NoTornEntryAlways == Spec => []NoTornEntry
<1>1. RingInv => NoTornEntry
  <2> SUFFICES ASSUME RingInv, main.pc = "format", buffered_count >= ENTRY_COUNT
               PROVE  FALSE
    BY DEF NoTornEntry
  <2>1. Len(main.todo) \in 1 .. 2 /\ buffered_count + Len(main.todo) <= ENTRY_COUNT
    BY TodoShape DEF Busy, RingInv, RoomOK
  <2>2. buffered_count \in 0 .. ENTRY_COUNT
    BY BufferedType
  <2> DEFINE l == Len(main.todo)
  <2> HIDE DEF l
  <2> QED
    BY <2>1, <2>2, Sizes
<1> QED
  BY <1>1, RingAlways, PTL
-----------------------------------------------------------------------------
(***************************************************************************)
(* The refinement: the mapping of Channel, by name.                        *)
(***************************************************************************)
Up == thread_enabled /\ ~failed

\* The entries of a ring from a count on.
QueueOf(ring, start, held) == [i \in 1 .. held |-> ring[Slot(start + i - 1)]]

\* What is in the ring and not yet in the log.
Waiting == QueueOf(ring_buffer, read_count + Written, buffered_count - Written)

Queue == IF Up THEN Waiting ELSE << >>

Unreported == IF main.todo # << >> /\ Head(main.todo).kind = "lost" /\ main.pc # "notify"
              THEN Head(main.todo).n ELSE skipped

\* A part of a ring is a sequence of entries.
LEMMA QueueOfIs ==
  ASSUME NEW ring \in [0 .. ENTRY_COUNT - 1 -> Entry], NEW start \in Nat, NEW held \in Nat
  PROVE  /\ QueueOf(ring, start, held) \in Seq(Entry)
         /\ Len(QueueOf(ring, start, held)) = held
         /\ \A i \in 1 .. held :
              QueueOf(ring, start, held)[i] = ring[Slot(start + i - 1)]
<1>1. \A i \in 1 .. held : ring[Slot(start + i - 1)] \in Entry
  <2> TAKE i \in 1 .. held
  <2>1. Slot(start + i - 1) \in 0 .. ENTRY_COUNT - 1
    BY SlotInRing
  <2> QED
    BY <2>1
<1>2. QueueOf(ring, start, held) \in [1 .. held -> Entry]
  BY <1>1 DEF QueueOf
<1>3. \A i \in 1 .. held : QueueOf(ring, start, held)[i] = ring[Slot(start + i - 1)]
  BY DEF QueueOf
<1>4. QueueOf(ring, start, held) \in Seq(Entry) /\ Len(QueueOf(ring, start, held)) = held
  BY <1>2
<1> QED
  BY <1>3, <1>4

\* The steps of the channel in these words.
LEMMA ChannelWords ==
  /\ Channel!vars = <<Up, Queue, log, Unreported>>
  /\ Channel!vars' = <<Up', Queue', log', Unreported'>>
BY DEF Channel!vars, Up, Queue, Waiting, Unreported, QueueOf

\* A queue that grew by a message is a Put of the channel.
LEMMA ChannelPut ==
  ASSUME Up /\ Unreported = 0 /\ Len(Queue) < ENTRY_COUNT,
         Len(Queue') = Len(Queue) + 1 /\ IsPrefix(Queue, Queue'),
         Queue'[Len(Queue')] \in Entry /\ Queue'[Len(Queue')].kind = "message",
         UNCHANGED <<Up, log, Unreported>>
  PROVE  Channel!Put
BY DEF Channel!Put, Channel!Entry, Channel!Last, Channel!IsPrefix, IsPrefix, Entry,
       Up, Queue, Waiting, Unreported, QueueOf

\* A queue that grew by the loss report is a Report of the channel.
LEMMA ChannelReport ==
  ASSUME Up /\ Unreported > 0 /\ Len(Queue) < LOW_MARK,
         Queue' = Append(Queue, Loss(Unreported)),
         Unreported' = 0, UNCHANGED <<Up, log>>
  PROVE  Channel!Report
BY DEF Channel!Report, Channel!LossReport, Loss, Up, Queue, Waiting, Unreported, QueueOf

\* One more skipped message is a Lose of the channel.
LEMMA ChannelLose ==
  ASSUME Up, Len(Queue) + 1 >= (IF Unreported = 0 THEN ENTRY_COUNT ELSE LOW_MARK),
         Unreported' = Unreported + 1, UNCHANGED <<Up, Queue, log>>
  PROVE  Channel!Lose
BY DEF Channel!Lose, Up, Queue, Waiting, Unreported, QueueOf

\* The head of the queue moved to the log is a Deliver of the channel.
LEMMA ChannelDeliver ==
  ASSUME Up, Queue # << >>, log' = Append(log, Head(Queue)), Queue' = Tail(Queue),
         UNCHANGED <<Up, Unreported>>
  PROVE  Channel!Deliver
BY DEF Channel!Deliver, Up, Queue, Waiting, Unreported, QueueOf

\* A sequence that agrees with a longer one is a prefix of it.
LEMMA PrefixIs ==
  ASSUME NEW s \in Seq(Entry), NEW t \in Seq(Entry), Len(s) <= Len(t),
         \A i \in 1 .. Len(s) : s[i] = t[i]
  PROVE  IsPrefix(s, t)
<1> DEFINE l == Len(s)
           u == SubSeq(s, 1, l)
           v == SubSeq(t, 1, l)
<1>1. l \in Nat /\ Len(t) \in Nat
  OBVIOUS
<1>2. /\ \A i \in 1 .. l : s[i] \in Entry
      /\ \A i \in 1 .. l : t[i] \in Entry
  OBVIOUS
<1> HIDE DEF l
<1>3. /\ u \in Seq(Entry) /\ Len(u) = (IF 1 <= l THEN l - 1 + 1 ELSE 0)
      /\ \A i \in 1 .. l - 1 + 1 : u[i] = s[1 + i - 1]
  BY <1>1, <1>2, SubSeqProperties
<1>4. /\ v \in Seq(Entry) /\ Len(v) = (IF 1 <= l THEN l - 1 + 1 ELSE 0)
      /\ \A i \in 1 .. l - 1 + 1 : v[i] = t[1 + i - 1]
  BY <1>1, <1>2, SubSeqProperties
<1> HIDE DEF u, v
<1>5. Len(u) = Len(v) /\ \A i \in 1 .. Len(u) : u[i] = v[i]
  <2>1. Len(u) = l /\ Len(v) = l
    BY <1>1, <1>3, <1>4
  <2>2. \A i \in 1 .. l : u[i] = s[i] /\ v[i] = t[i]
    BY <1>1, <1>3, <1>4
  <2>3. \A i \in 1 .. l : s[i] = t[i]
    BY DEF l
  <2> QED
    BY <2>1, <2>2, <2>3
<1>6. u = v
  BY <1>3, <1>4, <1>5, SeqEqual
<1> QED
  BY <1>6 DEF IsPrefix, u, v, l

\* A sequence is a prefix of itself and of what Append makes of it.
LEMMA PrefixOfAppend ==
  ASSUME NEW s \in Seq(Entry), NEW e \in Entry
  PROVE  IsPrefix(s, s) /\ IsPrefix(s, Append(s, e))
<1>1. /\ Append(s, e) \in Seq(Entry) /\ Len(Append(s, e)) = Len(s) + 1
      /\ \A i \in 1 .. Len(s) : Append(s, e)[i] = s[i]
  BY AppendProperties
<1>2. Len(s) \in Nat
  OBVIOUS
<1>3. IsPrefix(s, s)
  BY <1>2, PrefixIs
<1> DEFINE t == Append(s, e)
<1> HIDE DEF t
<1>4. t \in Seq(Entry) /\ Len(s) <= Len(t) /\ \A i \in 1 .. Len(s) : s[i] = t[i]
  BY <1>1, <1>2 DEF t
<1>5. IsPrefix(s, t)
  BY <1>4, PrefixIs
<1> QED
  BY <1>3, <1>5 DEF t

\* The number of losses that are not yet reported is one.
LEMMA UnreportedType ==
  RingInv => Unreported \in Nat
<1> SUFFICES ASSUME RingInv PROVE Unreported \in Nat
  OBVIOUS
<1>1. skipped \in Nat /\ main.todo \in Seq(Entry)
  BY DEF RingInv, Types
<1>2. main.todo # << >> => Head(main.todo) \in Entry
  BY <1>1, HeadTailProperties
<1> QED
  BY <1>1, <1>2 DEF Unreported, Entry

\* Once the thread is not up, whatever is added to the log is a step of the channel.
LEMMA DownStep ==
  ASSUME RingInv, RingInv', ~Up', NEW e \in Entry, log' = log \/ log' = Append(log, e)
  PROVE  Channel!Next
<1>1. (Unreported \in Nat)'
  BY UnreportedType, PTL
<1>2. IsPrefix(log, log')
  BY PrefixOfAppend DEF RingInv, Types
<1>3. Queue' = << >>
  BY DEF Queue
<1>4. CASE Up
  BY <1>1, <1>2, <1>3, <1>4 DEF Channel!Next, Channel!Degrade, Channel!IsPrefix, IsPrefix,
     Up, Queue, Waiting, Unreported, QueueOf
<1>5. CASE ~Up
  BY <1>1, <1>2, <1>3, <1>5 DEF Channel!Next, Channel!Degraded, Channel!IsPrefix, IsPrefix,
     Up, Queue, Waiting, Unreported, QueueOf
<1> QED
  BY <1>4, <1>5

\* The channel as the invariant describes it: its length is the number of entries in
\* the ring that are not written out.
LEMMA QueueShape ==
  RingInv => /\ Written \in 0 .. 1 /\ buffered_count - Written \in Nat
             /\ read_count \in Nat /\ read_count + Written \in Nat
             /\ buffered_count \in 0 .. ENTRY_COUNT
             /\ Waiting \in Seq(Entry) /\ Len(Waiting) = buffered_count - Written
<1> SUFFICES ASSUME RingInv
             PROVE  QueueShape!2
  OBVIOUS
<1>1. buffered_count \in 0 .. ENTRY_COUNT
  BY BufferedType
<1>2. Written \in 0 .. 1 /\ buffered_count - Written \in Nat
  BY <1>1 DEF Written, RingInv, WorkerOK
<1>3. read_count \in Nat
  BY DEF RingInv, Types, Counts
<1>4. read_count + Written \in Nat
  BY <1>2, <1>3
<1>5. ring_buffer \in [0 .. ENTRY_COUNT - 1 -> Entry]
  BY DEF RingInv, Types
<1>6. Waiting \in Seq(Entry) /\ Len(Waiting) = buffered_count - Written
  BY <1>2, <1>4, <1>5, QueueOfIs DEF Waiting
<1> QED
  BY <1>1, <1>2, <1>3, <1>4, <1>6

\* A call of dsme_log_queue() loses a message, or has not yet done anything.
LEMMA QueueRefines ==
  ASSUME RingInv, RingInv', main.pc = "idle", NEW closing \in BOOLEAN,
         dsme_log_queue(closing), UNCHANGED worker
  PROVE  Channel!Next \/ UNCHANGED Channel!vars
<1> DEFINE m == [kind |-> "message", n |-> calls + 1]
           t == Admit(m)
<1>1. /\ skipped' = IF t = << >> THEN skipped + 1 ELSE 0
      /\ main' = [main EXCEPT !.todo = t, !.closing = closing,
                    !.pc = IF t # << >> THEN "format"
                           ELSE IF closing THEN "stop" ELSE "idle"]
      /\ UNCHANGED <<ring_buffer, write_count, read_count, thread_enabled, log, failed>>
  BY DEF dsme_log_queue, ringVars
<1>2. m.kind = "message"
  OBVIOUS
<1>3. \/ t = << >> /\ buffered_count >= (IF overflow THEN LOW_MARK ELSE ENTRY_COUNT)
      \/ t = <<m>> /\ ~overflow
      \/ t = <<Loss(skipped), m>> /\ overflow
  BY AdmitIs
<1> HIDE DEF m, t
<1>4. main \in MainType /\ main.todo = << >> /\ skipped \in Nat
      /\ (overflow <=> skipped > 0)
  BY DEF RingInv, Types, MainType, TodoOK, Busy, LossOK
<1>5. Up' = Up /\ Queue' = Queue /\ log' = log
  <2>1. buffered_count' = buffered_count /\ Written' = Written
    BY <1>1, BufferedIs DEF Written
  <2> QED
    BY <1>1, <2>1 DEF Up, Queue, Waiting
<1>6. Unreported = skipped
  BY <1>4 DEF Unreported
<1>7. main'.todo = t /\ (t # << >> => main'.pc = "format")
  BY <1>1, <1>4 DEF MainType
<1>8. CASE t = << >> /\ buffered_count >= (IF overflow THEN LOW_MARK ELSE ENTRY_COUNT)
  <2>1. Unreported' = Unreported + 1
    BY <1>1, <1>6, <1>7, <1>8 DEF Unreported
  <2>2. CASE Up
    <3>1. Len(Queue) = buffered_count - Written /\ Written \in 0 .. 1
          /\ buffered_count \in 0 .. ENTRY_COUNT
      BY <2>2, QueueShape DEF Queue
    <3>2. CASE overflow
      BY <1>4, <1>5, <1>6, <1>8, <2>1, <2>2, <3>1, <3>2, ChannelLose, Sizes
         DEF Channel!Next
    <3>3. CASE ~overflow
      BY <1>4, <1>5, <1>6, <1>8, <2>1, <2>2, <3>1, <3>3, ChannelLose, Sizes
         DEF Channel!Next
    <3> QED
      BY <3>2, <3>3
  <2>3. CASE ~Up
    <3>1. Blank \in Entry
      BY DEF Blank, Entry
    <3> QED
      BY <1>5, <2>3, <3>1, DownStep
  <2> QED
    BY <2>2, <2>3
<1>9. CASE t = <<m>> /\ ~overflow
  <2>1. skipped = 0 /\ skipped' = 0
    BY <1>1, <1>4, <1>9
  <2>2. Head(t) = m
    BY <1>9
  <2>3. Unreported' = Unreported
    BY <1>2, <1>6, <1>7, <2>1, <2>2 DEF Unreported
  <2> QED
    BY <1>5, <2>3, ChannelWords
<1>10. CASE t = <<Loss(skipped), m>> /\ overflow
  <2>1. t # << >> /\ Head(t) = Loss(skipped)
    BY <1>10
  <2>2. Unreported' = skipped
    BY <1>7, <2>1 DEF Unreported, Loss
  <2> QED
    BY <1>5, <1>6, <2>2, ChannelWords
<1> QED
  BY <1>3, <1>8, <1>9, <1>10

\* A step that leaves the ring, the counters and the logging thread alone.
LEMMA WaitingSame ==
  ASSUME UNCHANGED <<ring_buffer, write_count, read_count>>, Written' = Written
  PROVE  Waiting' = Waiting
<1>1. buffered_count' = buffered_count
  BY BufferedIs
<1> QED
  BY <1>1 DEF Waiting

\* log_entry_format() writes into a slot that holds nothing that waits.
LEMMA FormatWaiting ==
  ASSUME RingInv, log_entry_format
  PROVE  Waiting' = Waiting
<1>1. main.pc = "format" /\ main.pc \in Busy
  BY DEF log_entry_format, Busy
<1>2. /\ ring_buffer' = [ring_buffer EXCEPT ![Slot(write_count)] = Head(main.todo)]
      /\ UNCHANGED <<write_count, read_count, worker>>
  BY DEF log_entry_format
<1> DEFINE b == buffered_count
           s == read_count + Written
           h == b - Written
<1>3. /\ Written \in 0 .. 1 /\ b \in 0 .. ENTRY_COUNT /\ h \in Nat /\ s \in Nat
      /\ read_count \in Nat
  BY QueueShape
<1>4. b < ENTRY_COUNT
  <2>1. Len(main.todo) \in 1 .. 2 /\ b + Len(main.todo) <= ENTRY_COUNT
    BY <1>1, TodoShape DEF RingInv, RoomOK
  <2> DEFINE l == Len(main.todo)
  <2>2. l \in 1 .. 2 /\ b + l <= ENTRY_COUNT
    BY <2>1
  <2> HIDE DEF l
  <2> QED
    BY <1>3, <2>2, Sizes
<1>5. Slot(write_count) = Slot(read_count + b)
  BY SlotOfWrite, BufferedIs DEF RingInv, Types
<1>6. ring_buffer \in [0 .. ENTRY_COUNT - 1 -> Entry]
  BY DEF RingInv, Types
<1>7. b' = b /\ Written' = Written
  BY <1>2, BufferedIs DEF Written
<1>8. ASSUME NEW i \in 1 .. h
      PROVE  ring_buffer'[Slot(s + i - 1)] = ring_buffer[Slot(s + i - 1)]
  <2>1. /\ s + i - 1 \in Nat /\ read_count + b \in Nat
        /\ s + i - 1 < read_count + b /\ read_count + b < (s + i - 1) + ENTRY_COUNT
    BY <1>3, <1>4, Sizes
  <2>2. Slot(s + i - 1) # Slot(write_count)
    BY <1>5, <2>1, SlotsDiffer
  <2>3. Slot(s + i - 1) \in 0 .. ENTRY_COUNT - 1
    BY <2>1, SlotInRing
  <2> QED
    BY <1>2, <1>6, <2>2, <2>3
<1>9. QueueOf(ring_buffer', s, h) = QueueOf(ring_buffer, s, h)
  BY <1>8 DEF QueueOf
<1> QED
  BY <1>2, <1>7, <1>9 DEF Waiting

\* write_count_inc() makes the entry that has been formatted wait.
LEMMA WriteIncWaiting ==
  ASSUME RingInv, write_count_inc
  PROVE  Waiting' = Append(Waiting, main.todo[1])
<1> DEFINE e == main.todo[1]
           b == buffered_count
           s == read_count + Written
           h == b - Written
           q == QueueOf(ring_buffer, s, h)
           r == QueueOf(ring_buffer, s, h + 1)
<1>1. main.pc = "inc" /\ UNCHANGED <<ring_buffer, read_count, worker>>
  BY DEF write_count_inc
<1>2. e \in Entry
  BY <1>1, TodoShape DEF Busy
<1>3. /\ Written \in 0 .. 1 /\ b \in 0 .. ENTRY_COUNT /\ h \in Nat /\ s \in Nat
      /\ read_count \in Nat /\ h + 1 \in Nat
  BY QueueShape
<1>4. ring_buffer[Slot(write_count)] = e /\ ring_buffer \in [0 .. ENTRY_COUNT - 1 -> Entry]
  BY <1>1 DEF RingInv, RoomOK, Types
<1>5. Slot(write_count) = Slot(read_count + b)
  BY SlotOfWrite, BufferedIs DEF RingInv, Types
<1>6. Waiting' = r
  <2>1. b' = b + 1 /\ Written' = Written
    BY <1>1, WriteIncKeepsRing DEF Written
  <2>2. b' - Written' = h + 1 /\ read_count' + Written' = s
    BY <1>1, <1>3, <2>1
  <2> QED
    BY <1>1, <2>2 DEF Waiting
<1>7. /\ q \in Seq(Entry) /\ Len(q) = h
      /\ \A i \in 1 .. h : q[i] = ring_buffer[Slot(s + i - 1)]
  BY <1>3, <1>4, QueueOfIs
<1>8. /\ r \in Seq(Entry) /\ Len(r) = h + 1
      /\ \A i \in 1 .. h + 1 : r[i] = ring_buffer[Slot(s + i - 1)]
  BY <1>3, <1>4, QueueOfIs
<1>9. r[h + 1] = e
  <2>1. s + (h + 1) - 1 = read_count + b /\ h + 1 \in 1 .. h + 1
    BY <1>3
  <2> QED
    BY <1>4, <1>5, <1>8, <2>1
<1> HIDE DEF q, r, h, s, b, e
<1>10. /\ Append(q, e) \in Seq(Entry) /\ Len(Append(q, e)) = h + 1
       /\ \A i \in 1 .. h : Append(q, e)[i] = q[i]
       /\ Append(q, e)[h + 1] = e
  BY <1>2, <1>7, AppendProperties
<1>11. ASSUME NEW i \in 1 .. h + 1
       PROVE  r[i] = Append(q, e)[i]
  <2>1. CASE i = h + 1
    BY <1>9, <1>10, <2>1
  <2>2. CASE i # h + 1
    <3>1. i \in 1 .. h
      BY <1>3, <2>2
    <3>2. r[i] = q[i]
      BY <1>7, <1>8, <3>1
    <3> QED
      BY <1>10, <3>1, <3>2
  <2> QED
    BY <2>1, <2>2
<1>12. r = Append(q, e)
  BY <1>8, <1>10, <1>11, SeqEqual
<1> QED
  BY <1>6, <1>12 DEF Waiting, q, h, s, b, e

\* What dsme_log_routine() writes out is what has waited longest.
LEMMA OutputWaiting ==
  ASSUME RingInv, WorkerOutput
  PROVE  /\ Waiting # << >> /\ Waiting' = Tail(Waiting)
         /\ log' = Append(log, Head(Waiting))
<1> DEFINE b == buffered_count
           e == ring_buffer[Slot(read_count)]
           q == QueueOf(ring_buffer, read_count, b)
           r == QueueOf(ring_buffer, read_count + 1, b - 1)
<1>1. /\ worker.pc = "output" /\ worker'.pc = "inc"
      /\ UNCHANGED <<ring_buffer, write_count, read_count>> /\ log' = Append(log, e)
  BY DEF WorkerOutput, mainVars, RingInv, Types, WorkerType
<1>2. Written = 0 /\ Written' = 1 /\ b \in Nat /\ b > 0 /\ read_count \in Nat
  BY <1>1, QueueShape DEF Written, RingInv, WorkerOK
<1>3. b' = b
  BY <1>1, BufferedIs
<1>4. Waiting = q /\ Waiting' = r
  BY <1>1, <1>2, <1>3 DEF Waiting
<1>5. /\ q \in Seq(Entry) /\ Len(q) = b
      /\ \A i \in 1 .. b : q[i] = ring_buffer[Slot(read_count + i - 1)]
  BY <1>2, QueueOfIs DEF RingInv, Types
<1>6. /\ r \in Seq(Entry) /\ Len(r) = b - 1
      /\ \A i \in 1 .. b - 1 : r[i] = ring_buffer[Slot(read_count + 1 + i - 1)]
  <2>1. read_count + 1 \in Nat /\ b - 1 \in Nat
    BY <1>2
  <2> QED
    BY <2>1, QueueOfIs DEF RingInv, Types
<1> HIDE DEF q, r, b
<1>7. q # << >> /\ Head(q) = e
  <2>1. q[1] = ring_buffer[Slot(read_count + 1 - 1)] /\ read_count + 1 - 1 = read_count
    BY <1>2, <1>5
  <2>2. q # << >> /\ Head(q) = q[1]
    BY <1>2, <1>5
  <2> QED
    BY <2>1, <2>2
<1>8. /\ Tail(q) \in Seq(Entry) /\ Len(Tail(q)) = b - 1
      /\ \A i \in 1 .. Len(Tail(q)) : Tail(q)[i] = q[i + 1]
  BY <1>5, <1>7, HeadTailProperties
<1>9. \A i \in 1 .. b - 1 : r[i] = Tail(q)[i]
  <2> TAKE i \in 1 .. b - 1
  <2>1. /\ i + 1 \in 1 .. b
        /\ read_count + 1 + i - 1 = read_count + (i + 1) - 1
    BY <1>2
  <2>2. q[i + 1] = ring_buffer[Slot(read_count + (i + 1) - 1)]
    BY <1>5, <2>1
  <2> QED
    BY <1>6, <1>8, <2>1, <2>2
<1>10. r = Tail(q)
  BY <1>6, <1>8, <1>9, SeqEqual
<1> QED
  BY <1>1, <1>4, <1>7, <1>10

\* read_count_inc() gives a slot back that no longer counts as waiting.
LEMMA ReadIncWaiting ==
  ASSUME RingInv, read_count_inc
  PROVE  Waiting' = Waiting
<1> DEFINE b == buffered_count
<1>1. /\ worker.pc = "inc" /\ worker'.pc = "enabled"
      /\ read_count' = Next1(read_count) /\ UNCHANGED <<ring_buffer, write_count>>
  BY DEF read_count_inc, Next1, mainVars
<1>2. Written = 1 /\ Written' = 0 /\ b \in Nat /\ b > 0
  BY <1>1, QueueShape DEF Written, RingInv, WorkerOK
<1>3. read_count \in Counts /\ write_count \in Counts /\ read_count \in Nat
  BY DEF RingInv, Types, Counts
<1>4. b' = b - 1
  BY <1>1, <1>2, <1>3, BufferedIs, CountDown
<1>5. Next1(read_count) \in Nat
  BY <1>3, Next1Is DEF Counts
<1>6. Waiting = QueueOf(ring_buffer, read_count + 1, b - 1)
  BY <1>2 DEF Waiting
<1>7. Waiting' = QueueOf(ring_buffer, Next1(read_count), b - 1)
  <2>1. b' - Written' = b - 1 /\ read_count' + Written' = Next1(read_count)
    BY <1>1, <1>2, <1>4, <1>5
  <2> QED
    BY <1>1, <2>1 DEF Waiting
<1>8. ASSUME NEW i \in 1 .. b - 1
      PROVE  Slot(Next1(read_count) + i - 1) = Slot(read_count + 1 + i - 1)
  <2>1. /\ i - 1 \in Nat
        /\ Next1(read_count) + i - 1 = Next1(read_count) + (i - 1)
        /\ read_count + 1 + i - 1 = read_count + 1 + (i - 1)
    BY <1>2, <1>3, <1>5
  <2>2. Slot(Next1(read_count) + (i - 1)) = Slot(read_count + 1 + (i - 1))
    BY <1>3, <2>1, SlotWraps
  <2> QED
    BY <2>1, <2>2
<1> QED
  BY <1>6, <1>7, <1>8 DEF QueueOf

\* log_entry_format() leaves the channel alone.
LEMMA FormatRefines ==
  ASSUME RingInv, log_entry_format
  PROVE  UNCHANGED Channel!vars
<1>1. main.pc = "format" /\ main' = [main EXCEPT !.pc = "inc"] /\ main \in MainType
      /\ UNCHANGED <<thread_enabled, skipped, log, failed>>
  BY DEF log_entry_format, RingInv, Types, MainType
<1>2. main'.todo = main.todo /\ main'.pc = "inc"
  BY <1>1 DEF MainType
<1>3. Unreported' = Unreported
  BY <1>1, <1>2 DEF Unreported
<1>4. Up' = Up /\ Queue' = Queue
  BY <1>1, FormatWaiting DEF Up, Queue
<1> QED
  BY <1>1, <1>3, <1>4, ChannelWords

\* write_count_inc() puts the entry that has been formatted into the channel.
LEMMA WriteIncRefines ==
  ASSUME RingInv, RingInv', write_count_inc
  PROVE  Channel!Next \/ UNCHANGED Channel!vars
<1> DEFINE t == main.todo
           b == buffered_count
<1>1. main.pc = "inc" /\ main.pc \in Busy
  BY DEF write_count_inc, Busy
<1>2. /\ main' = [main EXCEPT !.pc = "notify"] /\ main \in MainType
      /\ UNCHANGED <<thread_enabled, skipped, log, failed>>
  BY DEF write_count_inc, RingInv, Types, MainType
<1>3. main'.todo = t /\ main'.pc = "notify"
  BY <1>2 DEF MainType
<1>4. /\ skipped = 0 /\ Len(t) \in 1 .. 2 /\ t[1] \in Entry /\ Head(t) = t[1]
      /\ Len(t) = 1 => t[1] \in Messages
      /\ Len(t) = 2 => t[1] \in Losses
  BY <1>1, TodoShape
<1>5. /\ Written \in 0 .. 1 /\ b \in 0 .. ENTRY_COUNT
      /\ Waiting \in Seq(Entry) /\ Len(Waiting) = b - Written
  BY QueueShape
<1>6. b < ENTRY_COUNT /\ (Len(t) = 2 => b < LOW_MARK)
  <2>1. b + Len(t) <= ENTRY_COUNT
    BY <1>1 DEF RingInv, RoomOK
  <2> DEFINE l == Len(t)
  <2>2. l \in 1 .. 2 /\ b + l <= ENTRY_COUNT
    BY <1>4, <2>1
  <2> HIDE DEF l
  <2>3. b < ENTRY_COUNT
    BY <1>5, <2>2, Sizes
  <2> QED
    BY <1>1, <2>3 DEF RingInv, RoomOK
<1>7. Up' = Up /\ log' = log
  BY <1>2 DEF Up
<1>8. Unreported' = 0
  BY <1>2, <1>3, <1>4 DEF Unreported
<1>9. CASE Up
  <2>1. Queue = Waiting /\ Queue' = Append(Waiting, t[1])
    BY <1>7, <1>9, WriteIncWaiting DEF Queue
  <2>2. /\ IsPrefix(Waiting, Append(Waiting, t[1]))
        /\ Len(Append(Waiting, t[1])) = Len(Waiting) + 1
        /\ Append(Waiting, t[1])[Len(Waiting) + 1] = t[1]
    BY <1>4, <1>5, PrefixOfAppend, AppendProperties
  <2>3. CASE Len(t) = 1
    <3>1. t[1] \in Entry /\ t[1].kind = "message"
      BY <1>4, <2>3 DEF Messages
    <3>2. Unreported = 0
      BY <1>4, <3>1 DEF Unreported
    <3>3. Len(Waiting) < ENTRY_COUNT
      BY <1>5, <1>6, Sizes
    <3> QED
      BY <1>7, <1>8, <1>9, <2>1, <2>2, <3>1, <3>2, <3>3, ChannelPut DEF Channel!Next
  <2>4. CASE Len(t) = 2
    <3>1. t[1] \in Losses /\ t # << >>
      BY <1>4, <2>4
    <3>2. Unreported = t[1].n /\ Unreported > 0 /\ t[1] = Loss(Unreported)
      BY <1>1, <1>4, <3>1 DEF Unreported, Losses, Entry, Loss
    <3>3. Len(Waiting) < LOW_MARK
      BY <1>5, <1>6, <2>4, Sizes
    <3> QED
      BY <1>7, <1>8, <1>9, <2>1, <3>2, <3>3, ChannelReport DEF Channel!Next
  <2> QED
    BY <1>4, <2>3, <2>4
<1>10. CASE ~Up
  BY <1>4, <1>7, <1>10, DownStep
<1> QED
  BY <1>9, <1>10

\* dsme_log_notify_worker() leaves the channel alone, or ends its promise.
LEMMA NotifyRefines ==
  ASSUME RingInv, RingInv', dsme_log_notify_worker
  PROVE  Channel!Next \/ UNCHANGED Channel!vars
<1>1. main.pc = "notify" /\ main.pc \in Busy
  BY DEF dsme_log_notify_worker, Busy
<1>2. Head(main.todo) \in Entry
  BY <1>1, TodoShape
<1>3. log' = log \/ log' = Append(log, Head(main.todo))
  BY DEF dsme_log_notify_worker
<1>4. CASE ~Up'
  BY <1>2, <1>3, <1>4, DownStep
<1>5. CASE Up'
  <2>1. /\ UNCHANGED <<ring_buffer, write_count, read_count, skipped, worker>>
        /\ Up /\ log' = log
    <3>1. UNCHANGED <<ring_buffer, write_count, read_count, skipped, worker>>
      BY DEF dsme_log_notify_worker, ringVars
    <3>2. \/ thread_enabled' = thread_enabled /\ log' = log /\ failed' = failed
          \/ thread_enabled' = FALSE
          \/ ~thread_enabled'
      <4>1. CASE thread_enabled
        BY <4>1 DEF dsme_log_notify_worker
      <4>2. CASE ~thread_enabled
        <5>1. thread_enabled' = thread_enabled
          BY <4>2 DEF dsme_log_notify_worker
        <5> QED
          BY <4>2, <5>1
      <4> QED
        BY <4>1, <4>2
    <3>3. thread_enabled' /\ ~failed'
      BY <1>5 DEF Up
    <3>4. thread_enabled' = thread_enabled /\ log' = log /\ failed' = failed
      BY <3>2, <3>3
    <3>5. Up
      BY <3>3, <3>4 DEF Up
    <3> QED
      BY <3>1, <3>4, <3>5
  <2>2. Queue' = Queue
    <3>1. Written' = Written
      BY <2>1 DEF Written
    <3> QED
      BY <1>5, <2>1, <3>1, WaitingSame DEF Queue
  <2>3. Unreported = skipped
    BY <1>1 DEF Unreported
  <2>4. Unreported' = skipped
    <3>1. CASE main'.todo = << >>
      BY <2>1, <3>1 DEF Unreported
    <3>2. CASE main'.todo \in Seq(Entry) /\ main'.todo[1] \in Messages
               /\ Len(main'.todo) = 1
      <4>1. Head(main'.todo) = main'.todo[1]
        BY <3>2
      <4> QED
        BY <2>1, <3>2, <4>1 DEF Unreported, Messages
    <3> QED
      BY <3>1, <3>2, NotifyMain
  <2>5. Up' = Up
    BY <1>5, <2>1 DEF Up
  <2> QED
    BY <2>1, <2>2, <2>3, <2>4, <2>5, ChannelWords
<1> QED
  BY <1>4, <1>5

\* The start and the end of the logging.
LEMMA OpenCloseRefines ==
  ASSUME RingInv, RingInv', dsme_log_open \/ dsme_log_stop \/ Join \/ Flush
  PROVE  Channel!Next \/ UNCHANGED Channel!vars
<1>1. CASE dsme_log_open /\ Up'
  <2>1. /\ UNCHANGED <<ring_buffer, write_count, read_count, skipped, main, log,
                       thread_enabled>>
        /\ worker.pc = "none" /\ ~failed
        /\ worker' = worker \/ worker' = [worker EXCEPT !.pc = "read"]
    BY <1>1 DEF dsme_log_open, ringVars
  <2>2. Written = 0 /\ Written' = 0
    BY <2>1 DEF Written, RingInv, Types, WorkerType
  <2>3. Waiting' = Waiting
    BY <2>1, <2>2, WaitingSame
  <2>4. Up' = Up
    BY <1>1, <2>1 DEF Up
  <2>5. Queue' = Queue /\ Unreported' = Unreported
    BY <2>1, <2>3, <2>4 DEF Queue, Unreported
  <2> QED
    BY <2>1, <2>4, <2>5, ChannelWords
<1>2. CASE ~Up'
  <2>1. Blank \in Entry
    BY DEF Blank, Entry
  <2>2. ring_buffer[Slot(main.at)] \in Entry
    <3>1. main.at \in Counts /\ ring_buffer \in [0 .. ENTRY_COUNT - 1 -> Entry]
      BY DEF RingInv, Types
    <3>2. Slot(main.at) \in 0 .. ENTRY_COUNT - 1
      BY <3>1, SlotInRing DEF Counts
    <3> QED
      BY <3>1, <3>2
  <2>3. log' = log \/ log' = Append(log, ring_buffer[Slot(main.at)])
    BY DEF dsme_log_open, dsme_log_stop, Join, Flush
  <2> QED
    BY <1>2, <2>1, <2>2, <2>3, DownStep
<1>3. CASE dsme_log_stop \/ Join \/ Flush
  <2>1. ~thread_enabled'
    <3>1. CASE dsme_log_stop
      BY <3>1 DEF dsme_log_stop
    <3>2. CASE Join \/ Flush
      BY <3>2 DEF Join, Flush, RingInv, LossOK, Stopped
    <3> QED
      BY <1>3, <3>1, <3>2
  <2> QED
    BY <1>2, <2>1 DEF Up
<1> QED
  BY <1>1, <1>2, <1>3

\* A step of the logging thread delivers an entry, leaves the channel alone or ends
\* its promise.
LEMMA WorkerRefines ==
  ASSUME RingInv, RingInv', WorkerNext
  PROVE  Channel!Next \/ UNCHANGED Channel!vars
<1> DEFINE b == buffered_count
           e == ring_buffer[Slot(read_count)]
<1>1. /\ UNCHANGED <<ring_buffer, write_count, skipped, main>>
      /\ log' = log \/ log' = Append(log, e)
      /\ Up' => Up
  <2>1. UNCHANGED mainVars
    BY DEF WorkerNext, WorkerRead, WorkerCheck, WorkerOutput, read_count_inc, WorkerEnabled
  <2>2. log' = log \/ log' = Append(log, e)
    BY DEF WorkerNext, WorkerRead, WorkerCheck, WorkerOutput, read_count_inc, WorkerEnabled
  <2>3. \/ thread_enabled' = thread_enabled /\ failed' = failed
        \/ thread_enabled' = FALSE
    BY DEF WorkerNext, WorkerRead, WorkerCheck, WorkerOutput, read_count_inc, WorkerEnabled,
           WorkerExit
  <2>4. Up' => Up
    BY <2>3, Zenon DEF Up
  <2> QED
    BY <2>1, <2>2, <2>4 DEF mainVars
<1>2. Unreported' = Unreported
  BY <1>1 DEF Unreported
<1>3. /\ ring_buffer \in [0 .. ENTRY_COUNT - 1 -> Entry]
      /\ read_count \in Counts /\ write_count \in Counts /\ read_count \in Nat
  BY DEF RingInv, Types, Counts
<1>4. e \in Entry
  <2>1. Slot(read_count) \in 0 .. ENTRY_COUNT - 1
    BY <1>3, SlotInRing
  <2> QED
    BY <1>3, <2>1
<1>5. CASE ~Up'
  BY <1>1, <1>4, <1>5, DownStep
<1>6. CASE Up' /\ (WorkerRead \/ WorkerCheck \/ WorkerEnabled)
  <2>1. read_count' = read_count /\ log' = log /\ Up' = Up
    BY <1>1, <1>6 DEF WorkerRead, WorkerCheck, WorkerEnabled, Up
  <2>2. Written = 0 /\ Written' = 0
    BY <1>6 DEF WorkerRead, WorkerCheck, WorkerEnabled, WorkerExit, Written, RingInv, Types,
                WorkerType
  <2>3. Waiting' = Waiting
    BY <1>1, <2>1, <2>2, WaitingSame
  <2>4. Queue' = Queue
    BY <2>1, <2>3 DEF Queue
  <2> QED
    BY <1>2, <2>1, <2>4, ChannelWords
<1>7. CASE Up' /\ WorkerOutput
  <2>1. Queue = Waiting /\ Queue' = Waiting' /\ Up' = Up /\ Up
    BY <1>1, <1>7 DEF Queue
  <2> QED
    BY <1>2, <1>7, <2>1, OutputWaiting, ChannelDeliver DEF Channel!Next
<1>8. CASE Up' /\ read_count_inc
  <2>1. log' = log /\ Up' = Up
    BY <1>1, <1>8 DEF read_count_inc
  <2>2. Queue' = Queue
    BY <1>8, <2>1, ReadIncWaiting DEF Queue
  <2> QED
    BY <1>2, <2>1, <2>2, ChannelWords
<1> QED
  BY <1>5, <1>6, <1>7, <1>8 DEF WorkerNext

\* A step of either thread is a step of the channel, or leaves it alone.
LEMMA NextRefines ==
  ASSUME RingInv, RingInv', [Next]_vars
  PROVE  Channel!Next \/ UNCHANGED Channel!vars
<1>1. CASE UNCHANGED vars
  <2>1. UNCHANGED <<ring_buffer, write_count, read_count, thread_enabled, skipped, main,
                    worker, log, failed>>
    BY <1>1 DEF vars, ringVars
  <2>2. Written' = Written /\ Up' = Up
    BY <2>1 DEF Written, Up
  <2>3. Queue' = Queue /\ Unreported' = Unreported
    BY <2>1, <2>2, WaitingSame DEF Queue, Unreported
  <2> QED
    BY <2>1, <2>2, <2>3, ChannelWords
<1>2. ASSUME NEW c \in Callers, NEW prio \in Prios, dsme_log(c, prio)
      PROVE  Channel!Next \/ UNCHANGED Channel!vars
  <2>1. CASE dsme_log_queue(FALSE)
    BY <1>2, <2>1, QueueRefines DEF dsme_log
  <2>2. CASE UNCHANGED <<ringVars, event_fd, thread_enabled, overflow, skipped, main, calls,
                         log, accepted, failed>>
    <3>1. UNCHANGED <<ring_buffer, write_count, read_count, thread_enabled, skipped, main,
                      worker, log, failed>>
      BY <1>2, <2>2 DEF dsme_log, ringVars
    <3>2. Written' = Written /\ Up' = Up
      BY <3>1 DEF Written, Up
    <3>3. Queue' = Queue /\ Unreported' = Unreported
      BY <3>1, <3>2, WaitingSame DEF Queue, Unreported
    <3> QED
      BY <3>1, <3>2, <3>3, ChannelWords
  <2> QED
    BY <1>2, <2>1, <2>2 DEF dsme_log
<1>3. ASSUME NEW p \in Patterns, NEW s \in {"included", "excluded"}, AddRule(p, s)
      PROVE  Channel!Next \/ UNCHANGED Channel!vars
  BY <1>3, QueueRefines DEF AddRule
<1>4. CASE dsme_log_clear_rules
  BY <1>4, QueueRefines DEF dsme_log_clear_rules
<1>5. ASSUME NEW v \in Prios, dsme_log_set_verbosity(v)
      PROVE  Channel!Next \/ UNCHANGED Channel!vars
  BY <1>5, QueueRefines DEF dsme_log_set_verbosity
<1>6. CASE dsme_log_close
  BY <1>6, QueueRefines DEF dsme_log_close
<1> QED
  BY <1>1, <1>2, <1>3, <1>4, <1>5, <1>6, OpenCloseRefines, FormatRefines,
     WriteIncRefines, NotifyRefines, WorkerRefines
     DEF Next, MainNext

\* logging.c, dsme_log_queue() and dsme_log_thread(): with a ring of any size and
\* counters that wrap, the two threads implement the bounded first-in first-out
\* channel of LogChannel, its fairness aside: nothing is reordered, repeated or
\* dropped while the logging thread is up, and the losses are counted and reported.
THEOREM ImplementsChannelSafety == Spec => Channel!Init /\ [][Channel!Next]_(Channel!vars)
<1>1. Init => Channel!Init
  <2> SUFFICES ASSUME Init PROVE Channel!Init
    OBVIOUS
  <2>1. Up = TRUE
    BY DEF Init, Up
  <2>2. buffered_count = 0
    <3>1. 0 \in Counts
      BY Sizes DEF Counts
    <3> QED
      BY <3>1, BufferedIs, BetweenIs DEF Init
  <2>3. Queue = << >>
    <3>1. Queue \in Seq(Entry) /\ Len(Queue) = 0
      <4>1. Written = 0
        BY DEF Written, Init
      <4>2. Queue \in Seq(Entry) /\ Len(Queue) = buffered_count - Written
        BY <2>1, InitRing, QueueShape DEF Queue
      <4> QED
        BY <2>2, <4>1, <4>2
    <3> QED
      BY <3>1, EmptySeq
  <2>4. log = << >> /\ Unreported = 0
    BY DEF Init, Unreported
  <2> QED
    BY <2>1, <2>3, <2>4 DEF Channel!Init, Up, Queue, Waiting, QueueOf, Unreported
<1>2. RingInv /\ RingInv' /\ [Next]_vars => [Channel!Next]_(Channel!vars)
  BY NextRefines
<1> QED
  BY <1>1, <1>2, RingAlways, PTL DEF Spec
-----------------------------------------------------------------------------
(***************************************************************************)
(* The end: dsme_log_close() against a thread that may still write one     *)
(* entry out.                                                              *)
(***************************************************************************)
Flushing == {"flush", "done"}

\* The entries that the loop of dsme_log_close() has still to write, and the one that
\* the logging thread may write at the same time.
Left == Between(write_count, main.at)
Pending == IF worker.pc \in {"check", "output"} THEN 1 ELSE 0

\* Unless it has failed, the thread is there until it is stopped, and until the flush
\* the log and what waits are all that went into the ring, in order.  From then on
\* nothing that went in is missing, and there is one entry too many at most.
FlushInv ==
  /\ accepted \in Seq(Entry)
  /\ ~failed /\ main.pc \notin Stopped => thread_enabled
  /\ ~failed /\ main.pc \notin Flushing => accepted = log \o Waiting
  /\ ~failed /\ main.pc \in Flushing =>
       /\ Len(log) + Left + Pending <= Len(accepted) + 1
       /\ Range(accepted) \subseteq
            Range(log) \cup Range(QueueOf(ring_buffer, main.at, Left))
  /\ main.pc = "done" => main.at = write_count

\* The elements of a sequence, of one with an element more, and of two in a row.
LEMMA RangeIs ==
  ASSUME NEW s \in Seq(Entry)
  PROVE  Range(s) = {s[i] : i \in 1 .. Len(s)}
BY DEF Range

\* The entries of a sequence after Append.
LEMMA RangeOfAppend ==
  ASSUME NEW s \in Seq(Entry), NEW e \in Entry
  PROVE  Range(Append(s, e)) = Range(s) \cup {e}
<1> DEFINE t == Append(s, e)
           l == Len(s)
<1>1. /\ t \in Seq(Entry) /\ Len(t) = l + 1 /\ l \in Nat
      /\ \A i \in 1 .. l : t[i] = s[i]
      /\ t[l + 1] = e
  BY AppendProperties
<1>2. Range(t) = {t[i] : i \in 1 .. l + 1} /\ Range(s) = {s[i] : i \in 1 .. l}
  BY <1>1, RangeIs
<1> HIDE DEF t, l
<1>3. 1 .. l + 1 = (1 .. l) \cup {l + 1}
  BY <1>1
<1>4. Range(t) = {t[i] : i \in 1 .. l} \cup {t[l + 1]}
  BY <1>2, <1>3
<1>5. {t[i] : i \in 1 .. l} = {s[i] : i \in 1 .. l}
  BY <1>1
<1> QED
  BY <1>1, <1>2, <1>4, <1>5 DEF t

\* The entries of a concatenation.
LEMMA RangeOfConcat ==
  ASSUME NEW s \in Seq(Entry), NEW t \in Seq(Entry)
  PROVE  Range(s \o t) \subseteq Range(s) \cup Range(t)
<1> DEFINE u == s \o t
           k == Len(s)
           l == Len(t)
<1>1. /\ u \in Seq(Entry) /\ Len(u) = k + l /\ k \in Nat /\ l \in Nat
      /\ \A i \in 1 .. k + l : u[i] = IF i <= k THEN s[i] ELSE t[i - k]
  BY ConcatProperties
<1>2. /\ Range(u) = {u[i] : i \in 1 .. k + l}
      /\ Range(s) = {s[i] : i \in 1 .. k}
      /\ Range(t) = {t[i] : i \in 1 .. l}
  BY <1>1, RangeIs
<1> HIDE DEF u, k, l
<1>3. ASSUME NEW i \in 1 .. k + l
      PROVE  u[i] \in Range(s) \cup Range(t)
  <2>1. CASE i <= k
    BY <1>1, <1>2, <2>1
  <2>2. CASE i > k
    <3>1. i - k \in 1 .. l
      BY <1>1, <2>2
    <3>2. u[i] = t[i - k]
      BY <1>1, <2>2
    <3> QED
      BY <1>2, <3>1, <3>2
  <2> QED
    BY <1>1, <2>1, <2>2
<1> QED
  BY <1>2, <1>3 DEF u

\* Taking an entry from what waits into the log does not change the two in a row.
LEMMA MoveOne ==
  ASSUME NEW s \in Seq(Entry), NEW t \in Seq(Entry), t # << >>
  PROVE  Append(s, Head(t)) \o Tail(t) = s \o t
<1> DEFINE h == Head(t)
           u == Tail(t)
           a == Append(s, h)
           k == Len(s)
           l == Len(t)
           x == a \o u
           y == s \o t
<1>1. h \in Entry /\ h = t[1] /\ l \in Nat /\ l > 0 /\ k \in Nat
  BY HeadTailProperties, EmptySeq
<1>2. u \in Seq(Entry) /\ Len(u) = l - 1 /\ \A i \in 1 .. l - 1 : u[i] = t[i + 1]
  BY HeadTailProperties
<1>3. /\ a \in Seq(Entry) /\ Len(a) = k + 1
      /\ \A i \in 1 .. k : a[i] = s[i]
      /\ a[k + 1] = h
  BY <1>1, AppendProperties
<1> HIDE DEF a, u, h
<1>4. /\ x \in Seq(Entry) /\ Len(x) = Len(a) + Len(u)
      /\ \A i \in 1 .. Len(a) + Len(u) : x[i] = IF i <= Len(a) THEN a[i] ELSE u[i - Len(a)]
  BY <1>2, <1>3, ConcatProperties
<1>5. /\ y \in Seq(Entry) /\ Len(y) = k + l
      /\ \A i \in 1 .. k + l : y[i] = IF i <= k THEN s[i] ELSE t[i - k]
  BY ConcatProperties
<1> HIDE DEF k, l, x, y
<1>6. /\ Len(x) = k + l
      /\ \A i \in 1 .. k + l : x[i] = IF i <= k + 1 THEN a[i] ELSE u[i - (k + 1)]
  <2>1. Len(a) + Len(u) = k + l
    BY <1>1, <1>2, <1>3
  <2> QED
    BY <1>3, <1>4, <2>1
<1>7. ASSUME NEW i \in 1 .. k + l
      PROVE  x[i] = y[i]
  <2>1. CASE i <= k
    <3>1. x[i] = a[i] /\ i \in 1 .. k
      BY <1>1, <1>6, <2>1
    <3>2. y[i] = s[i]
      BY <1>1, <1>5, <2>1
    <3> QED
      BY <1>3, <3>1, <3>2
  <2>2. CASE i = k + 1
    <3>1. x[i] = h
      BY <1>1, <1>3, <1>6, <2>2
    <3>2. y[i] = t[1]
      BY <1>1, <1>5, <2>2
    <3> QED
      BY <1>1, <3>1, <3>2
  <2>3. CASE i > k + 1
    <3>1. x[i] = u[i - (k + 1)]
      BY <1>1, <1>6, <2>3
    <3>2. i - (k + 1) \in 1 .. l - 1 /\ (i - (k + 1)) + 1 = i - k
      BY <1>1, <2>3
    <3>3. u[i - (k + 1)] = t[i - k]
      BY <1>2, <3>2
    <3>4. y[i] = t[i - k]
      BY <1>1, <1>5, <2>3
    <3> QED
      BY <3>1, <3>3, <3>4
  <2> QED
    BY <1>1, <2>1, <2>2, <2>3
<1> QED
  BY <1>4, <1>5, <1>6, <1>7, SeqEqual DEF x, y, a, u, h

\* Adding an entry to the second of two sequences adds it to the two in a row.
LEMMA AppendToSecond ==
  ASSUME NEW s \in Seq(Entry), NEW t \in Seq(Entry), NEW e \in Entry
  PROVE  s \o Append(t, e) = Append(s \o t, e)
<1> DEFINE a == Append(t, e)
           k == Len(s)
           l == Len(t)
           y == s \o t
           x == s \o a
           z == Append(y, e)
<1>1. k \in Nat /\ l \in Nat
  OBVIOUS
<1>2. /\ a \in Seq(Entry) /\ Len(a) = l + 1
      /\ \A i \in 1 .. l : a[i] = t[i]
      /\ a[l + 1] = e
  BY AppendProperties
<1>3. /\ y \in Seq(Entry) /\ Len(y) = k + l
      /\ \A i \in 1 .. k + l : y[i] = IF i <= k THEN s[i] ELSE t[i - k]
  BY ConcatProperties
<1> HIDE DEF a, y
<1>4. /\ x \in Seq(Entry) /\ Len(x) = k + Len(a)
      /\ \A i \in 1 .. k + Len(a) : x[i] = IF i <= k THEN s[i] ELSE a[i - k]
  BY <1>2, ConcatProperties
<1> HIDE DEF k, l, x
<1>5. /\ z \in Seq(Entry) /\ Len(z) = Len(y) + 1
      /\ \A i \in 1 .. Len(y) : z[i] = y[i]
      /\ z[Len(y) + 1] = e
  <2>1. y \in Seq(Entry)
    BY <1>3
  <2> QED
    BY ONLY <2>1, e \in Entry, AppendProperties
<1> HIDE DEF z
<1>6. Len(x) = k + l + 1 /\ Len(z) = k + l + 1
  BY <1>1, <1>2, <1>3, <1>4, <1>5
<1>7. ASSUME NEW i \in 1 .. k + l + 1
      PROVE  x[i] = z[i]
  <2>1. CASE i <= k
    <3>1. x[i] = s[i]
      BY <1>1, <1>2, <1>4, <2>1
    <3>2. z[i] = y[i] /\ y[i] = s[i]
      BY <1>1, <1>3, <1>5, <2>1
    <3> QED
      BY <3>1, <3>2
  <2>2. CASE i > k /\ i <= k + l
    <3>1. x[i] = a[i - k] /\ i - k \in 1 .. l
      BY <1>1, <1>2, <1>4, <2>2
    <3>2. z[i] = y[i] /\ y[i] = t[i - k]
      BY <1>1, <1>3, <1>5, <2>2
    <3> QED
      BY <1>2, <3>1, <3>2
  <2>3. CASE i = k + l + 1
    <3>1. x[i] = a[i - k] /\ i - k = l + 1
      BY <1>1, <1>2, <1>4, <2>3
    <3>2. z[i] = e
      BY <1>1, <1>3, <1>5, <2>3
    <3> QED
      BY <1>2, <3>1, <3>2
  <2> QED
    BY <1>1, <2>1, <2>2, <2>3
<1> QED
  BY <1>4, <1>5, <1>6, <1>7, SeqEqual DEF x, z, a, y

\* A step before the flush that changes neither the log nor what waits.
LEMMA QuietKeepsFlush ==
  ASSUME FlushInv, UNCHANGED <<accepted, log, Waiting>>, failed => failed',
         main.pc \notin Flushing, main'.pc \notin Flushing,
         ~failed' /\ main'.pc \notin Stopped => thread_enabled'
  PROVE  FlushInv'
BY DEF FlushInv, Flushing

\* A step before the flush after which the logging thread has failed.
LEMMA FailKeepsFlush ==
  ASSUME FlushInv, failed', main'.pc # "done", UNCHANGED accepted
  PROVE  FlushInv'
BY DEF FlushInv

\* dsme_log() only decides whether there is something to format.
LEMMA QueueKeepsFlush ==
  ASSUME FlushInv, RingInv, main.pc = "idle", NEW closing \in BOOLEAN,
         dsme_log_queue(closing), UNCHANGED worker
  PROVE  FlushInv'
<1>1. /\ UNCHANGED <<accepted, log, failed, thread_enabled, ring_buffer, write_count,
                     read_count>>
      /\ Written' = Written
  BY DEF dsme_log_queue, ringVars, Written
<1>2. main'.pc \in {"format", "stop", "idle"}
  BY DEF dsme_log_queue, RingInv, Types
<1>3. thread_enabled \/ failed
  BY DEF FlushInv, Stopped
<1> QED
  BY <1>1, <1>2, <1>3, WaitingSame, QuietKeepsFlush DEF Flushing

\* Formatting writes the entry that is not counted yet.
LEMMA FormatKeepsFlush ==
  ASSUME FlushInv, RingInv, log_entry_format
  PROVE  FlushInv'
<1>1. /\ UNCHANGED <<accepted, log, failed, thread_enabled>> /\ main.pc = "format"
      /\ main'.pc = "inc"
  BY DEF log_entry_format, RingInv, Types
<1>2. thread_enabled \/ failed
  BY <1>1 DEF FlushInv, Stopped
<1> QED
  BY <1>1, <1>2, FormatWaiting, QuietKeepsFlush DEF Flushing

\* The entry that is counted is accepted and waits in the ring.
LEMMA WriteIncKeepsFlush ==
  ASSUME FlushInv, RingInv, write_count_inc
  PROVE  FlushInv'
<1> DEFINE e == main.todo[1]
<1>1. /\ UNCHANGED <<log, failed, thread_enabled>> /\ main.pc = "inc"
      /\ main'.pc = "notify"
      /\ accepted' = Append(accepted, Head(main.todo))
  BY DEF write_count_inc, RingInv, Types
<1>2. e \in Entry /\ Head(main.todo) = e
  BY <1>1, TodoShape DEF Busy
<1>3. accepted \in Seq(Entry) /\ log \in Seq(Entry) /\ Waiting \in Seq(Entry)
  BY QueueShape DEF FlushInv, RingInv, Types
<1>4. accepted' \in Seq(Entry)
  BY <1>1, <1>2, <1>3, AppendProperties
<1>5. ASSUME ~failed PROVE accepted' = log' \o Waiting'
  <2>1. accepted = log \o Waiting
    BY <1>1, <1>5 DEF FlushInv, Flushing
  <2>2. log \o Append(Waiting, e) = Append(log \o Waiting, e)
    BY <1>2, <1>3, AppendToSecond
  <2>3. Waiting' = Append(Waiting, e)
    BY WriteIncWaiting
  <2> HIDE DEF e
  <2> QED
    BY <1>1, <1>2, <2>1, <2>2, <2>3
<1>6. thread_enabled \/ failed
  BY <1>1 DEF FlushInv, Stopped
<1> QED
  BY <1>1, <1>4, <1>5, <1>6 DEF FlushInv, Flushing

\* A failed notification ends the promise, another changes nothing that waits.
LEMMA NotifyKeepsFlush ==
  ASSUME FlushInv, RingInv, dsme_log_notify_worker
  PROVE  FlushInv'
<1>1. /\ UNCHANGED <<accepted, ring_buffer, write_count, read_count, worker>>
      /\ main.pc = "notify" /\ Written' = Written
  BY DEF dsme_log_notify_worker, ringVars, Written
<1>2. main'.pc \in {"format", "idle", "stop"}
  BY NotifyMain
<1>3. CASE failed'
  BY <1>1, <1>2, <1>3, FailKeepsFlush
<1>4. CASE ~failed'
  <2>1. ~failed /\ thread_enabled
    BY <1>1, <1>4 DEF dsme_log_notify_worker, FlushInv, Stopped
  <2>2. thread_enabled' = thread_enabled /\ log' = log
    BY <1>4, <2>1 DEF dsme_log_notify_worker
  <2> QED
    BY <1>1, <1>2, <2>1, <2>2, WaitingSame, QuietKeepsFlush DEF Flushing
<1> QED
  BY <1>3, <1>4

\* Neither starting nor stopping the thread touches the ring.
LEMMA OpenStopKeepFlush ==
  ASSUME FlushInv, RingInv, dsme_log_open \/ dsme_log_stop
  PROVE  FlushInv'
<1>1. /\ UNCHANGED <<accepted, log, ring_buffer, write_count, read_count>>
      /\ main.pc \in {"idle", "stop"} /\ (failed => failed')
  BY DEF dsme_log_open, dsme_log_stop, ringVars
<1>2. Written' = Written
  BY DEF dsme_log_open, dsme_log_stop, Written, RingInv, Types, WorkerType
<1>3. main'.pc \in {"idle", "join"} /\ (main'.pc = "idle" => dsme_log_open)
  BY DEF dsme_log_open, dsme_log_stop, RingInv, Types
<1>4. ~failed' /\ main'.pc \notin Stopped => thread_enabled'
  BY <1>1, <1>3 DEF dsme_log_open, FlushInv, Stopped
<1> QED
  BY <1>1, <1>2, <1>3, <1>4, WaitingSame, QuietKeepsFlush DEF Flushing

\* What waits at the join is among what the loop of dsme_log_close() writes.
LEMMA JoinKeepsFlush ==
  ASSUME FlushInv, RingInv, Join
  PROVE  FlushInv'
<1> DEFINE b == buffered_count
           q == QueueOf(ring_buffer, read_count, b)
<1>1. /\ UNCHANGED <<accepted, log, failed, ring_buffer, write_count, read_count>>
      /\ main.pc = "join" /\ main' = [main EXCEPT !.pc = "flush", !.at = read_count]
      /\ \/ worker' = worker
         \/ worker.pc = "read" /\ worker' = [pc |-> "exited", cnt |-> 0]
  BY DEF Join, ringVars
<1>2. main'.pc = "flush" /\ main'.at = read_count
  BY <1>1 DEF RingInv, Types
<1>3. Left' = b
  BY <1>1, <1>2, BufferedIs DEF Left
<1>4. /\ Written \in 0 .. 1 /\ b \in Nat /\ read_count \in Nat
      /\ Waiting \in Seq(Entry) /\ Len(Waiting) = b - Written
      /\ b - Written \in Nat /\ read_count + Written \in Nat
  BY QueueShape
<1>5. /\ accepted \in Seq(Entry) /\ log \in Seq(Entry)
      /\ ring_buffer \in [0 .. ENTRY_COUNT - 1 -> Entry]
  BY DEF FlushInv, RingInv, Types
<1>6. Pending' \in 0 .. 1 /\ Pending' + Written <= 1
  BY <1>1 DEF Pending, Written
<1>7. ASSUME ~failed
      PROVE  /\ Len(log') + Left' + Pending' <= Len(accepted') + 1
             /\ Range(accepted') \subseteq
                  Range(log') \cup Range(QueueOf(ring_buffer', main'.at, Left'))
  <2>1. accepted = log \o Waiting
    BY <1>1, <1>7 DEF FlushInv, Flushing
  <2>2. Len(accepted) = Len(log) + (b - Written)
    BY <1>4, <1>5, <2>1, ConcatProperties
  <2>3. Range(accepted) \subseteq Range(log) \cup Range(Waiting)
    BY <1>4, <1>5, <2>1, RangeOfConcat
  <2>4. Range(Waiting) \subseteq Range(q)
    <3>1. /\ q \in Seq(Entry) /\ Len(q) = b
          /\ \A i \in 1 .. b : q[i] = ring_buffer[Slot(read_count + i - 1)]
      BY <1>4, <1>5, QueueOfIs
    <3>2. \A i \in 1 .. b - Written :
            Waiting[i] = ring_buffer[Slot((read_count + Written) + i - 1)]
      BY <1>4, <1>5, QueueOfIs DEF Waiting
    <3>3. ASSUME NEW i \in 1 .. b - Written
          PROVE  Waiting[i] \in {q[j] : j \in 1 .. b}
      <4>1. i + Written \in 1 .. b
            /\ (read_count + Written) + i - 1 = read_count + (i + Written) - 1
        BY <1>4
      <4>2. Waiting[i] = q[i + Written]
        BY <3>1, <3>2, <4>1
      <4> QED
        BY <4>1, <4>2
    <3>4. Range(Waiting) = {Waiting[i] : i \in 1 .. b - Written}
      BY <1>4, RangeIs
    <3>5. Range(q) = {q[j] : j \in 1 .. b}
      BY <3>1, RangeIs
    <3> QED
      BY <3>3, <3>4, <3>5
  <2>5. Len(log) + b + Pending' <= Len(accepted) + 1
    <3> DEFINE n == Len(log)
               p == Pending'
               w == Written
               k == b
    <3>1. n \in Nat
      BY <1>5
    <3>2. k \in Nat /\ w \in 0 .. 1
      BY <1>4
    <3>3. p \in 0 .. 1 /\ p + w <= 1
      BY <1>6
    <3> HIDE DEF n, p, w, k
    <3>4. n + k + p <= n + (k - w) + 1
      BY <3>1, <3>2, <3>3
    <3> QED
      BY <2>2, <3>4 DEF n, p, w, k
  <2> QED
    BY <1>1, <1>2, <1>3, <2>3, <2>4, <2>5
<1> QED
  BY <1>1, <1>2, <1>5, <1>7 DEF FlushInv, Flushing, Stopped

\* A step of the loop of dsme_log_close() moves an entry from what is left to the log.
LEMMA FlushKeepsFlush ==
  ASSUME FlushInv, RingInv, Flush
  PROVE  FlushInv'
<1> DEFINE c == main.at
           e == ring_buffer[Slot(c)]
           q == QueueOf(ring_buffer, c, Left)
<1>1. /\ UNCHANGED <<accepted, failed, ring_buffer, write_count, worker>>
      /\ main.pc = "flush" /\ main \in MainType
  BY DEF Flush, ringVars, RingInv, Types, MainType
<1>2. CASE c = write_count
  <2>1. main' = [main EXCEPT !.pc = "done"] /\ log' = log
    BY <1>2 DEF Flush
  <2>2. main'.pc = "done" /\ main'.at = c
    BY <1>1, <2>1 DEF MainType
  <2>3. Left' = Left /\ Pending' = Pending
    BY <1>1, <2>2 DEF Left, Pending
  <2> QED
    BY <1>1, <1>2, <2>1, <2>2, <2>3 DEF FlushInv, Flushing, Stopped
<1>3. CASE c # write_count
  <2>1. main' = [main EXCEPT !.at = Next1(c)] /\ log' = Append(log, e)
    BY <1>3 DEF Flush, Next1
  <2>2. main'.pc = "flush" /\ main'.at = Next1(c)
    BY <1>1, <2>1 DEF MainType
  <2>3. /\ c \in Counts /\ c \in Nat /\ write_count \in Counts
        /\ accepted \in Seq(Entry) /\ log \in Seq(Entry)
        /\ ring_buffer \in [0 .. ENTRY_COUNT - 1 -> Entry]
    BY DEF FlushInv, RingInv, Types, Counts
  <2>4. Left \in Nat /\ Left > 0
    <3>1. /\ Left \in Counts
          /\ write_count >= c => Left = write_count - c
          /\ write_count < c => Left = write_count - c + COUNT_MODULUS
      BY <2>3, BetweenIs DEF Left
    <3> HIDE DEF c
    <3> QED
      BY <1>3, <2>3, <3>1, Sizes DEF Counts
  <2>5. Left' = Left - 1
    BY <1>1, <2>2, <2>3, <2>4, CountDown DEF Left
  <2>6. e \in Entry
    <3>1. c \in Int
      BY <2>3
    <3>2. Slot(c) \in 0 .. ENTRY_COUNT - 1
      BY <3>1, SlotInRing
    <3> QED
      BY <2>3, <3>2
  <2>7. Len(log') = Len(log) + 1 /\ Range(log') = Range(log) \cup {e} /\ Len(log) \in Nat
    BY <2>1, <2>3, <2>6, AppendProperties, RangeOfAppend
  <2>8. Pending' = Pending /\ Pending \in 0 .. 1 /\ Len(accepted) \in Nat
    BY <1>1, <2>3 DEF Pending
  <2> DEFINE r == QueueOf(ring_buffer, Next1(c), Left - 1)
  <2>9. Range(q) \subseteq {e} \cup Range(r)
    <3>1. Next1(c) \in Nat /\ Left - 1 \in Nat
      BY <2>3, <2>4, Next1Is DEF Counts
    <3>2. /\ q \in Seq(Entry) /\ Len(q) = Left
          /\ \A i \in 1 .. Left : q[i] = ring_buffer[Slot(c + i - 1)]
      BY <2>3, <2>4, QueueOfIs
    <3>3. /\ r \in Seq(Entry) /\ Len(r) = Left - 1
          /\ \A i \in 1 .. Left - 1 : r[i] = ring_buffer[Slot(Next1(c) + i - 1)]
      BY <2>3, <3>1, QueueOfIs
    <3>4. Range(q) = {q[i] : i \in 1 .. Left}
      BY <3>2, RangeIs
    <3>5. Range(r) = {r[i] : i \in 1 .. Left - 1}
      BY <3>3, RangeIs
    <3> HIDE DEF q, r
    <3>6. ASSUME NEW i \in 1 .. Left
          PROVE  q[i] \in {e} \cup Range(r)
      <4>1. CASE i = 1
        <5>1. c + i - 1 = c
          BY <2>3, <4>1
        <5> QED
          BY <3>2, <5>1
      <4>2. CASE i > 1
        <5> DEFINE j == i - 1
        <5>1. /\ j \in 1 .. Left - 1 /\ j - 1 \in Nat
              /\ c + i - 1 = c + 1 + (j - 1) /\ Next1(c) + j - 1 = Next1(c) + (j - 1)
          BY <2>3, <2>4, <3>1, <4>2
        <5> HIDE DEF j
        <5>2. Slot(Next1(c) + (j - 1)) = Slot(c + 1 + (j - 1))
          BY <2>3, <5>1, SlotWraps
        <5>3. q[i] = r[j]
          BY <3>2, <3>3, <5>1, <5>2
        <5> QED
          BY <3>5, <5>1, <5>3
      <4> QED
        BY <2>4, <4>1, <4>2
    <3> QED
      BY <3>4, <3>6
  <2>10. ASSUME ~failed
         PROVE  /\ Len(log') + Left' + Pending' <= Len(accepted') + 1
                /\ Range(accepted') \subseteq
                     Range(log') \cup Range(QueueOf(ring_buffer', main'.at, Left'))
    <3>1. /\ Len(log) + Left + Pending <= Len(accepted) + 1
          /\ Range(accepted) \subseteq Range(log) \cup Range(q)
      BY <1>1, <2>10 DEF FlushInv, Flushing
    <3>2. Len(log') + Left' + Pending' <= Len(accepted') + 1
      BY <1>1, <2>4, <2>5, <2>7, <2>8, <3>1
    <3>3. Range(accepted) \subseteq Range(log') \cup Range(r)
      BY <2>7, <2>9, <3>1
    <3> QED
      BY <1>1, <2>2, <2>5, <3>2, <3>3
  <2> QED
    BY <1>1, <2>2, <2>3, <2>10 DEF FlushInv, Flushing, Stopped
<1> QED
  BY <1>2, <1>3

\* The logging thread before the flush: what it writes out has waited longest; and
\* beside the flush: it may write the one entry it has still to check.
LEMMA WorkerKeepsFlush ==
  ASSUME FlushInv, RingInv, WorkerNext
  PROVE  FlushInv'
<1> DEFINE e == ring_buffer[Slot(read_count)]
<1>1. UNCHANGED <<accepted, ring_buffer, write_count, main>>
  BY DEF WorkerNext, WorkerRead, WorkerCheck, WorkerOutput, read_count_inc, WorkerEnabled,
         mainVars
<1>2. (failed => failed') /\ (thread_enabled /\ ~failed' => thread_enabled')
  <2>1. failed \in BOOLEAN /\ thread_enabled \in BOOLEAN
    BY DEF RingInv, Types
  <2>2. \/ thread_enabled' = thread_enabled /\ failed' = failed
        \/ WorkerExit(TRUE)
        \/ ~thread_enabled /\ WorkerExit(FALSE)
    BY DEF WorkerNext, WorkerRead, WorkerCheck, WorkerOutput, read_count_inc, WorkerEnabled
  <2>3. CASE thread_enabled' = thread_enabled /\ failed' = failed
    BY <2>3
  <2>4. CASE WorkerExit(TRUE)
    <3>1. failed' = (failed \/ TRUE)
      BY <2>4 DEF WorkerExit
    <3> QED
      BY <3>1
  <2>5. CASE ~thread_enabled /\ WorkerExit(FALSE)
    <3>1. failed' = (failed \/ FALSE)
      BY <2>5 DEF WorkerExit
    <3> QED
      BY <2>1, <2>5, <3>1
  <2> QED
    BY <2>2, <2>3, <2>4, <2>5
<1>3. /\ accepted \in Seq(Entry) /\ log \in Seq(Entry) /\ read_count \in Int
      /\ ring_buffer \in [0 .. ENTRY_COUNT - 1 -> Entry]
  BY DEF FlushInv, RingInv, Types, Counts
<1>4. e \in Entry
  <2>1. Slot(read_count) \in 0 .. ENTRY_COUNT - 1
    BY <1>3, SlotInRing
  <2> QED
    BY <1>3, <2>1
<1>5. failed => failed'
  BY <1>2
<1>6. CASE main.pc \notin Flushing
  <2>1. ~failed' /\ main'.pc \notin Stopped => thread_enabled'
    BY <1>1, <1>2 DEF FlushInv
  <2>2. CASE WorkerOutput
    <3>1. /\ Waiting \in Seq(Entry) /\ Waiting # << >> /\ Waiting' = Tail(Waiting)
          /\ log' = Append(log, Head(Waiting))
      BY <2>2, QueueShape, OutputWaiting
    <3>2. log' \o Waiting' = log \o Waiting
      BY <1>3, <3>1, MoveOne
    <3> QED
      BY <1>1, <1>5, <1>6, <2>1, <3>2 DEF FlushInv, Flushing
  <2>3. CASE read_count_inc
    <3>1. log' = log
      BY <2>3 DEF read_count_inc
    <3> QED
      BY <1>1, <1>5, <1>6, <2>1, <2>3, <3>1, ReadIncWaiting, QuietKeepsFlush
  <2>4. CASE WorkerRead \/ WorkerCheck \/ WorkerEnabled
    <3>1. UNCHANGED <<read_count, log>>
      BY <2>4 DEF WorkerRead, WorkerCheck, WorkerEnabled
    <3>2. Written' = Written
      BY <2>4 DEF WorkerRead, WorkerCheck, WorkerEnabled, WorkerExit, Written, RingInv,
                  Types, WorkerType
    <3> QED
      BY <1>1, <1>5, <1>6, <2>1, <3>1, <3>2, WaitingSame, QuietKeepsFlush
  <2> QED
    BY <2>2, <2>3, <2>4 DEF WorkerNext
<1>7. CASE main.pc \in Flushing
  <2>1. ~thread_enabled
    BY <1>7 DEF RingInv, LossOK, Flushing, Stopped
  <2>2. Left' = Left
    BY <1>1 DEF Left
  <2>3. ASSUME ~failed'
        PROVE  /\ Len(log') + Left' + Pending' <= Len(accepted') + 1
               /\ Range(accepted') \subseteq
                    Range(log') \cup Range(QueueOf(ring_buffer', main'.at, Left'))
    <3>1. /\ Len(log) + Left + Pending <= Len(accepted) + 1
          /\ Range(accepted) \subseteq
               Range(log) \cup Range(QueueOf(ring_buffer, main.at, Left))
      BY <1>5, <1>7, <2>3 DEF FlushInv
    <3>2. Len(log) \in Nat /\ Left \in Nat /\ Pending \in 0 .. 1 /\ Len(accepted) \in Nat
      <4>1. Left \in Nat
        BY BetweenIs DEF Left, RingInv, Types, Counts
      <4> QED
        BY <1>3, <4>1 DEF Pending
    <3>3. CASE WorkerOutput
      <4>1. log' = Append(log, e) /\ Pending = 1 /\ Pending' = 0
        BY <3>3 DEF WorkerOutput, Pending, RingInv, Types, WorkerType
      <4>2. Len(log') = Len(log) + 1 /\ Range(log') = Range(log) \cup {e}
        BY <1>3, <1>4, <4>1, AppendProperties, RangeOfAppend
      <4> QED
        BY <1>1, <2>2, <3>1, <3>2, <4>1, <4>2
    <3>4. CASE WorkerRead \/ WorkerCheck \/ read_count_inc \/ WorkerEnabled
      <4>1. log' = log
        BY <3>4 DEF WorkerRead, WorkerCheck, read_count_inc, WorkerEnabled
      <4>2. Pending' \in 0 .. 1 /\ Pending' <= Pending
        BY <2>1, <3>4 DEF WorkerRead, WorkerCheck, read_count_inc, WorkerEnabled, WorkerExit,
                          Pending, RingInv, Types, WorkerType
      <4> DEFINE n == Len(log)
                 p == Pending
                 l == Left
                 a == Len(accepted)
                 r == Pending'
      <4>3. /\ n \in Nat /\ l \in Nat /\ p \in 0 .. 1 /\ a \in Nat
            /\ r \in 0 .. 1 /\ r <= p /\ n + l + p <= a + 1
        BY <3>1, <3>2, <4>2
      <4> HIDE DEF n, p, l, a, r
      <4>4. n + l + r <= a + 1
        BY <4>3
      <4>5. Len(log') + Left' + Pending' <= Len(accepted') + 1
        BY <1>1, <2>2, <4>1, <4>4 DEF n, l, a, r
      <4> QED
        BY <1>1, <2>2, <3>1, <4>1, <4>5
    <3> QED
      BY <3>3, <3>4 DEF WorkerNext
  <2> QED
    BY <1>1, <1>3, <1>7, <2>3 DEF FlushInv, Flushing, Stopped
<1> QED
  BY <1>6, <1>7

\* Nothing is accepted, waiting or written at first.
LEMMA InitFlush ==
  ASSUME Init
  PROVE  FlushInv
<1>1. buffered_count - Written = 0
  <2>1. 0 \in Counts
    BY Sizes DEF Counts
  <2>2. buffered_count = 0
    BY <2>1, BufferedIs, BetweenIs DEF Init
  <2>3. Written = 0
    BY DEF Init, Written
  <2> QED
    BY <2>2, <2>3
<1>2. Waiting \in Seq(Entry) /\ Len(Waiting) = 0
  BY <1>1, InitRing, QueueShape
<1>3. Waiting = << >>
  BY <1>2, EmptySeq
<1>4. << >> = << >> \o << >>
  OBVIOUS
<1> QED
  BY <1>3, <1>4 DEF Init, FlushInv, Flushing

\* Every step keeps FlushInv: one case per action.
LEMMA NextKeepsFlush ==
  ASSUME RingInv, FlushInv, [Next]_vars
  PROVE  FlushInv'
<1>1. ASSUME UNCHANGED <<ring_buffer, write_count, read_count, thread_enabled, main, worker,
                         log, failed, accepted>>
      PROVE  FlushInv'
  <2>1. Written' = Written /\ Left' = Left /\ Pending' = Pending
    BY <1>1 DEF Written, Left, Pending
  <2>2. Waiting' = Waiting
    BY <1>1, <2>1, WaitingSame
  <2> QED
    BY <1>1, <2>1, <2>2 DEF FlushInv
<1>2. CASE UNCHANGED vars
  BY <1>1, <1>2 DEF vars, ringVars
<1>3. ASSUME NEW c \in Callers, NEW prio \in Prios, dsme_log(c, prio)
      PROVE  FlushInv'
  <2>1. CASE dsme_log_queue(FALSE)
    BY <1>3, <2>1, QueueKeepsFlush DEF dsme_log
  <2>2. CASE UNCHANGED <<ringVars, event_fd, thread_enabled, overflow, skipped, main, calls,
                         log, accepted, failed>>
    BY <1>1, <1>3, <2>2 DEF dsme_log, ringVars
  <2> QED
    BY <1>3, <2>1, <2>2 DEF dsme_log
<1>4. ASSUME NEW p \in Patterns, NEW s \in {"included", "excluded"}, AddRule(p, s)
      PROVE  FlushInv'
  BY <1>4, QueueKeepsFlush DEF AddRule
<1>5. CASE dsme_log_clear_rules
  BY <1>5, QueueKeepsFlush DEF dsme_log_clear_rules
<1>6. ASSUME NEW v \in Prios, dsme_log_set_verbosity(v)
      PROVE  FlushInv'
  BY <1>6, QueueKeepsFlush DEF dsme_log_set_verbosity
<1>7. CASE dsme_log_close
  BY <1>7, QueueKeepsFlush DEF dsme_log_close
<1> QED
  BY <1>2, <1>3, <1>4, <1>5, <1>6, <1>7, OpenStopKeepFlush, FormatKeepsFlush,
     WriteIncKeepsFlush, NotifyKeepsFlush, JoinKeepsFlush, FlushKeepsFlush, WorkerKeepsFlush
     DEF Next, MainNext

\* logging.c, dsme_log_stop(): "the worst thing that can happen is that one of the
\* queued messages gets output from both worker thread and the main thread": when
\* dsme_log_close() is done and the thread has not failed, all that was queued is in
\* the log, and one entry at most is there twice, for a ring of any size.
THEOREM FlushedOnCloseAlways == Spec => []FlushedOnClose
<1>1. Init => FlushInv
  BY InitFlush
<1>2. RingInv /\ FlushInv /\ [Next]_vars => FlushInv'
  BY NextKeepsFlush
<1>3. RingInv /\ FlushInv => FlushedOnClose
  <2> SUFFICES ASSUME RingInv, FlushInv, main.pc = "done", ~failed
               PROVE  /\ Range(accepted) \subseteq Range(log)
                      /\ Len(log) <= Len(accepted) + 1
    BY DEF FlushedOnClose
  <2>1. /\ main.at = write_count
        /\ Len(log) + Left + Pending <= Len(accepted) + 1
        /\ Range(accepted) \subseteq Range(log) \cup Range(QueueOf(ring_buffer, main.at, Left))
    BY DEF FlushInv, Flushing
  <2>2. /\ write_count \in Counts /\ log \in Seq(Entry) /\ accepted \in Seq(Entry)
        /\ ring_buffer \in [0 .. ENTRY_COUNT - 1 -> Entry] /\ write_count \in Nat
    BY DEF RingInv, FlushInv, Types, Counts
  <2>3. Left = 0
    BY <2>1, <2>2, BetweenIs DEF Left, Counts
  <2>4. Range(QueueOf(ring_buffer, main.at, Left)) = {}
    <3>1. /\ QueueOf(ring_buffer, main.at, Left) \in Seq(Entry)
          /\ Len(QueueOf(ring_buffer, main.at, Left)) = 0
      BY <2>1, <2>2, <2>3, QueueOfIs
    <3> QED
      BY <3>1, RangeIs
  <2>5. Pending \in 0 .. 1 /\ Len(log) \in Nat /\ Len(accepted) \in Nat
    BY <2>2 DEF Pending
  <2> DEFINE n == Len(log)
             a == Len(accepted)
             p == Pending
  <2>6. n \in Nat /\ a \in Nat /\ p \in 0 .. 1 /\ n + 0 + p <= a + 1
    BY <2>1, <2>3, <2>5
  <2> HIDE DEF n, a, p
  <2>7. n <= a + 1
    BY <2>6
  <2> QED
    BY <2>1, <2>4, <2>7 DEF n, a
<1> QED
  BY <1>1, <1>2, <1>3, RingAlways, PTL DEF Spec
=============================================================================
