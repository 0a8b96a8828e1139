--------------------------- MODULE ThermalProofs ---------------------------
(***************************************************************************)
(* Proofs about thermal management: for any configuration, any numbers in  *)
(* the temperature files and any delays, no object is forgotten, a status  *)
(* is taken over only when it is not a glitch, the worst status is the one *)
(* reported, and a sensor that stays fatally hot is reported in time.      *)
(***************************************************************************)
EXTENDS Thermal, FiniteSetTheorems, WellFoundedInduction, TLAPS

(***************************************************************************)
(* The inductive invariant.  Its parts are about a state s as the          *)
(* operators of Thermal take and return it.                                *)
(***************************************************************************)
HwType == [raw : Int, state : {"ok", "off", "broken"}]
SysType ==
  [obj : [Objects -> ObjectType], hw : [Objects -> HwType],
   current_status : Status \ {INVALID}, prev : {"LOWTEMP", "NORMAL", "OVERHEATED"},
   flag : BOOLEAN]

\* An object that is not registered is as it was created; one that is has a
\* sensor that can be read.  The wake-up of a meta sensor is over while it waits for
\* an answer, and no other request is ever forgotten.
Shape(o, ob) ==
  /\ ~ob.registered => ob = Created
  /\ ob.registered => thermal_sensor_generic_is_valid(o)
  /\ ob.left <= LongestPoll
  /\ (IsMeta(o) /\ ob.pending) => ob.wait = "none"
  /\ ob.dropped => IsMeta(o)

\* A change of status is being followed exactly while another status is next, and
\* the readings have shown that one for as long.
Followed(ob) ==
  /\ ob.next = ob.curr => ob.change = NotChanging
  /\ ob.next # ob.curr => /\ ob.change # NotChanging
                          /\ ob.seen.status = ob.next
                          /\ ob.change <= ob.seen.age

\* A sensor is overheated by its file h, and so is a reading that is on its way.
HotFile(o, ob, h) == ob.hot > 0 => ~IsMeta(o) /\ FatalTemp(o, FileTemp(h, o))
HotReading(o, ob) == (ob.pending /\ ~IsMeta(o) /\ ob.hot > 0) => FatalTemp(o, ob.sg_temp)

\* While an overheated sensor is not believed, a poll is booked that comes in time:
\* the first one, or one while FATAL is the next status.
Due(ob) ==
  (ob.registered /\ ob.curr # FATAL) =>
    \/ ob.hot + ob.left <= LongestPoll
    \/ /\ ob.next = FATAL
       /\ ob.change <= TRANSITION_DELAY => ob.hot <= LongestPoll + ob.change
       /\ ob.hot + ob.left <= Patience

ObjBase(o, ob, h) ==
  Shape(o, ob) /\ Followed(ob) /\ HotFile(o, ob, h) /\ HotReading(o, ob) /\ Due(ob)

\* The answer to a request of a sensor with a file is on its way.
Asked(o, ob) == ~IsMeta(o) => (ob.notify_id <=> ob.pending)

ObjOK(s, o) == ObjBase(o, s.obj[o], s.hw[o]) /\ Asked(o, s.obj[o])

\* Nobody has forgotten o: see PollAlive.
OnItsWay(s, o) ==
  /\ s.obj[o].pending
  /\ \/ s.obj[o].notify_id
     \/ \E b \in Sensors[o].depends_on : s.obj[b].notify_id /\ s.obj[b].pending
Alive(s, o) ==
  s.obj[o].registered => s.obj[o].wait # "none" \/ OnItsWay(s, o) \/ s.obj[o].dropped

\* What was told is the worst status, unless nothing has been read since the
\* objects, those of X excepted, were registered.
Overheated(s) == \E o \in Objects : s.obj[o].registered /\ s.obj[o].curr = FATAL
Reported(s) ==
  /\ s.current_status = FATAL <=> Overheated(s)
  /\ s.prev = "OVERHEATED" <=> Overheated(s)
Fresh(s, X) ==
  \A o \in Objects : s.obj[o].registered =>
    s.obj[o].curr = NORMAL /\ (o \in X \/ s.obj[o].pending)
Flagged(s) == s.prev = "OVERHEATED" => s.flag
Told(s, X) == Flagged(s) /\ (Reported(s) \/ Fresh(s, X))

SysOK(s) ==
  /\ s \in SysType
  /\ \A o \in Objects : ObjOK(s, o) /\ Alive(s, o)
  /\ Told(s, {})

TInv ==
  /\ SysOK(S)
  /\ connected \in BOOLEAN
  /\ ~connected => \A o \in Objects : ~obj[o].registered
-----------------------------------------------------------------------------
(***************************************************************************)
(* The greatest and the least of a finite set of integers, and the delays. *)
(***************************************************************************)
\* Max and Min choose the greatest and the least element: the set of those beyond
\* an element is smallest for the last one, where it is empty.
LEMMA MaxExists ==
  ASSUME NEW T, IsFiniteSet(T), T \subseteq Int, T # {}
  PROVE  /\ Max(T) \in T
         /\ \A y \in T : Max(T) >= y
<1> DEFINE U(x) == {y \in T : y > x}
           F == {U(x) : x \in T}
           R == StrictSubsetOrdering(T)
<1>1. IsWellFoundedOn(R, SUBSET T)
  BY FS_StrictSubsetOrderingWellFounded, FS_FiniteSubsetsOfFinite
<1>2. F \subseteq SUBSET T
  OBVIOUS
<1>3. F # {}
  OBVIOUS
<1>4. PICK u \in F : \A v \in F : ~(<<v, u>> \in R)
  <2> HIDE DEF F, R
  <2> QED
    BY <1>1, <1>2, <1>3, WFMin
<1>5. PICK m \in T : u = U(m)
  OBVIOUS
<1>6. \A y \in T : m >= y
  <2> SUFFICES ASSUME NEW y \in T, y > m
               PROVE  FALSE
    OBVIOUS
  <2>1. U(y) \subseteq U(m) /\ y \in U(m) /\ y \notin U(y) /\ U(m) \subseteq T
    <3> HIDE DEF F, R
    <3>1. \A z \in T : z \in Int
      OBVIOUS
    <3>2. \A z \in T : z > y => z > m
      BY <3>1
    <3>3. ~(y > y)
      BY <3>1
    <3> QED
      BY <3>2, <3>3
  <2>2. <<U(y), u>> \in R
    <3>1. \A A, B : A \subseteq B /\ B \subseteq T /\ A # B => <<A, B>> \in R
      BY DEF StrictSubsetOrdering
    <3> HIDE DEF R, F
    <3> QED
      BY <1>5, <2>1, <3>1
  <2>3. U(y) \in F
    OBVIOUS
  <2> HIDE DEF U, F, R
  <2> QED
    BY <1>4, <2>2, <2>3
<1> QED
  BY <1>6 DEF Max

\* The least, likewise.
LEMMA MinExists ==
  ASSUME NEW T, IsFiniteSet(T), T \subseteq Int, T # {}
  PROVE  /\ Min(T) \in T
         /\ \A y \in T : Min(T) <= y
<1> DEFINE U(x) == {y \in T : y < x}
           F == {U(x) : x \in T}
           R == StrictSubsetOrdering(T)
<1>1. IsWellFoundedOn(R, SUBSET T)
  BY FS_StrictSubsetOrderingWellFounded, FS_FiniteSubsetsOfFinite
<1>2. F \subseteq SUBSET T
  OBVIOUS
<1>3. F # {}
  OBVIOUS
<1>4. PICK u \in F : \A v \in F : ~(<<v, u>> \in R)
  <2> HIDE DEF F, R
  <2> QED
    BY <1>1, <1>2, <1>3, WFMin
<1>5. PICK m \in T : u = U(m)
  OBVIOUS
<1>6. \A y \in T : m <= y
  <2> SUFFICES ASSUME NEW y \in T, y < m
               PROVE  FALSE
    OBVIOUS
  <2>1. U(y) \subseteq U(m) /\ y \in U(m) /\ y \notin U(y) /\ U(m) \subseteq T
    <3> HIDE DEF F, R
    <3>1. \A z \in T : z \in Int
      OBVIOUS
    <3>2. \A z \in T : z < y => z < m
      BY <3>1
    <3>3. ~(y < y)
      BY <3>1
    <3> QED
      BY <3>2, <3>3
  <2>2. <<U(y), u>> \in R
    <3>1. \A A, B : A \subseteq B /\ B \subseteq T /\ A # B => <<A, B>> \in R
      BY DEF StrictSubsetOrdering
    <3> HIDE DEF R, F
    <3> QED
      BY <1>5, <2>1, <3>1
  <2>3. U(y) \in F
    OBVIOUS
  <2> HIDE DEF U, F, R
  <2> QED
    BY <1>4, <2>2, <2>3
<1> QED
  BY <1>6 DEF Min

\* A set listed by the elements of a finite set is finite.
LEMMA FiniteRange ==
  ASSUME NEW A, IsFiniteSet(A), NEW f, f = [a \in A |-> f[a]]
  PROVE  IsFiniteSet({f[a] : a \in A})
<1>1. f \in Surjection(A, {f[a] : a \in A})
  BY DEF Surjection
<1> QED
  BY <1>1, FS_Surjection

\* So is one numbered up to n.
LEMMA FiniteSegment ==
  ASSUME NEW n \in Nat
  PROVE  IsFiniteSet(0 .. n) /\ IsFiniteSet(1 .. n)
<1>1. IsFiniteSet(0 .. n)
  BY FS_Interval
<1> QED
  BY <1>1, FS_Subset

\* What holds of no number, or of its predecessor too, holds of none.
LEMMA Descent ==
  ASSUME NEW B, B \subseteq Nat, 0 \notin B, \A n \in B : n - 1 \in B
  PROVE  B = {}
<1> SUFFICES ASSUME NEW n \in B
             PROVE  FALSE
  OBVIOUS
<1> DEFINE T == {m \in B : m <= n}
<1>1. n \in Nat /\ T \subseteq Int /\ n \in T
  <2>1. n \in Nat
    OBVIOUS
  <2>2. n <= n
    BY <2>1
  <2>3. T \subseteq B
    OBVIOUS
  <2>4. n \in T
    BY <2>2
  <2> HIDE DEF T
  <2> QED
    BY <2>1, <2>3, <2>4
<1>2. IsFiniteSet(T)
  <2>1. T \subseteq 0 .. n
    BY <1>1
  <2> HIDE DEF T
  <2> QED
    BY <1>1, <2>1, FiniteSegment, FS_Subset
<1>3. Min(T) \in T /\ \A y \in T : Min(T) <= y
  <2> HIDE DEF T
  <2> QED
    BY <1>1, <1>2, MinExists
<1>4. PICK m \in T : \A y \in T : m <= y
  BY <1>3
<1>5. m \in Nat /\ m <= n /\ m - 1 \in B
  OBVIOUS
<1>6. m - 1 \in T
  BY <1>1, <1>5
<1> QED
  BY <1>4, <1>5, <1>6
-----------------------------------------------------------------------------
(***************************************************************************)
(* The configuration: whatever the lines, each sensor is listed once.      *)
(***************************************************************************)
\* What is known of a configuration while it is read.
ConfigOK(c) ==
  /\ c.list \in Seq(DOMAIN c.cfg) /\ IsInjective(c.list)
  /\ \A o \in DOMAIN c.cfg : \E i \in DOMAIN c.list : c.list[i] = o
  /\ c.cfg \in [DOMAIN c.cfg -> SensorType]
  /\ c.sensor # NoSensor => c.sensor \in DOMAIN c.cfg

\* thermal_sensor_generic_create()
LEMMA UnsetType == Unset \in SensorType
<1>1. NoTemp \in Int
  BY DEF NoTemp
<1> QED
  BY <1>1 DEF Unset, SensorType

\* A keyword sets what it should.
LEMMA KeywordType ==
  ASSUME NEW g \in SensorType, NEW line, Arguments(line)
  PROVE  Keyword(g, line) \in SensorType
<1> DEFINE K == ToSet(LevelKeys)
           n == (CHOOSE i \in DOMAIN LevelKeys : LevelKeys[i] = line.key) - 1
           v == [mintemp |-> line.mintemp, minwait |-> line.minwait,
                 maxwait |-> line.maxwait]
<1>1. {"Temp", "Meta", "Mode"} \cap K = {}
  <2>1. \A i \in DOMAIN LevelKeys : LevelKeys[i] \notin {"Temp", "Meta", "Mode"}
    BY DEF LevelKeys
  <2> QED
    BY <2>1 DEF ToSet
<1>2. Keyword(g, line) =
        CASE line.key = "Temp" ->
               [g EXCEPT !.depends_on = {}, !.divisor = line.divisor, !.offs = line.offs]
          [] line.key = "Meta" ->
               [g EXCEPT !.depends_on = line.match, !.group = line.group, !.divisor = 1,
                         !.offs = line.offs]
          [] line.key = "Mode" -> [g EXCEPT !.mode = TRUE]
          [] line.key \in K -> [g EXCEPT !.level[n] = v]
          [] OTHER -> g
  BY DEF Keyword
<1> HIDE DEF K, n
<1>3. CASE line.key = "Temp"
  <2>1. Keyword(g, line) =
          [g EXCEPT !.depends_on = {}, !.divisor = line.divisor, !.offs = line.offs]
    BY <1>1, <1>2, <1>3
  <2>2. line.divisor \in Nat /\ line.offs \in Int
    BY <1>3 DEF Arguments
  <2> QED
    BY ONLY <2>1, <2>2, g \in SensorType DEF SensorType
<1>4. CASE line.key = "Meta"
  <2> DEFINE m == line.match
             b == line.group
             t == line.offs
  <2>1. Keyword(g, line) =
          [g EXCEPT !.depends_on = m, !.group = b, !.divisor = 1, !.offs = t]
    BY <1>1, <1>2, <1>4
  <2>2. m \in SUBSET Objects /\ b \in BOOLEAN /\ t \in Int
    BY <1>4 DEF Arguments
  <2> HIDE DEF m, b, t
  <2> QED
    BY ONLY <2>1, <2>2, g \in SensorType, 1 \in Nat DEF SensorType
<1>5. CASE line.key = "Mode"
  <2>1. Keyword(g, line) = [g EXCEPT !.mode = TRUE]
    BY <1>1, <1>2, <1>5
  <2> QED
    BY ONLY <2>1, g \in SensorType DEF SensorType
<1>6. CASE line.key \in K
  <2>1. Keyword(g, line) = [g EXCEPT !.level[n] = v]
    BY <1>1, <1>2, <1>6
  <2>2. line.mintemp \in Int /\ line.minwait \in Int /\ line.maxwait \in Int
    BY <1>6 DEF Arguments, K
  <2>3. v \in [mintemp : Int, minwait : Int, maxwait : Int]
    BY <2>2
  <2> HIDE DEF v
  <2> QED
    BY ONLY <2>1, <2>3, g \in SensorType DEF SensorType
<1>7. CASE line.key \notin {"Temp", "Meta", "Mode"} \cup K
  BY <1>2, <1>7
<1> QED
  BY <1>3, <1>4, <1>5, <1>6, <1>7

\* tsg_objects_read_config(): a line changes one sensor or adds one.
LEMMA ReadConfigOK ==
  ASSUME NEW c, ConfigOK(c), c = [sensor |-> c.sensor, list |-> c.list, cfg |-> c.cfg],
         NEW line, Arguments(line), NEW r, r = tsg_objects_read_config(c, line)
  PROVE  ConfigOK(r) /\ r = [sensor |-> r.sensor, list |-> r.list, cfg |-> r.cfg]
<1> DEFINE D == DOMAIN c.cfg
<1>1. CASE line.key = "Name" /\ line.name \in D
  <2>1. r = [c EXCEPT !.sensor = line.name]
    BY <1>1 DEF tsg_objects_read_config, tsg_objects_add_object
  <2>2. r.list = c.list /\ r.cfg = c.cfg /\ r.sensor = line.name
        /\ r = [sensor |-> r.sensor, list |-> r.list, cfg |-> r.cfg]
    BY <2>1
  <2> QED
    BY <1>1, <2>2 DEF ConfigOK
<1>2. CASE line.key = "Name" /\ line.name \notin D
  <2> DEFINE nm == line.name
             f == [o \in D \cup {nm} |-> IF o = nm THEN Unset ELSE c.cfg[o]]
             l == Append(c.list, nm)
  <2>1. r = [sensor |-> nm, list |-> l, cfg |-> f]
    BY <1>2 DEF tsg_objects_read_config, tsg_objects_add_object
  <2>2. f \in [D \cup {nm} -> SensorType] /\ DOMAIN f = D \cup {nm}
    BY UnsetType DEF ConfigOK
  <2> HIDE DEF f
  <2>3. c.list \in Seq(D) /\ IsInjective(c.list)
        /\ \A o \in D : \E i \in DOMAIN c.list : c.list[i] = o
        /\ nm \notin D
    BY <1>2 DEF ConfigOK
  <2> DEFINE N == Len(c.list)
  <2> HIDE DEF D, nm
  <2>4. /\ N \in Nat /\ DOMAIN c.list = 1 .. N /\ \A i \in 1 .. N : c.list[i] \in D
        /\ l \in Seq(D \cup {nm}) /\ DOMAIN l = 1 .. N + 1 /\ l[N + 1] = nm
        /\ \A i \in 1 .. N : l[i] = c.list[i]
    <3> DEFINE list == c.list
               E == D \cup {nm}
    <3>1. list \in Seq(E) /\ nm \in E
      BY <2>3
    <3>2. l = Append(list, nm)
      OBVIOUS
    <3>3. list \in Seq(D)
      BY <2>3
    <3> HIDE DEF list, E, l
    <3>4. /\ Len(list) \in Nat /\ DOMAIN list = 1 .. Len(list)
          /\ \A i \in 1 .. Len(list) : list[i] \in D
      BY ONLY <3>3
    <3>5. /\ l \in Seq(E) /\ Len(l) = Len(list) + 1 /\ l[Len(list) + 1] = nm
          /\ DOMAIN l = 1 .. Len(l)
          /\ \A i \in 1 .. Len(list) : l[i] = list[i]
      BY ONLY <3>1, <3>2
    <3> QED
      BY ONLY <3>4, <3>5 DEF list, E
  <2> HIDE DEF N, l
  <2>5. \A o \in D \cup {nm} : \E i \in DOMAIN l : l[i] = o
    BY <2>3, <2>4
  <2>6. IsInjective(l)
    <3> SUFFICES ASSUME NEW i \in 1 .. N + 1, NEW j \in 1 .. N + 1, l[i] = l[j]
                 PROVE  i = j
      BY <2>4 DEF IsInjective
    <3>1. \A k \in 1 .. N + 1 : k # N + 1 => k \in 1 .. N
      BY <2>4
    <3>2. \A k \in 1 .. N : l[k] # nm
      BY <2>3, <2>4
    <3>3. \A a, b \in 1 .. N : c.list[a] = c.list[b] => a = b
      BY <2>3, <2>4 DEF IsInjective
    <3> QED
      BY <2>4, <3>1, <3>2, <3>3
  <2>7. r.sensor = nm /\ r.list = l /\ r.cfg = f
        /\ r = [sensor |-> r.sensor, list |-> r.list, cfg |-> r.cfg]
    BY <2>1
  <2> QED
    BY <2>2, <2>4, <2>5, <2>6, <2>7 DEF ConfigOK
<1>3. CASE line.key \notin {"File", "Name"} /\ c.sensor = NoSensor
  <2>1. r = c
    BY <1>3 DEF tsg_objects_read_config
  <2> QED
    BY <2>1
<1>4. CASE line.key \notin {"File", "Name"} /\ c.sensor # NoSensor
  <2> DEFINE g == Keyword(c.cfg[c.sensor], line)
             f == [c.cfg EXCEPT ![c.sensor] = g]
  <2>1. r = [c EXCEPT !.cfg = f]
    BY <1>4 DEF tsg_objects_read_config
  <2>2. c.sensor \in D /\ c.cfg \in [D -> SensorType]
    BY <1>4 DEF ConfigOK
  <2>3. c.cfg[c.sensor] \in SensorType
    BY <2>2
  <2>4. g \in SensorType
    BY <2>3, KeywordType
  <2> HIDE DEF g
  <2>5. f \in [D -> SensorType] /\ DOMAIN f = D
    BY <2>2, <2>4
  <2> HIDE DEF f
  <2>6. r.sensor = c.sensor /\ r.list = c.list /\ r.cfg = f
        /\ r = [sensor |-> r.sensor, list |-> r.list, cfg |-> r.cfg]
    BY <2>1
  <2> QED
    BY <2>5, <2>6 DEF ConfigOK
<1>5. CASE line.key = "File"
  <2>1. r = [c EXCEPT !.sensor = NoSensor]
    BY <1>5 DEF tsg_objects_read_config
  <2>2. r.list = c.list /\ r.cfg = c.cfg /\ r.sensor = NoSensor
        /\ r = [sensor |-> r.sensor, list |-> r.list, cfg |-> r.cfg]
    BY <2>1
  <2> QED
    BY <2>2 DEF ConfigOK
<1> QED
  BY <1>1, <1>2, <1>3, <1>4, <1>5

\* The configuration after the lines whose numbers are in D have been read.
NothingRead == [sensor |-> NoSensor, list |-> <<>>, cfg |-> <<>>]
AfterLines(g, D) ==
  g = [s \in SUBSET D |->
         IF s = {} THEN NothingRead
         ELSE tsg_objects_read_config(g[s \ {Max(s)}], Lines[Max(s)])]

\* The greatest of a set up to n that has n is n.
LEMMA MaxTop ==
  ASSUME NEW n \in Nat, NEW s, s \subseteq 1 .. n, n \in s
  PROVE  Max(s) = n
<1>1. \A i \in s : i \in Int /\ i <= n
  OBVIOUS
<1>2. IsFiniteSet(s)
  <2>1. IsFiniteSet(1 .. n)
    BY FiniteSegment
  <2> QED
    BY <2>1, FS_Subset
<1>3. Max(s) \in s /\ \A y \in s : Max(s) >= y
  <2>1. s \subseteq Int /\ s # {}
    BY <1>1
  <2> QED
    BY ONLY <1>2, <2>1, MaxExists
<1>4. Max(s) >= n /\ Max(s) <= n /\ Max(s) \in Int
  BY ONLY <1>1, <1>3, n \in s
<1> QED
  BY ONLY <1>4, n \in Nat

\* tsg_objects_init() reads the lines one by one.
LEMMA ParsedDef ==
  \E g : AfterLines(g, 1 .. Len(Lines)) /\ Parsed = g[1 .. Len(Lines)]
<1> DEFINE B == {n \in Nat : ~ \E g : AfterLines(g, 1 .. n)}
<1>1. 0 \notin B
  <2> DEFINE g == [s \in SUBSET (1 .. 0) |-> NothingRead]
  <2>1. \A s \in SUBSET (1 .. 0) : s = {}
    OBVIOUS
  <2>2. AfterLines(g, 1 .. 0)
    BY <2>1 DEF AfterLines
  <2> QED
    BY <2>2
<1>2. ASSUME NEW n \in B
      PROVE  n - 1 \in B
  <2> SUFFICES ASSUME n - 1 \notin B
               PROVE  FALSE
    OBVIOUS
  <2>1. n \in Nat /\ n # 0 /\ n - 1 \in Nat
    BY <1>1
  <2>2. PICK g : AfterLines(g, 1 .. n - 1)
    BY <2>1
  <2> DEFINE next(f, s) == IF s = {} THEN NothingRead
                           ELSE tsg_objects_read_config(f[s \ {Max(s)}], Lines[Max(s)])
             h == [s \in SUBSET (1 .. n) |->
                     IF n \in s THEN tsg_objects_read_config(g[s \ {n}], Lines[n]) ELSE g[s]]
  <2>3. \A s \in SUBSET (1 .. n - 1) : g[s] = next(g, s)
    BY <2>2 DEF AfterLines
  <2>4. ASSUME NEW s \in SUBSET (1 .. n)
        PROVE  s \ {n} \in SUBSET (1 .. n - 1)
    BY <2>1
  <2>5. \A s \in SUBSET (1 .. n) : n \notin s => h[s] = g[s]
    OBVIOUS
  <2>6. \A s \in SUBSET (1 .. n) :
          n \in s => h[s] = tsg_objects_read_config(g[s \ {n}], Lines[n])
    OBVIOUS
  <2>7. h = [s \in SUBSET (1 .. n) |-> h[s]]
    OBVIOUS
  <2> HIDE DEF h
  <2>8. ASSUME NEW s \in SUBSET (1 .. n)
        PROVE  h[s] = next(h, s)
    <3>1. s \ {n} \in SUBSET (1 .. n - 1) /\ s \ {n} \in SUBSET (1 .. n)
      BY <2>4
    <3>2. CASE n \in s
      <4>1. Max(s) = n
        BY <2>1, <3>2, MaxTop
      <4>2. h[s \ {n}] = g[s \ {n}]
        BY <2>5, <3>1
      <4> QED
        BY <2>6, <3>2, <4>1, <4>2
    <3>3. CASE n \notin s
      <4>1. s \in SUBSET (1 .. n - 1) /\ h[s] = g[s]
        BY <2>5, <3>1, <3>3
      <4>2. h[s \ {Max(s)}] = g[s \ {Max(s)}]
        BY <2>5, <3>3
      <4> QED
        BY <2>3, <4>1, <4>2
    <3> QED
      BY <3>2, <3>3
  <2>9. AfterLines(h, 1 .. n)
    BY <2>7, <2>8 DEF AfterLines
  <2> QED
    BY <2>9
<1>3. B = {}
  <2>1. B \subseteq Nat
    OBVIOUS
  <2> HIDE DEF B
  <2> QED
    BY <1>1, <1>2, <2>1, Descent
<1>4. Len(Lines) \in Nat /\ DOMAIN Lines = 1 .. Len(Lines)
  BY LinesAssumption
<1>5. \E g : AfterLines(g, DOMAIN Lines)
  BY <1>3, <1>4
<1> DEFINE c == CHOOSE g : AfterLines(g, DOMAIN Lines)
<1>6. AfterLines(c, DOMAIN Lines)
  BY <1>5
<1>7. Parsed = c[DOMAIN Lines]
  BY DEF Parsed, FoldLeft, MapThenFoldSet, AfterLines, NothingRead
<1> QED
  BY <1>4, <1>6, <1>7

\* tsg_objects_add_object(), tsg_objects_read_config(): whatever the lines of the files
\* and their order, each sensor is listed once and has a configuration of its type.
THEOREM ConfigurationRead ==
  /\ Sensors \in [Objects -> SensorType]
  /\ Config \in Seq(Objects)
  /\ IsInjective(Config)
<1> DEFINE N == Len(Lines)
           Good(c) == ConfigOK(c) /\ c = [sensor |-> c.sensor, list |-> c.list, cfg |-> c.cfg]
<1>1. PICK g : AfterLines(g, 1 .. N) /\ Parsed = g[1 .. N]
  BY ParsedDef
<1>2. /\ N \in Nat
      /\ \A i \in 1 .. N : Arguments(Lines[i])
  <2>1. N \in Nat /\ DOMAIN Lines = 1 .. N
    BY LinesAssumption
  <2>2. \A i \in 1 .. N : Lines[i] \in ToSet(Lines)
    BY <2>1 DEF ToSet
  <2> QED
    BY <2>1, <2>2, LinesAssumption
<1>3. Good(NothingRead)
  <2>1. NothingRead.list = <<>> /\ NothingRead.cfg = <<>>
        /\ NothingRead.sensor = NoSensor
        /\ NothingRead = [sensor |-> NothingRead.sensor, list |-> NothingRead.list,
                          cfg |-> NothingRead.cfg]
    BY DEF NothingRead
  <2>2. DOMAIN <<>> = {} /\ <<>> \in Seq({})
    OBVIOUS
  <2>3. <<>> \in [{} -> SensorType]
    BY <2>2
  <2> QED
    BY <2>1, <2>2, <2>3 DEF ConfigOK, IsInjective
<1> HIDE DEF N
<1> DEFINE B == {n \in Nat : n <= N /\ ~Good(g[1 .. n])}
<1>4. 0 \notin B
  <2>1. 1 .. 0 = {} /\ {} \in SUBSET (1 .. N)
    OBVIOUS
  <2>2. g[{}] = NothingRead
    BY <1>1, <2>1 DEF AfterLines
  <2> HIDE DEF Good
  <2> QED
    BY <1>3, <2>1, <2>2
<1>5. ASSUME NEW n \in B
      PROVE  n - 1 \in B
  <2> SUFFICES ASSUME n - 1 \notin B
               PROVE  FALSE
    OBVIOUS
  <2> DEFINE D == 1 .. n
             c == g[1 .. n - 1]
             r == g[D]
             line == Lines[n]
  <2> HIDE DEF Good
  <2>1. n \in Nat /\ n # 0 /\ n - 1 \in Nat /\ n <= N /\ n - 1 <= N
    BY <1>2, <1>4
  <2>2. Good(c)
    BY <2>1
  <2>3. D \in SUBSET (1 .. N) /\ D # {} /\ Max(D) = n /\ D \ {n} = 1 .. n - 1
    BY <1>2, <2>1, MaxTop
  <2>4. r = tsg_objects_read_config(c, line)
    BY <1>1, <2>3 DEF AfterLines
  <2>5. Arguments(line)
    BY <1>2, <2>1
  <2>6. ~Good(r)
    OBVIOUS
  <2> HIDE DEF c, r, line, B, D
  <2>7. ConfigOK(c) /\ c = [sensor |-> c.sensor, list |-> c.list, cfg |-> c.cfg]
    BY <2>2 DEF Good
  <2>8. ConfigOK(r) /\ r = [sensor |-> r.sensor, list |-> r.list, cfg |-> r.cfg]
    BY ONLY <2>4, <2>5, <2>7, ReadConfigOK
  <2> QED
    BY <2>6, <2>8 DEF Good
<1>6. B = {}
  <2>1. B \subseteq Nat
    OBVIOUS
  <2> HIDE DEF B
  <2> QED
    BY <1>4, <1>5, <2>1, Descent
<1>7. Good(g[1 .. N])
  <2> HIDE DEF Good
  <2> QED
    BY <1>2, <1>6
<1>8. ConfigOK(Parsed)
  BY <1>1, <1>7
<1>9. /\ Config \in Seq(DOMAIN Sensors) /\ IsInjective(Config)
      /\ \A o \in DOMAIN Sensors : \E i \in DOMAIN Config : Config[i] = o
      /\ Sensors \in [DOMAIN Sensors -> SensorType]
  BY <1>8 DEF ConfigOK, Config, Sensors
<1>10. Objects = DOMAIN Sensors
  <2>1. \A i \in DOMAIN Config : Config[i] \in DOMAIN Sensors
    BY <1>9
  <2> QED
    BY <1>9, <2>1 DEF Objects
<1> QED
  BY <1>9, <1>10

\* The configuration is a list.
LEMMA ConfigList ==
  /\ Len(Config) \in Nat
  /\ DOMAIN Config = 1 .. Len(Config)
  /\ Config = [i \in 1 .. Len(Config) |-> Config[i]]
<1>1. ASSUME NEW c \in Seq(Objects)
      PROVE  /\ Len(c) \in Nat /\ DOMAIN c = 1 .. Len(c)
             /\ c = [i \in 1 .. Len(c) |-> c[i]]
  OBVIOUS
<1>2. Config \in Seq(Objects)
  BY ConfigurationRead
<1> QED
  BY <1>1, <1>2

\* So there are finitely many objects.
LEMMA ObjectsFinite == IsFiniteSet(Objects)
<1>1. Len(Config) \in Nat /\ Config = [i \in 1 .. Len(Config) |-> Config[i]]
  BY ConfigList
<1>2. IsFiniteSet(1 .. Len(Config))
  BY <1>1, FiniteSegment
<1>3. IsFiniteSet({Config[i] : i \in 1 .. Len(Config)})
  BY <1>1, <1>2, FiniteRange
<1>4. DOMAIN Config = 1 .. Len(Config)
  BY <1>1
<1> QED
  BY <1>3, <1>4 DEF Objects

\* The delays in units of time are numbers.
LEMMA UnitFacts ==
  /\ TransitionPoll \in Nat
  /\ TRANSITION_DELAY \in Nat
<1>1. \A a \in Nat, b \in Nat \ {0} : a \div b \in Nat
  OBVIOUS
<1> QED
  BY <1>1, ThermalAssumption DEF TransitionPoll, TRANSITION_DELAY

\* LongestPoll bounds every delay.
LEMMA LongestPollBounds ==
  /\ LongestPoll \in Nat
  /\ TransitionPoll <= LongestPoll
  /\ \A o \in Objects, i \in Status :
       /\ Sensors[o].level[i].maxwait \div UNIT \in Int
       /\ Sensors[o].level[i].maxwait \div UNIT <= LongestPoll
<1> DEFINE D(o, i) == Sensors[o].level[i].maxwait \div UNIT
           f == [p \in Objects \X Status |-> D(p[1], p[2])]
           L == {D(o, i) : o \in Objects, i \in Status}
<1>1. IsFiniteSet(Objects \X Status)
  <2>1. IsFiniteSet(Status)
    <3>1. \A n \in Nat : IsFiniteSet(0 .. n)
      BY FiniteSegment
    <3> QED
      BY <3>1 DEF Status, LOW, INVALID
  <2> QED
    BY <2>1, ObjectsFinite, FS_Product
<1>2. \A o \in Objects, i \in Status : D(o, i) \in Int
  <2>1. \A a \in Int, b \in Nat \ {0} : a \div b \in Int
    OBVIOUS
  <2>2. \A o \in Objects, i \in Status : Sensors[o].level[i].maxwait \in Int
    BY ConfigurationRead DEF SensorType
  <2> QED
    BY <2>1, <2>2, ThermalAssumption
<1>3. LongestPoll = Max(L \cup {TransitionPoll})
  BY DEF LongestPoll
<1> HIDE DEF D
<1>4. IsFiniteSet({f[p] : p \in Objects \X Status})
  <2>1. f = [p \in Objects \X Status |-> f[p]]
    OBVIOUS
  <2> HIDE DEF f
  <2> QED
    BY <1>1, <2>1, FiniteRange
<1>5. L \subseteq {f[p] : p \in Objects \X Status}
  <2> SUFFICES ASSUME NEW o \in Objects, NEW i \in Status
               PROVE  \E p \in Objects \X Status : D(o, i) = f[p]
    OBVIOUS
  <2> WITNESS <<o, i>> \in Objects \X Status
  <2> QED
    OBVIOUS
<1>6. IsFiniteSet(L \cup {TransitionPoll})
  <2> HIDE DEF L
  <2>1. IsFiniteSet(L)
    BY <1>4, <1>5, FS_Subset
  <2> QED
    BY <2>1, FS_AddElement
<1>7. L \cup {TransitionPoll} \subseteq Int /\ TransitionPoll \in L \cup {TransitionPoll}
  BY <1>2, UnitFacts
<1>8. \A o \in Objects, i \in Status : D(o, i) \in L
  OBVIOUS
<1> HIDE DEF L
<1>9. /\ LongestPoll \in L \cup {TransitionPoll}
      /\ \A y \in L \cup {TransitionPoll} : LongestPoll >= y
  BY <1>3, <1>6, <1>7, MaxExists
<1>10. LongestPoll >= TransitionPoll /\ LongestPoll \in Int
  BY <1>7, <1>9
<1>11. \A o \in Objects, i \in Status : D(o, i) <= LongestPoll
  BY <1>2, <1>8, <1>9, <1>10
<1>12. LongestPoll \in Nat
  BY <1>10, UnitFacts
<1> QED
  BY <1>2, <1>10, <1>11, <1>12, UnitFacts DEF D
-----------------------------------------------------------------------------
(***************************************************************************)
(* Temperatures and statuses.                                              *)
(***************************************************************************)
\* Sets of statuses have a greatest and a least.
LEMMA StatusFinite ==
  ASSUME NEW T, T \subseteq Status
  PROVE  IsFiniteSet(T) /\ T \subseteq Int
<1>1. \A n \in Nat : IsFiniteSet(0 .. n)
  BY FiniteSegment
<1>2. IsFiniteSet(Status)
  BY <1>1 DEF Status, LOW, INVALID
<1>3. Status \subseteq Int
  BY DEF Status, LOW, INVALID
<1> QED
  BY <1>2, <1>3, FS_Subset

\* Every temperature has a status.
LEMMA LevelType ==
  ASSUME NEW o \in Objects, NEW temp \in Int
  PROVE  LevelOf(o, temp) \in Status
<1> DEFINE reached == {i \in Status : temp >= Sensors[o].level[i].mintemp}
<1>1. reached \subseteq Status
  OBVIOUS
<1>2. LevelOf(o, temp) = IF temp = NoTemp \/ reached = {} THEN INVALID ELSE Max(reached)
  BY DEF LevelOf
<1>3. INVALID \in Status
  BY DEF Status, LOW, INVALID
<1> HIDE DEF reached
<1>4. reached # {} => Max(reached) \in reached
  BY <1>1, StatusFinite, MaxExists
<1> QED
  BY <1>1, <1>2, <1>3, <1>4

\* What is no temperature has no status.
LEMMA NoTempFacts ==
  /\ NoTemp \in Int
  /\ \A o \in Objects : LevelOf(o, NoTemp) = INVALID
  /\ FATAL # INVALID
  /\ \A o \in Objects : ~FatalTemp(o, NoTemp)
BY DEF NoTemp, LevelOf, FatalTemp, FATAL, INVALID

\* An offset gives a temperature,
LEMMA OffsetType ==
  ASSUME NEW o \in Objects, NEW temp \in Int
  PROVE  Offset(o, temp) \in Int
BY ConfigurationRead, NoTempFacts DEF Offset, SensorType

\* and so does any number in a file: tsg_util_read_int().
LEMMA FileTempType ==
  ASSUME NEW o \in Objects, NEW h \in HwType
  PROVE  FileTemp(h, o) \in Int
<1>1. Sensors[o].divisor \in Nat /\ h.raw \in Int
  BY ConfigurationRead DEF SensorType, HwType
<1>2. \A r \in Int, d \in Nat : tsg_util_read_int(r, d) \in Int
  <2>1. \A a \in Int, b \in Nat \ {0} : a \div b \in Int
    OBVIOUS
  <2>2. \A r \in Int, d \in Nat : d > 1 =>
          /\ d \div 2 - r \in Int /\ r + d \div 2 \in Int
          /\ d \in Nat \ {0}
    OBVIOUS
  <2>3. \A r \in Int, d \in Nat : d > 1 =>
          -((d \div 2 - r) \div d) \in Int /\ (r + d \div 2) \div d \in Int
    BY <2>1, <2>2
  <2> QED
    BY <2>3 DEF tsg_util_read_int
<1> QED
  BY <1>1, <1>2, OffsetType, NoTempFacts DEF FileTemp

\* The worst of some statuses is one of them, and FATAL when one is.
LEMMA WorstFacts ==
  ASSUME NEW T, T \subseteq Status \ {INVALID}, T # {}
  PROVE  /\ Worst(T) \in T
         /\ Worst(T) = FATAL <=> FATAL \in T
<1>1. T \subseteq Status
  OBVIOUS
<1>2. IsFiniteSet(T) /\ T \subseteq Int
  BY <1>1, StatusFinite
<1>3. /\ Max(T) \in T /\ \A y \in T : Max(T) >= y
      /\ Min(T) \in T /\ \A y \in T : Min(T) <= y
  BY <1>2, MaxExists, MinExists
<1>4. \A y \in T : y \in 0 .. 4
  BY DEF Status, LOW, INVALID
<1> QED
  BY <1>3, <1>4 DEF Worst, NORMAL, ALERT, FATAL

\* A meta sensor makes a temperature of those of the sensors it depends on.
LEMMA MetaTempType ==
  ASSUME NEW s, NEW match, match \subseteq Objects,
         \A b \in match : s.obj[b].sg_temp \in Int
  PROVE  thermal_manager_get_sensor_status(s, match) \in Int
<1> DEFINE ok == {b \in match : s.obj[b].registered /\ SensorStatus(s, b) # INVALID}
           st == {SensorStatus(s, b) : b \in ok}
           f == [b \in ok |-> s.obj[b].sg_temp]
           t == {s.obj[b].sg_temp : b \in ok}
<1>1. thermal_manager_get_sensor_status(s, match) =
        IF ok = {} THEN NoTemp ELSE IF Worst(st) < NORMAL THEN Min(t) ELSE Max(t)
  BY DEF thermal_manager_get_sensor_status
<1>2. ok \subseteq Objects /\ t \subseteq Int
  OBVIOUS
<1>3. ok # {} => t # {}
  OBVIOUS
<1>4. IsFiniteSet(t)
  <2>1. f = [b \in ok |-> f[b]] /\ t = {f[b] : b \in ok}
    OBVIOUS
  <2> HIDE DEF f, t, ok
  <2>2. IsFiniteSet(ok)
    BY <1>2, ObjectsFinite, FS_Subset
  <2> QED
    BY <2>1, <2>2, FiniteRange
<1> HIDE DEF ok, st, f, t
<1>5. ok # {} => Max(t) \in Int /\ Min(t) \in Int
  BY <1>2, <1>3, <1>4, MaxExists, MinExists
<1> QED
  BY <1>1, <1>5, NoTempFacts
-----------------------------------------------------------------------------
(***************************************************************************)
(* One object.                                                             *)
(***************************************************************************)
\* What an object is.
LEMMA ObjectFields ==
  ASSUME NEW ob \in ObjectType
  PROVE  /\ ob.registered \in BOOLEAN /\ ob.pending \in BOOLEAN
         /\ ob.notify_id \in BOOLEAN /\ ob.dropped \in BOOLEAN
         /\ ob.curr \in Status \ {INVALID} /\ ob.next \in Status \ {INVALID}
         /\ ob.change \in Ages /\ ob.sg_temp \in Int
         /\ ob.wait \in {"none", "transition", "level"} /\ ob.left \in Nat
         /\ ob.hot \in 0 .. Patience + 1
         /\ ob.seen.status \in Status /\ ob.seen.age \in 0 .. TRANSITION_DELAY + 1
BY DEF ObjectType

\* The numbers an object is made of.
LEMMA Numbers ==
  /\ LongestPoll \in Nat /\ TransitionPoll \in Nat /\ TRANSITION_DELAY \in Nat
  /\ TransitionPoll <= LongestPoll
  /\ Patience = LongestPoll + TRANSITION_DELAY + TransitionPoll /\ Patience \in Nat
  /\ Ages = -1 .. TRANSITION_DELAY + 1 /\ NotChanging = -1
  /\ NORMAL \in Status \ {INVALID} /\ FATAL \in Status \ {INVALID} /\ NORMAL # FATAL
BY UnitFacts, LongestPollBounds
   DEF Patience, Ages, NotChanging, Status, LOW, NORMAL, FATAL, INVALID

\* thermal_object_create()
LEMMA CreatedFacts ==
  /\ Created \in ObjectType
  /\ ~Created.registered /\ ~Created.pending /\ ~Created.notify_id /\ ~Created.dropped
  /\ Created.wait = "none" /\ Created.left = 0 /\ Created.hot = 0
  /\ Created.curr = NORMAL /\ Created.next = NORMAL /\ Created.change = NotChanging
  /\ Created.seen.status = NORMAL
BY Numbers, NoTempFacts DEF Created, ObjectType

\* An object that was just created is in order.
LEMMA CreatedOK ==
  ASSUME NEW o \in Objects, NEW h
  PROVE  ObjBase(o, Created, h) /\ Asked(o, Created)
BY CreatedFacts, Numbers DEF ObjBase, Shape, Followed, HotFile, HotReading, Due, Asked

\* What the operators do to an object: the answer of the sensor, a request that
\* begins or ends, one that is forgotten, and a wake-up that is booked.
Answered(ob, t, n) == [ob EXCEPT !.sg_temp = t, !.notify_id = n]
Requested(ob, v) == [ob EXCEPT !.pending = v]
Cancelled(ob) == [ob EXCEPT !.pending = FALSE, !.dropped = TRUE]
Booked(ob, w, t) == [ob EXCEPT !.wait = w, !.left = t]

\* The answer of the sensor.
LEMMA ReadOK ==
  ASSUME NEW o \in Objects, NEW ob \in ObjectType, NEW h \in HwType,
         NEW k \in HwType, NEW t \in Int, NEW n \in BOOLEAN, NEW x, x = Answered(ob, t, n),
         ob.registered, ObjBase(o, ob, h),
         ob.hot > 0 => k = h,
         ~IsMeta(o) => t = FileTemp(k, o)
  PROVE  /\ x \in ObjectType
         /\ ObjBase(o, x, k)
         /\ x.registered /\ x.sg_temp = t /\ x.notify_id = n
         /\ x.pending = ob.pending /\ x.curr = ob.curr /\ x.seen = ob.seen
         /\ x.wait = ob.wait /\ x.dropped = ob.dropped
<1>1. /\ x \in ObjectType
      /\ x.registered /\ x.sg_temp = t /\ x.notify_id = n
      /\ x.pending = ob.pending /\ x.curr = ob.curr /\ x.seen = ob.seen
      /\ x.wait = ob.wait /\ x.dropped = ob.dropped
      /\ x.next = ob.next /\ x.change = ob.change /\ x.left = ob.left /\ x.hot = ob.hot
  BY DEF ObjectType, Answered
<1> HIDE DEF ObjectType
<1>2. Shape(o, x) /\ Followed(x) /\ Due(x)
  BY <1>1 DEF ObjBase, Shape, Followed, Due
<1>3. HotFile(o, x, k) /\ HotReading(o, x)
  BY <1>1 DEF ObjBase, HotFile, HotReading
<1> QED
  BY <1>1, <1>2, <1>3 DEF ObjBase

\* thermal_object_cancel_update() of a meta sensor that cannot be evaluated.
LEMMA CancelOK ==
  ASSUME NEW o \in Objects, NEW ob \in ObjectType, NEW h,
         NEW x, x = Cancelled(ob),
         ob.registered, ObjBase(o, ob, h), IsMeta(o)
  PROVE  /\ x \in ObjectType
         /\ ObjBase(o, x, h)
         /\ x.registered /\ ~x.pending /\ x.dropped
         /\ x.curr = ob.curr /\ x.seen = ob.seen
<1>1. /\ x \in ObjectType
      /\ x.registered /\ ~x.pending /\ x.dropped
      /\ x.sg_temp = ob.sg_temp /\ x.notify_id = ob.notify_id
      /\ x.curr = ob.curr /\ x.next = ob.next /\ x.change = ob.change
      /\ x.seen = ob.seen /\ x.wait = ob.wait /\ x.left = ob.left
      /\ x.hot = ob.hot
  BY DEF ObjectType, Cancelled
<1> HIDE DEF ObjectType
<1>2. Shape(o, x) /\ Followed(x) /\ HotFile(o, x, h) /\ Due(x) /\ HotReading(o, x)
  BY <1>1 DEF ObjBase, Shape, Followed, HotFile, Due, HotReading
<1> QED
  BY <1>1, <1>2 DEF ObjBase

\* A change of status that is under way when a reading has been looked at is that
\* of FATAL, when the sensor is overheated and not yet believed to be.
Watched(ob) ==
  (ob.hot > 0 /\ ob.curr # FATAL) =>
     /\ ob.next = FATAL /\ ob.change # NotChanging
     /\ ob.hot <= LongestPoll + TRANSITION_DELAY
     /\ ob.change <= TRANSITION_DELAY => ob.hot <= LongestPoll + ob.change

\* The reading itself.
LEMMA NoteFacts ==
  ASSUME NEW ob \in ObjectType, NEW st \in Status \ {INVALID}, NEW x, x = Note(ob, st)
  PROVE  /\ x \in ObjectType
         /\ x.seen.status = st
         /\ ob.seen.status = st => x.seen = ob.seen
         /\ x.registered = ob.registered /\ x.pending = ob.pending
         /\ x.sg_temp = ob.sg_temp /\ x.notify_id = ob.notify_id
         /\ x.curr = ob.curr /\ x.next = ob.next /\ x.change = ob.change
         /\ x.wait = ob.wait /\ x.left = ob.left
         /\ x.hot = ob.hot /\ x.dropped = ob.dropped
<1>1. [status |-> st, age |-> 0] \in [status : Status, age : 0 .. TRANSITION_DELAY + 1]
  BY Numbers
<1>2. ob.seen \in [status : Status, age : 0 .. TRANSITION_DELAY + 1]
  BY DEF ObjectType
<1> DEFINE sn == IF ob.seen.status = st THEN ob.seen ELSE [status |-> st, age |-> 0]
<1>3. /\ sn \in [status : Status, age : 0 .. TRANSITION_DELAY + 1]
      /\ sn.status = st
      /\ ob.seen.status = st => sn = ob.seen
  BY <1>1, <1>2
<1>4. x = [ob EXCEPT !.seen = sn]
  BY DEF Note
<1> HIDE DEF sn
<1> QED
  BY <1>3, <1>4 DEF ObjectType

\* thermal_object_handle_update(), the second half: a status is taken over when
\* the readings have shown it for longer than TRANSITION_DELAY, and that of an
\* overheated sensor is FATAL.
LEMMA BelieveFacts ==
  ASSUME NEW ob \in ObjectType, NEW st \in Status \ {INVALID}, NEW x,
         x = Believe(Note(ob, st), st),
         ob.registered, Followed(ob), Due(ob), ob.hot > 0 => st = FATAL
  PROVE  /\ x \in ObjectType
         /\ Followed(x) /\ Watched(x)
         /\ x.curr # ob.curr => /\ ob.seen.status = x.curr
                                /\ ob.seen.age > TRANSITION_DELAY
         /\ x.registered /\ x.pending = ob.pending
         /\ x.sg_temp = ob.sg_temp /\ x.notify_id = ob.notify_id
         /\ x.wait = ob.wait /\ x.left = ob.left
         /\ x.hot = ob.hot /\ x.dropped = ob.dropped
<1> DEFINE nt == Note(ob, st)
<1>0. nt = Note(ob, st)
  OBVIOUS
<1> HIDE DEF nt
<1>1. /\ nt \in ObjectType
      /\ nt.seen.status = st
      /\ ob.seen.status = st => nt.seen = ob.seen
      /\ nt.registered = ob.registered /\ nt.pending = ob.pending
      /\ nt.sg_temp = ob.sg_temp /\ nt.notify_id = ob.notify_id
      /\ nt.curr = ob.curr /\ nt.next = ob.next /\ nt.change = ob.change
      /\ nt.wait = ob.wait /\ nt.left = ob.left
      /\ nt.hot = ob.hot /\ nt.dropped = ob.dropped
  BY ONLY <1>0, NoteFacts, ob \in ObjectType, st \in Status \ {INVALID}
<1>2. x = IF st = nt.curr THEN [nt EXCEPT !.next = st, !.change = NotChanging]
          ELSE IF nt.next # st THEN [nt EXCEPT !.next = st, !.change = 0]
          ELSE IF nt.change <= TRANSITION_DELAY THEN nt
          ELSE [nt EXCEPT !.curr = st, !.next = st, !.change = NotChanging]
  BY <1>0 DEF Believe
<1>3. NotChanging \in Ages /\ 0 \in Ages
  BY Numbers
<1>4. ob.hot \in Nat /\ ob.left \in Nat /\ ob.change \in Ages /\ ob.seen.age \in Nat
      /\ nt.seen.age \in Nat
  BY <1>1, ObjectFields, Numbers
<1>5. CASE st = nt.curr
  <2>1. x = [nt EXCEPT !.next = st, !.change = NotChanging]
    BY <1>2, <1>5
  <2>2. /\ x \in ObjectType /\ x.next = st /\ x.change = NotChanging
        /\ x.curr = nt.curr /\ x.seen = nt.seen
        /\ x.registered = nt.registered /\ x.pending = nt.pending
        /\ x.sg_temp = nt.sg_temp /\ x.notify_id = nt.notify_id
        /\ x.wait = nt.wait /\ x.left = nt.left
        /\ x.hot = nt.hot /\ x.dropped = nt.dropped
    BY ONLY <1>1, <1>3, <2>1, st \in Status \ {INVALID} DEF ObjectType
  <2>3. Followed(x)
    BY <1>1, <1>5, <2>2 DEF Followed
  <2>4. Watched(x)
    BY <1>1, <1>5, <2>2 DEF Watched
  <2> QED
    BY <1>1, <2>2, <2>3, <2>4
<1>6. CASE st # nt.curr /\ nt.next # st
  <2>1. x = [nt EXCEPT !.next = st, !.change = 0]
    BY <1>2, <1>6
  <2>2. /\ x \in ObjectType /\ x.next = st /\ x.change = 0
        /\ x.curr = nt.curr /\ x.seen = nt.seen
        /\ x.registered = nt.registered /\ x.pending = nt.pending
        /\ x.sg_temp = nt.sg_temp /\ x.notify_id = nt.notify_id
        /\ x.wait = nt.wait /\ x.left = nt.left
        /\ x.hot = nt.hot /\ x.dropped = nt.dropped
    BY ONLY <1>1, <1>3, <2>1, st \in Status \ {INVALID} DEF ObjectType
  <2>3. Followed(x)
    BY <1>1, <1>4, <1>6, <2>2, Numbers DEF Followed
  <2>4. Watched(x)
    BY <1>1, <1>4, <1>6, <2>2, Numbers DEF Watched, Due
  <2> QED
    BY <1>1, <2>2, <2>3, <2>4
<1>7. CASE st # nt.curr /\ nt.next = st /\ nt.change <= TRANSITION_DELAY
  <2>1. x = nt
    BY <1>2, <1>7
  <2>2. ob.next # ob.curr /\ nt.seen = ob.seen
    BY <1>1, <1>7 DEF Followed
  <2>3. Followed(x)
    BY <1>1, <2>1, <2>2 DEF Followed
  <2>4. Watched(x)
    <3>1. nt.next = FATAL => /\ ob.next = FATAL /\ ob.next # ob.curr
                             /\ nt.hot = ob.hot /\ nt.change = ob.change
      BY ONLY <1>1, <2>2
    <3>2. (ob.hot > 0 /\ ob.curr # FATAL) =>
            /\ ob.change <= TRANSITION_DELAY => ob.hot <= LongestPoll + ob.change
            /\ ob.change # NotChanging
      <4>1. ob.hot > 0 /\ ob.curr # FATAL => ob.next = FATAL /\ ob.next # ob.curr
        BY <1>1, <1>7
      <4>2. ob.next # ob.curr => ob.change # NotChanging /\ ob.change \in Nat
        BY <1>4, Numbers DEF Followed
      <4>3. ob.hot + ob.left <= LongestPoll => ob.hot <= LongestPoll
        BY ONLY <1>4, Numbers
      <4>4. ob.hot <= LongestPoll /\ ob.change \in Nat => ob.hot <= LongestPoll + ob.change
        BY ONLY <1>4, Numbers
      <4> QED
        BY <4>1, <4>2, <4>3, <4>4 DEF Due
    <3>3. nt.change <= TRANSITION_DELAY /\ ob.hot <= LongestPoll + ob.change
            => ob.hot <= LongestPoll + TRANSITION_DELAY
      BY ONLY <1>1, <1>4, Numbers
    <3> QED
      BY <1>1, <1>7, <2>1, <3>1, <3>2, <3>3 DEF Watched
  <2> QED
    BY <1>1, <2>1, <2>3, <2>4
<1>8. CASE st # nt.curr /\ nt.next = st /\ ~(nt.change <= TRANSITION_DELAY)
  <2>1. x = [nt EXCEPT !.curr = st, !.next = st, !.change = NotChanging]
    BY <1>2, <1>8
  <2>2. /\ x \in ObjectType /\ x.next = st /\ x.change = NotChanging
        /\ x.curr = st /\ x.seen = nt.seen
        /\ x.registered = nt.registered /\ x.pending = nt.pending
        /\ x.sg_temp = nt.sg_temp /\ x.notify_id = nt.notify_id
        /\ x.wait = nt.wait /\ x.left = nt.left
        /\ x.hot = nt.hot /\ x.dropped = nt.dropped
    BY ONLY <1>1, <1>3, <2>1, st \in Status \ {INVALID} DEF ObjectType
  <2>3. Followed(x)
    BY <2>2 DEF Followed
  <2>4. Watched(x)
    BY <1>1, <2>2 DEF Watched
  <2>5. ob.seen.status = st /\ ob.seen.age > TRANSITION_DELAY
    BY <1>1, <1>4, <1>8, Numbers DEF Followed
  <2> QED
    BY <1>1, <2>2, <2>3, <2>4, <2>5
<1> QED
  BY <1>5, <1>6, <1>7, <1>8

\* So much is known of an object that was read.
Judged(o, ob, h) ==
  /\ ob.registered /\ ~ob.pending /\ thermal_sensor_generic_is_valid(o)
  /\ ob.dropped => IsMeta(o)
  /\ HotFile(o, ob, h) /\ Followed(ob) /\ Watched(ob)

\* A status was taken over, if any, that is no glitch.
Believed(ob, x) ==
  x.curr # ob.curr => ob.seen.status = x.curr /\ ob.seen.age > TRANSITION_DELAY

\* thermal_manager_schedule_object_poll() comes in time for what is watched.
LEMMA ScheduleOK ==
  ASSUME NEW o \in Objects, NEW ob \in ObjectType, NEW h,
         NEW x, NEW w \in {"transition", "level"}, NEW t \in Nat,
         x = Booked(ob, w, t),
         Judged(o, ob, h),
         t <= LongestPoll, ob.change # NotChanging => t = TransitionPoll
  PROVE  /\ x \in ObjectType
         /\ ObjBase(o, x, h)
         /\ x.registered /\ ~x.pending /\ x.wait # "none"
         /\ x.notify_id = ob.notify_id /\ x.curr = ob.curr /\ x.seen = ob.seen
         /\ x.sg_temp = ob.sg_temp
<1>1. /\ x \in ObjectType
      /\ x.registered /\ ~x.pending /\ x.wait = w /\ x.left = t
      /\ x.sg_temp = ob.sg_temp /\ x.notify_id = ob.notify_id
      /\ x.curr = ob.curr /\ x.next = ob.next /\ x.change = ob.change
      /\ x.seen = ob.seen /\ x.hot = ob.hot /\ x.dropped = ob.dropped
  BY DEF ObjectType, Booked, Judged
<1>2. x.hot \in Nat /\ x.change \in Ages
  BY <1>1, ObjectFields, Numbers
<1> HIDE DEF ObjectType
<1>3. Shape(o, x) /\ Followed(x) /\ HotFile(o, x, h) /\ HotReading(o, x)
  BY <1>1 DEF Judged, Shape, Followed, HotFile, HotReading
<1>4. Due(x)
  <2>1. CASE x.hot = 0
    BY <1>1, <2>1, Numbers DEF Due
  <2>2. CASE x.hot > 0
    BY <1>1, <1>2, <2>2, Numbers DEF Due, Watched, Judged
  <2> QED
    BY <1>2, <2>1, <2>2
<1> QED
  BY <1>1, <1>3, <1>4 DEF ObjBase
-----------------------------------------------------------------------------
(***************************************************************************)
(* The operators on the state, from the sensor up.                         *)
(***************************************************************************)
\* Only the report of r differs from that of s, or only the object o and its file.
SameReport(s, r) ==
  r.current_status = s.current_status /\ r.prev = s.prev /\ r.flag = s.flag
Changed(s, r, o, x, h) ==
  /\ r \in SysType
  /\ r.obj[o] = x /\ r.hw[o] = h
  /\ \A p \in Objects \ {o} : r.obj[p] = s.obj[p] /\ r.hw[p] = s.hw[p]
  /\ SameReport(s, r)

\* What a state is.
LEMMA SysFields ==
  ASSUME NEW s \in SysType
  PROVE  /\ \A o \in Objects : s.obj[o] \in ObjectType /\ s.hw[o] \in HwType
         /\ s.current_status \in Status \ {INVALID}
         /\ s.prev \in {"LOWTEMP", "NORMAL", "OVERHEATED"} /\ s.flag \in BOOLEAN
BY DEF SysType

\* A state in which one object is another.
LEMMA SetObject ==
  ASSUME NEW s \in SysType, NEW o \in Objects, NEW x \in ObjectType, NEW r,
         r = [s EXCEPT !.obj[o] = x]
  PROVE  Changed(s, r, o, x, s.hw[o])
BY DEF SysType, Changed, SameReport

\* Meta sensors are not about meta sensors.
LEMMA DependsFacts ==
  /\ \A o \in Objects : Sensors[o].depends_on \subseteq Objects
  /\ \A o \in Objects : \A b \in Sensors[o].depends_on : b \in Objects /\ ~IsMeta(b)
BY ThermalAssumption, ConfigurationRead DEF SensorType, IsMeta

\* thermal_sensor_generic_read_sensor(): a file that was fine is left alone.
LEMMA ReadSensor ==
  ASSUME NEW s \in SysType, NEW o \in Objects, NEW on \in BOOLEAN, NEW r,
         r = thermal_sensor_generic_read_sensor(s, o, on)
  PROVE  \E t \in Int, h \in HwType :
           /\ Changed(s, r, o, [s.obj[o] EXCEPT !.sg_temp = t], h)
           /\ s.hw[o].state = "ok" => h = s.hw[o]
           /\ ~IsMeta(o) => t = FileTemp(h, o)
<1> DEFINE t1 == Offset(o, thermal_manager_get_sensor_status(s, Sensors[o].depends_on))
           h2 == thermal_sensor_generic_enable_sensor(s.hw[o], on)
           t2 == FileTemp(h2, o)
<1>1. s.obj[o] \in ObjectType /\ s.hw[o] \in HwType
  BY SysFields
<1>2. CASE IsMeta(o)
  <2>1. r = [s EXCEPT !.obj[o].sg_temp = t1]
    BY <1>2 DEF thermal_sensor_generic_read_sensor
  <2>2. t1 \in Int
    <3> DEFINE match == Sensors[o].depends_on
               read == thermal_manager_get_sensor_status(s, match)
    <3>1. match \subseteq Objects /\ \A b \in match : s.obj[b].sg_temp \in Int
      BY SysFields, ObjectFields, DependsFacts
    <3>2. t1 = Offset(o, read)
      OBVIOUS
    <3> HIDE DEF t1, match
    <3>3. read \in Int
      BY <3>1, MetaTempType
    <3> HIDE DEF read
    <3> QED
      BY <3>2, <3>3, OffsetType
  <2> HIDE DEF t1
  <2> DEFINE x == [s.obj[o] EXCEPT !.sg_temp = t1]
  <2>3. x \in ObjectType
    BY <1>1, <2>2 DEF ObjectType
  <2>4. r = [s EXCEPT !.obj[o] = x]
    BY <2>1 DEF SysType
  <2>5. Changed(s, r, o, x, s.hw[o])
    <3> HIDE DEF x
    <3> QED
      BY <2>3, <2>4, SetObject
  <2> QED
    BY <1>1, <1>2, <2>2, <2>5
<1>3. CASE ~IsMeta(o)
  <2>1. r = [s EXCEPT !.hw[o] = h2, !.obj[o].sg_temp = t2]
    BY <1>3 DEF thermal_sensor_generic_read_sensor
  <2>2. h2 \in HwType /\ s.hw[o].state = "ok" => h2 = s.hw[o]
    BY <1>1 DEF thermal_sensor_generic_enable_sensor, HwType
  <2>3. t2 = FileTemp(h2, o)
    OBVIOUS
  <2> HIDE DEF h2, t2
  <2>4. t2 \in Int /\ h2 \in HwType
    <3>1. h2 \in HwType
      BY <1>1 DEF thermal_sensor_generic_enable_sensor, HwType, h2
    <3> QED
      BY <2>3, <3>1, FileTempType
  <2> DEFINE x == [s.obj[o] EXCEPT !.sg_temp = t2]
  <2>5. x \in ObjectType
    BY <1>1, <2>4 DEF ObjectType
  <2>6. r = [s EXCEPT !.hw[o] = h2, !.obj[o] = x]
    BY <2>1 DEF SysType
  <2>7. Changed(s, r, o, x, h2)
    <3> DEFINE q == [s EXCEPT !.hw[o] = h2]
    <3>1. /\ q \in SysType /\ q.hw[o] = h2 /\ q.obj = s.obj
          /\ \A p \in Objects \ {o} : q.hw[p] = s.hw[p]
          /\ SameReport(s, q)
      BY <2>4 DEF SysType, SameReport
    <3>2. r = [q EXCEPT !.obj[o] = x]
      BY <2>6 DEF SysType
    <3> HIDE DEF x, q
    <3>3. Changed(q, r, o, x, q.hw[o])
      BY <2>5, <3>1, <3>2, SetObject
    <3> QED
      BY <3>1, <3>3 DEF Changed, SameReport
  <2> QED
    BY <1>3, <2>2, <2>3, <2>4, <2>7
<1> QED
  BY <1>2, <1>3

\* thermal_sensor_generic_read_sensor_cb(): and the answer is on its way when there
\* is a temperature.
LEMMA ReadSensorCb ==
  ASSUME NEW s \in SysType, NEW o \in Objects, NEW on \in BOOLEAN, NEW r,
         r = thermal_sensor_generic_read_sensor_cb(s, o, on)
  PROVE  \E t \in Int, h \in HwType :
           /\ Changed(s, r, o,
                      Answered(s.obj[o], t, s.obj[o].notify_id \/ t # NoTemp), h)
           /\ s.hw[o].state = "ok" => h = s.hw[o]
           /\ ~IsMeta(o) => t = FileTemp(h, o)
<1> DEFINE q == thermal_sensor_generic_read_sensor(s, o, on)
<1>1. r = [q EXCEPT !.obj[o].notify_id = q.obj[o].notify_id \/ q.obj[o].sg_temp # NoTemp]
  BY DEF thermal_sensor_generic_read_sensor_cb
<1>2. q = thermal_sensor_generic_read_sensor(s, o, on)
  OBVIOUS
<1> HIDE DEF q
<1>3. PICK t \in Int, h \in HwType :
           /\ Changed(s, q, o, [s.obj[o] EXCEPT !.sg_temp = t], h)
           /\ s.hw[o].state = "ok" => h = s.hw[o]
           /\ ~IsMeta(o) => t = FileTemp(h, o)
  BY <1>2, ReadSensor
<1> DEFINE n == s.obj[o].notify_id \/ t # NoTemp
           y == [s.obj[o] EXCEPT !.sg_temp = t]
           x == [s.obj[o] EXCEPT !.sg_temp = t, !.notify_id = n]
<1>4. s.obj[o] \in ObjectType
  BY SysFields
<1>5. /\ y \in ObjectType /\ x \in ObjectType
      /\ x = [y EXCEPT !.notify_id = n]
      /\ y.notify_id = s.obj[o].notify_id /\ y.sg_temp = t
  BY <1>4 DEF ObjectType
<1>6. q \in SysType /\ q.obj[o] = y /\ q.hw[o] = h
  BY <1>3 DEF Changed
<1>7. r = [q EXCEPT !.obj[o] = x]
  <2>1. r = [q EXCEPT !.obj[o].notify_id = n]
    BY <1>1, <1>5, <1>6
  <2> HIDE DEF n, x, y
  <2> QED
    BY <1>5, <1>6, <2>1 DEF SysType
<1>8. Changed(q, r, o, x, q.hw[o])
  <2> HIDE DEF x
  <2> QED
    BY <1>5, <1>6, <1>7, SetObject
<1>9. x = Answered(s.obj[o], t, n)
  BY DEF Answered
<1> HIDE DEF x
<1>10. Changed(s, r, o, x, h)
  BY <1>3, <1>6, <1>8 DEF Changed, SameReport
<1> QED
  BY <1>3, <1>9, <1>10

\* thermal_manager_broadcast_status(): the worst status is told, and the flag file
\* is there when it is FATAL.
LEMMA Broadcast ==
  ASSUME NEW s \in SysType, NEW r, r = thermal_manager_broadcast_status(s), Flagged(s)
  PROVE  /\ r \in SysType /\ r.obj = s.obj /\ r.hw = s.hw
         /\ Flagged(r) /\ Reported(r)
<1> DEFINE st == {NORMAL} \cup {s.obj[o].curr : o \in {p \in Objects : s.obj[p].registered}}
           w == Worst(st \ {INVALID})
           q == [s EXCEPT !.current_status = w]
           curr == CASE w = LOW   -> "LOWTEMP"
                     [] w = FATAL -> "OVERHEATED"
                     [] OTHER     -> "NORMAL"
           fl == s.flag \/ (curr # s.prev /\ curr = "OVERHEATED")
<1>1. r = thermal_manager_broadcast_status_dsme(q)
  BY DEF thermal_manager_broadcast_status
<1>2. st \subseteq Status \ {INVALID} /\ NORMAL \in st
  BY SysFields, ObjectFields, Numbers
<1>3. Overheated(s) <=> FATAL \in st
  BY Numbers DEF Overheated
<1>4. w = Worst(st \ {INVALID})
  OBVIOUS
<1> HIDE DEF st
<1>5. st \ {INVALID} = st
  BY <1>2
<1>6. w \in Status \ {INVALID} /\ (w = FATAL <=> Overheated(s))
  BY <1>2, <1>3, <1>4, <1>5, WorstFacts
<1> HIDE DEF w
<1>7. /\ curr \in {"LOWTEMP", "NORMAL", "OVERHEATED"}
      /\ curr = "OVERHEATED" <=> w = FATAL
  BY <1>6 DEF LOW, FATAL
<1>8. /\ q \in SysType /\ q.obj = s.obj /\ q.hw = s.hw /\ q.current_status = w
      /\ q.prev = s.prev /\ q.flag = s.flag
  BY <1>6 DEF SysType
<1>9. r = [q EXCEPT !.prev = curr, !.flag = fl]
  BY <1>1, <1>8 DEF thermal_manager_broadcast_status_dsme
<1>10. fl \in BOOLEAN
  OBVIOUS
<1>11. fl <=> (s.flag \/ (curr # s.prev /\ curr = "OVERHEATED"))
  OBVIOUS
<1> HIDE DEF q, curr, fl
<1>12. /\ r \in SysType /\ r.obj = q.obj /\ r.hw = q.hw
       /\ r.current_status = q.current_status /\ r.prev = curr /\ r.flag = fl
  BY <1>7, <1>8, <1>9, <1>10 DEF SysType
<1>13. Reported(r)
  <2>1. Overheated(r) <=> Overheated(s)
    BY <1>8, <1>12 DEF Overheated
  <2> QED
    BY <1>6, <1>7, <1>8, <1>12, <2>1 DEF Reported
<1>14. Flagged(r)
  <2>1. CASE curr = s.prev
    BY <1>11, <1>12, <2>1 DEF Flagged
  <2>2. CASE curr # s.prev
    BY <1>11, <1>12, <2>2 DEF Flagged
  <2> QED
    BY <2>1, <2>2
<1> QED
  BY <1>8, <1>12, <1>13, <1>14

\* thermal_manager_schedule_object_poll(): within the longest delay, and soon while
\* a status changes.
LEMMA Schedule ==
  ASSUME NEW s \in SysType, NEW o \in Objects, NEW r,
         r = thermal_manager_schedule_object_poll(s, o),
         thermal_sensor_generic_is_valid(o)
  PROVE  \E w \in {"transition", "level"}, t \in Nat :
           /\ Changed(s, r, o, Booked(s.obj[o], w, t), s.hw[o])
           /\ t <= LongestPoll
           /\ s.obj[o].change # NotChanging => t = TransitionPoll
<1> DEFINE changing == s.obj[o].change # NotChanging
           st == SensorStatus(s, o)
           lw == Sensors[o].level[st].maxwait
           maxtime == IF changing THEN POLL_DELAY_TRANSITION_MAXIMUM ELSE lw
           w == IF changing THEN "transition" ELSE "level"
           t == maxtime \div UNIT
           x == [s.obj[o] EXCEPT !.wait = w, !.left = t]
<1>1. s.obj[o] \in ObjectType /\ s.obj[o].sg_temp \in Int
  BY SysFields, ObjectFields
<1>2. st \in Status
  BY <1>1, LevelType DEF SensorStatus
<1>3. r = [s EXCEPT !.obj[o].wait = w, !.obj[o].left = t]
  BY DEF thermal_manager_schedule_object_poll, thermal_sensor_generic_get_poll_delay
<1> HIDE DEF st
<1>4. lw \in Nat /\ lw \div UNIT <= LongestPoll
  <2>1. lw \div UNIT <= LongestPoll
    BY <1>2, LongestPollBounds
  <2>2. lw \in Int
    BY <1>2, ConfigurationRead DEF SensorType
  <2>3. lw >= 5
    BY <1>2 DEF thermal_sensor_generic_is_valid
  <2> HIDE DEF lw
  <2> QED
    BY <2>1, <2>2, <2>3
<1> HIDE DEF lw
<1>5. /\ t \in Nat /\ t <= LongestPoll
      /\ changing => t = TransitionPoll
  <2>1. \A a \in Nat, b \in Nat \ {0} : a \div b \in Nat
    OBVIOUS
  <2>2. maxtime \in Nat
    BY <1>4, ThermalAssumption
  <2>3. t \in Nat
    <3> HIDE DEF maxtime
    <3> QED
      BY <2>1, <2>2, ThermalAssumption
  <2>4. CASE changing
    <3>1. t = TransitionPoll
      BY <2>4 DEF TransitionPoll
    <3> HIDE DEF t
    <3> QED
      BY <2>3, <3>1, Numbers
  <2>5. CASE ~changing
    <3>1. t = lw \div UNIT
      BY <2>5
    <3> HIDE DEF t
    <3> QED
      BY <1>4, <2>3, <2>5, <3>1
  <2> HIDE DEF t
  <2> QED
    BY <2>3, <2>4, <2>5
<1>6. w \in {"transition", "level"}
  OBVIOUS
<1> HIDE DEF t, w
<1>7. x \in ObjectType
  BY <1>1, <1>5, <1>6 DEF ObjectType
<1>8. r = [s EXCEPT !.obj[o] = x]
  BY <1>3 DEF SysType
<1>9. x = Booked(s.obj[o], w, t)
  BY DEF Booked
<1> HIDE DEF x
<1>10. Changed(s, r, o, x, s.hw[o])
  BY <1>7, <1>8, SetObject
<1> QED
  BY <1>5, <1>6, <1>9, <1>10

\* The object o has been read and its next poll is booked.
Polled(s, o, r) ==
  /\ r \in SysType /\ r.hw = s.hw
  /\ \A p \in Objects \ {o} : r.obj[p] = s.obj[p]
  /\ Flagged(r) /\ Reported(r)
  /\ ObjBase(o, r.obj[o], r.hw[o])
  /\ r.obj[o].registered /\ ~r.obj[o].pending /\ r.obj[o].wait # "none"
  /\ r.obj[o].notify_id = s.obj[o].notify_id
  /\ r.obj[o].curr = s.obj[o].curr

\* thermal_manager_handle_object_update(): what was told is the worst status, and
\* the object that was read is in order.
LEMMA ObjectUpdate ==
  ASSUME NEW s \in SysType, NEW o \in Objects, NEW r,
         r = thermal_manager_handle_object_update(s, o), Flagged(s),
         Judged(o, s.obj[o], s.hw[o])
  PROVE  Polled(s, o, r)
<1> DEFINE ob == s.obj[o]
<1>0. ob = s.obj[o] /\ Judged(o, ob, s.hw[o])
  OBVIOUS
<1> HIDE DEF ob
<1> DEFINE q == thermal_manager_broadcast_status(s)
<1>1. r = thermal_manager_schedule_object_poll(q, o)
  BY <1>0 DEF thermal_manager_handle_object_update, Judged
<1>2. /\ q \in SysType /\ q.obj = s.obj /\ q.hw = s.hw
      /\ Flagged(q) /\ Reported(q)
  BY Broadcast
<1> HIDE DEF q
<1>3. PICK w \in {"transition", "level"}, t \in Nat :
           /\ Changed(q, r, o, Booked(q.obj[o], w, t), q.hw[o])
           /\ t <= LongestPoll
           /\ q.obj[o].change # NotChanging => t = TransitionPoll
  BY <1>0, <1>1, <1>2, Schedule DEF Judged
<1> DEFINE x == Booked(ob, w, t)
<1>4. ob \in ObjectType
  BY <1>0, SysFields
<1>5. Changed(q, r, o, x, q.hw[o])
  BY <1>0, <1>2, <1>3
<1>6. /\ x = Booked(ob, w, t)
      /\ t <= LongestPoll
      /\ ob.change # NotChanging => t = TransitionPoll
  BY <1>0, <1>2, <1>3
<1> HIDE DEF x
<1>7. /\ x \in ObjectType
      /\ ObjBase(o, x, s.hw[o])
      /\ x.registered /\ ~x.pending /\ x.wait # "none"
      /\ x.notify_id = ob.notify_id /\ x.curr = ob.curr /\ x.seen = ob.seen
  BY ONLY <1>0, <1>4, <1>6, ScheduleOK, o \in Objects,
          w \in {"transition", "level"}, t \in Nat
<1>8. r \in SysType /\ r.hw = s.hw
  BY <1>2, <1>5 DEF Changed, SysType
<1>9. /\ r.obj[o] = x
      /\ \A p \in Objects \ {o} : r.obj[p] = s.obj[p]
      /\ SameReport(q, r)
  BY <1>2, <1>5 DEF Changed
<1>10. Flagged(r) /\ Reported(r)
  <2>1. Overheated(r) <=> Overheated(q)
    BY <1>0, <1>2, <1>7, <1>9 DEF Overheated, Judged
  <2> QED
    BY <1>2, <1>9, <2>1 DEF Flagged, Reported, SameReport
<1> QED
  BY <1>0, <1>7, <1>8, <1>9, <1>10 DEF Polled

\* The meta sensors that thermal_manager_handle_sensor_update() has evaluated.
Todo(s, o) ==
  {m \in Objects : /\ s.obj[m].registered /\ s.obj[m].pending
                   /\ o \in Sensors[m].depends_on
                   /\ ~thermal_manager_have_pending_sensor_update(s, m)}

\* Each of them has its answer on its way, or its request is forgotten.
LEMMA SensorUpdate ==
  ASSUME NEW s \in SysType, NEW o \in Objects, NEW r,
         r = thermal_manager_handle_sensor_update(s, o),
         \A p \in Objects : ObjBase(p, s.obj[p], s.hw[p])
  PROVE  /\ r \in SysType /\ r.hw = s.hw /\ SameReport(s, r)
         /\ \A m \in Objects \ Todo(s, o) : r.obj[m] = s.obj[m]
         /\ \A m \in Todo(s, o) :
              /\ ObjBase(m, r.obj[m], r.hw[m]) /\ IsMeta(m)
              /\ r.obj[m].registered
              /\ \/ r.obj[m].pending /\ r.obj[m].notify_id
                 \/ r.obj[m].dropped
              /\ r.obj[m].curr = s.obj[m].curr /\ r.obj[m].seen = s.obj[m].seen
<1> DEFINE Evaluated(ob) == IF ob.sg_temp # NoTemp THEN ob ELSE Cancelled(ob)
           read(m) == thermal_sensor_generic_read_sensor_cb(s, m, TRUE)
           e(m) == Evaluated(read(m).obj[m])
           f == [m \in Objects |-> IF m \in Todo(s, o) THEN e(m) ELSE s.obj[m]]
<1>1. r = [s EXCEPT !.obj = f]
  BY DEF thermal_manager_handle_sensor_update, Todo, Cancelled
<1>2. ASSUME NEW m \in Todo(s, o)
      PROVE  /\ e(m) \in ObjectType
             /\ ObjBase(m, e(m), s.hw[m]) /\ IsMeta(m)
             /\ e(m).registered
             /\ (e(m).pending /\ e(m).notify_id) \/ e(m).dropped
             /\ e(m).curr = s.obj[m].curr /\ e(m).seen = s.obj[m].seen
  <2> DEFINE q == read(m)
             ob == s.obj[m]
             y == q.obj[m]
  <2>1. m \in Objects /\ IsMeta(m) /\ ob.registered /\ ob.pending
    BY DEF Todo, IsMeta
  <2>2. ob \in ObjectType /\ ObjBase(m, ob, s.hw[m])
    BY <2>1, SysFields
  <2>3. q = thermal_sensor_generic_read_sensor_cb(s, m, TRUE)
    OBVIOUS
  <2>4. e(m) = IF y.sg_temp # NoTemp THEN y ELSE Cancelled(y)
    OBVIOUS
  <2> HIDE DEF q, read
  <2>5. PICK t \in Int, h \in HwType :
          Changed(s, q, m, Answered(s.obj[m], t, s.obj[m].notify_id \/ t # NoTemp), h)
    BY <2>1, <2>3, ReadSensorCb
  <2> DEFINE n == ob.notify_id \/ t # NoTemp
             z == e(m)
  <2>6. y = Answered(ob, t, n)
    BY <2>5 DEF Changed
  <2>7. n \in BOOLEAN /\ (t # NoTemp => n = TRUE)
    OBVIOUS
  <2>8. z = IF y.sg_temp # NoTemp THEN y ELSE Cancelled(y)
    BY <2>4
  <2> HIDE DEF ob, y, n, z, e
  <2>9. /\ y \in ObjectType /\ ObjBase(m, y, s.hw[m])
        /\ y.registered /\ y.sg_temp = t /\ y.notify_id = n
        /\ y.pending = ob.pending /\ y.curr = ob.curr /\ y.seen = ob.seen
    <3> DEFINE h0 == s.hw[m]
    <3>1. /\ ObjBase(m, ob, h0)
          /\ ob.hot > 0 => h0 = h0
          /\ ~IsMeta(m) => t = FileTemp(h0, m)
          /\ h0 \in HwType
      BY <2>1, <2>2, SysFields
    <3> HIDE DEF h0
    <3>2. ObjBase(m, y, h0)
      BY ONLY <2>1, <2>2, <2>6, <2>7, <3>1, t \in Int, ReadOK
    <3>3. /\ y \in ObjectType
          /\ y.registered /\ y.sg_temp = t /\ y.notify_id = n
          /\ y.pending = ob.pending /\ y.curr = ob.curr /\ y.seen = ob.seen
      BY <2>1, <2>2, <2>6, <2>7, t \in Int DEF Answered, ObjectType
    <3> QED
      BY <3>2, <3>3 DEF h0
  <2>10. CASE t # NoTemp
    <3>1. z = y
      BY <2>8, <2>9, <2>10
    <3> QED
      BY <2>1, <2>7, <2>9, <2>10, <3>1 DEF z, ob
  <2>11. CASE t = NoTemp
    <3>1. z = Cancelled(y)
      BY <2>8, <2>9, <2>11
    <3>2. /\ z \in ObjectType /\ ObjBase(m, z, s.hw[m])
          /\ z.registered /\ z.dropped
          /\ z.curr = y.curr /\ z.seen = y.seen
      BY ONLY <2>1, <2>9, <3>1, CancelOK
    <3> QED
      BY <2>1, <2>9, <3>2 DEF z, ob
  <2> QED
    BY <2>10, <2>11
<1> HIDE DEF e
<1>3. f \in [Objects -> ObjectType]
  BY <1>2, SysFields
<1>4. /\ \A m \in Objects \ Todo(s, o) : f[m] = s.obj[m]
      /\ \A m \in Todo(s, o) : f[m] = e(m)
  BY DEF Todo
<1> HIDE DEF f
<1>5. r \in SysType /\ r.hw = s.hw /\ SameReport(s, r) /\ r.obj = f
  BY <1>1, <1>3 DEF SysType, SameReport
<1> QED
  BY <1>2, <1>4, <1>5

\* No object comes or goes, and no status is taken over that may be a glitch.
Kept(s, r) == \A p \in Objects : r.obj[p].registered <=> s.obj[p].registered
Calm(s, r) == \A p \in Objects : Believed(s.obj[p], r.obj[p])

\* An object that was asked for is polled again some time, or waits for others.
Waiting(s, p) ==
  s.obj[p].registered => s.obj[p].wait # "none" \/ s.obj[p].pending \/ s.obj[p].dropped

\* The first half of thermal_object_handle_update(): the object that was read.
Outcome(ob, st) ==
  IF st # INVALID /\ ob.sg_temp \in IGNORE_TEMP_BELOW .. IGNORE_TEMP_ABOVE
  THEN Believe(Note(ob, st), st) ELSE ob

\* thermal_object_handle_update(): what the reading makes of the object.
LEMMA Reading ==
  ASSUME NEW s \in SysType, NEW o \in Objects,
         s.obj[o].registered, s.obj[o].pending, ObjBase(o, s.obj[o], s.hw[o]),
         NEW x, x = Outcome(Requested(s.obj[o], FALSE), SensorStatus(s, o))
  PROVE  /\ x \in ObjectType
         /\ Judged(o, x, s.hw[o])
         /\ Believed(s.obj[o], x)
         /\ x.notify_id = s.obj[o].notify_id
<1> DEFINE ob == Requested(s.obj[o], FALSE)
           st == SensorStatus(s, o)
<1>0. ob = Requested(s.obj[o], FALSE) /\ st = SensorStatus(s, o) /\ x = Outcome(ob, st)
  OBVIOUS
<1> HIDE DEF ob, st
<1>1. s.obj[o] \in ObjectType
  BY SysFields
<1>2. ob \in ObjectType /\ ObjBase(o, ob, s.hw[o])
  <2> DEFINE ob0 == s.obj[o]
  <2>1. /\ ob \in ObjectType
        /\ ob.registered = ob0.registered /\ ~ob.pending
        /\ ob.sg_temp = ob0.sg_temp /\ ob.notify_id = ob0.notify_id
        /\ ob.curr = ob0.curr /\ ob.next = ob0.next /\ ob.change = ob0.change
        /\ ob.seen = ob0.seen /\ ob.wait = ob0.wait /\ ob.left = ob0.left
        /\ ob.hot = ob0.hot /\ ob.dropped = ob0.dropped
    BY <1>0, <1>1 DEF Requested, ObjectType
  <2>2. ObjBase(o, ob0, s.hw[o]) /\ ob0.registered
    OBVIOUS
  <2> HIDE DEF ob0
  <2>3. ObjBase(o, ob, s.hw[o])
    BY <2>1, <2>2 DEF ObjBase, Shape, Followed, HotFile, HotReading, Due
  <2> QED
    BY <2>1, <2>3
<1>3. /\ ob.registered /\ ~ob.pending
      /\ ob.sg_temp = s.obj[o].sg_temp /\ ob.notify_id = s.obj[o].notify_id
      /\ ob.curr = s.obj[o].curr /\ ob.seen = s.obj[o].seen
      /\ ob.hot = s.obj[o].hot /\ ob.dropped = s.obj[o].dropped
  BY <1>0, <1>1 DEF Requested, ObjectType
<1>4. st \in Status /\ st = LevelOf(o, ob.sg_temp)
  <2>1. st = LevelOf(o, ob.sg_temp)
    BY <1>0, <1>3 DEF SensorStatus
  <2> QED
    BY <1>2, <2>1, ObjectFields, LevelType
<1>5. ob.hot > 0 => /\ st = FATAL /\ st # INVALID
                    /\ ob.sg_temp \in IGNORE_TEMP_BELOW .. IGNORE_TEMP_ABOVE
  <2> SUFFICES ASSUME ob.hot > 0
               PROVE  FatalTemp(o, ob.sg_temp)
    BY <1>4, NoTempFacts DEF FatalTemp
  <2> QED
    BY <1>3 DEF ObjBase, HotFile, HotReading
<1>6. /\ Followed(ob) /\ Due(ob) /\ HotFile(o, ob, s.hw[o])
      /\ thermal_sensor_generic_is_valid(o)
      /\ ob.dropped => IsMeta(o)
  BY <1>2, <1>3 DEF ObjBase, Shape
<1>7. CASE st # INVALID /\ ob.sg_temp \in IGNORE_TEMP_BELOW .. IGNORE_TEMP_ABOVE
  <2>1. x = Believe(Note(ob, st), st) /\ st \in Status \ {INVALID}
    BY <1>0, <1>4, <1>7 DEF Outcome
  <2>2. ob.hot > 0 => st = FATAL
    BY <1>5
  <2>3. /\ x \in ObjectType
        /\ Followed(x) /\ Watched(x)
        /\ x.curr # ob.curr => /\ ob.seen.status = x.curr
                               /\ ob.seen.age > TRANSITION_DELAY
        /\ x.registered /\ x.pending = ob.pending
        /\ x.sg_temp = ob.sg_temp /\ x.notify_id = ob.notify_id
        /\ x.wait = ob.wait /\ x.left = ob.left
        /\ x.hot = ob.hot /\ x.dropped = ob.dropped
    BY ONLY <1>2, <1>3, <1>6, <2>1, <2>2, BelieveFacts
  <2>4. HotFile(o, x, s.hw[o])
    BY <1>6, <2>3 DEF HotFile
  <2> QED
    BY <1>3, <1>6, <2>3, <2>4 DEF Judged, Believed
<1>8. CASE ~(st # INVALID /\ ob.sg_temp \in IGNORE_TEMP_BELOW .. IGNORE_TEMP_ABOVE)
  <2>1. x = ob /\ ~(ob.hot > 0)
    BY <1>0, <1>5, <1>8 DEF Outcome
  <2>2. Watched(x)
    BY <2>1 DEF Watched
  <2> QED
    BY <1>2, <1>3, <1>6, <2>1, <2>2 DEF Judged, Believed
<1> QED
  BY <1>7, <1>8

\* thermal_object_handle_update() of a request: all is in order after it, the
\* objects that depend on o included.
LEMMA HandleUpdate ==
  ASSUME NEW s \in SysType, NEW o \in Objects, NEW r,
         r = thermal_object_handle_update(s, o),
         s.obj[o].registered, s.obj[o].pending,
         ~IsMeta(o) => ~s.obj[o].notify_id,
         \A p \in Objects : ObjBase(p, s.obj[p], s.hw[p]),
         \A p \in Objects \ {o} : Asked(p, s.obj[p]) /\ Waiting(s, p),
         \A p \in Objects \ {o} : o \notin Sensors[p].depends_on => Alive(s, p),
         Flagged(s)
  PROVE  SysOK(r) /\ Kept(s, r) /\ Calm(s, r)
<1> DEFINE ob == Requested(s.obj[o], FALSE)
           st == SensorStatus(s, o)
           x == Outcome(ob, st)
           s1 == [s EXCEPT !.obj[o] = x]
           q == thermal_manager_handle_object_update(s1, o)
<1>1. r = thermal_manager_handle_sensor_update(q, o)
  BY DEF thermal_object_handle_update, Requested, Outcome
<1>2. /\ ob = Requested(s.obj[o], FALSE)
      /\ st = SensorStatus(s, o)
      /\ x = Outcome(ob, st)
      /\ s1 = [s EXCEPT !.obj[o] = x]
      /\ q = thermal_manager_handle_object_update(s1, o)
  OBVIOUS
<1> HIDE DEF ob, st, x, s1, q
<1>3. /\ x \in ObjectType
      /\ Judged(o, x, s.hw[o])
      /\ Believed(s.obj[o], x)
      /\ x.notify_id = s.obj[o].notify_id
  <2>1. ObjBase(o, s.obj[o], s.hw[o])
    OBVIOUS
  <2>2. x = Outcome(Requested(s.obj[o], FALSE), SensorStatus(s, o))
    BY <1>2
  <2> QED
    BY ONLY <2>1, <2>2, Reading, s \in SysType, o \in Objects,
            s.obj[o].registered, s.obj[o].pending
<1>4. Changed(s, s1, o, x, s.hw[o])
  BY <1>2, <1>3, SetObject
<1>5. /\ s1 \in SysType /\ s1.hw = s.hw /\ s1.obj[o] = x
      /\ \A p \in Objects \ {o} : s1.obj[p] = s.obj[p]
      /\ Flagged(s1)
  BY <1>2, <1>4 DEF Changed, SameReport, Flagged, SysType
<1>6. /\ q \in SysType /\ q.hw = s.hw
      /\ \A p \in Objects \ {o} : q.obj[p] = s.obj[p]
      /\ Flagged(q) /\ Reported(q)
      /\ ObjBase(o, q.obj[o], q.hw[o])
      /\ q.obj[o].registered /\ ~q.obj[o].pending /\ q.obj[o].wait # "none"
      /\ q.obj[o].notify_id = x.notify_id
      /\ q.obj[o].curr = x.curr
  <2>1. Polled(s1, o, q)
    BY ONLY <1>2, <1>3, <1>5, ObjectUpdate, o \in Objects
  <2> QED
    BY ONLY <1>5, <2>1 DEF Polled
<1>7. \A p \in Objects : ObjBase(p, q.obj[p], q.hw[p])
  BY <1>6
<1>8. /\ r \in SysType /\ r.hw = q.hw /\ SameReport(q, r)
      /\ \A m \in Objects \ Todo(q, o) : r.obj[m] = q.obj[m]
      /\ \A m \in Todo(q, o) :
           /\ ObjBase(m, r.obj[m], r.hw[m]) /\ IsMeta(m)
           /\ r.obj[m].registered
           /\ (r.obj[m].pending /\ r.obj[m].notify_id) \/ r.obj[m].dropped
           /\ r.obj[m].curr = q.obj[m].curr /\ r.obj[m].seen = q.obj[m].seen
  BY ONLY <1>1, <1>6, <1>7, SensorUpdate, o \in Objects
<1>9. o \notin Todo(q, o) /\ Todo(q, o) \subseteq Objects
  BY <1>6 DEF Todo
<1>10. ASSUME NEW p \in Objects
       PROVE  ObjOK(r, p)
  <2>1. ObjBase(p, r.obj[p], r.hw[p])
    BY <1>7, <1>8
  <2>2. Asked(p, r.obj[p])
    BY <1>3, <1>6, <1>8, <1>9 DEF Asked
  <2> QED
    BY <2>1, <2>2 DEF ObjOK
<1>11. ASSUME NEW p \in Objects, ~IsMeta(p), p # o
       PROVE  r.obj[p] = s.obj[p]
  BY <1>6, <1>8, <1>11
<1>12. ASSUME NEW p \in Objects
       PROVE  Alive(r, p)
  <2>1. CASE p = o
    BY <1>6, <1>8, <1>9, <2>1 DEF Alive
  <2>2. CASE p \in Todo(q, o)
    BY <1>8, <2>2 DEF Alive, OnItsWay
  <2>3. CASE p # o /\ p \notin Todo(q, o)
    <3>1. r.obj[p] = s.obj[p] /\ q.obj[p] = s.obj[p]
      BY <1>6, <1>8, <2>3
    <3>2. CASE o \notin Sensors[p].depends_on
      <4>1. \A b \in Sensors[p].depends_on : r.obj[b] = s.obj[b]
        BY <1>11, <3>2, DependsFacts
      <4> QED
        BY <2>3, <3>1, <3>2, <4>1 DEF Alive, OnItsWay
    <3>3. CASE o \in Sensors[p].depends_on
      <4>1. CASE s.obj[p].registered /\ s.obj[p].pending
        <5>1. PICK b \in Sensors[p].depends_on : q.obj[b].pending
          BY <2>3, <3>1, <3>3, <4>1 DEF Todo, thermal_manager_have_pending_sensor_update
        <5>2. b \in Objects /\ ~IsMeta(b) /\ b # o
          BY <1>6, <5>1, DependsFacts
        <5>3. r.obj[b] = s.obj[b] /\ q.obj[b] = s.obj[b]
          BY <1>6, <1>11, <5>2
        <5>4. r.obj[b].notify_id /\ r.obj[b].pending
          BY <5>1, <5>2, <5>3 DEF Asked
        <5> QED
          BY <3>1, <4>1, <5>1, <5>4 DEF Alive, OnItsWay
      <4>2. CASE ~(s.obj[p].registered /\ s.obj[p].pending)
        BY <2>3, <3>1, <4>2 DEF Waiting, Alive
      <4> QED
        BY <4>1, <4>2
    <3> QED
      BY <3>2, <3>3
  <2> QED
    BY <2>1, <2>2, <2>3
<1>13. \A p \in Objects : r.obj[p].curr = q.obj[p].curr
                          /\ (r.obj[p].registered <=> q.obj[p].registered)
  <2> SUFFICES ASSUME NEW p \in Objects
               PROVE  /\ r.obj[p].curr = q.obj[p].curr
                      /\ r.obj[p].registered <=> q.obj[p].registered
    OBVIOUS
  <2>1. CASE p \in Todo(q, o)
    <3>1. q.obj[p].registered
      BY <2>1 DEF Todo
    <3> QED
      BY <1>8, <2>1, <3>1
  <2>2. CASE p \notin Todo(q, o)
    BY <1>8, <2>2
  <2> QED
    BY <2>1, <2>2
<1>14. Told(r, {})
  <2>1. Overheated(r) <=> Overheated(q)
    BY <1>13 DEF Overheated
  <2> QED
    BY <1>6, <1>8, <2>1 DEF Told, Reported, Flagged, SameReport
<1>15. Kept(s, r)
  BY <1>6, <1>13 DEF Kept
<1>16. Calm(s, r)
  <2> SUFFICES ASSUME NEW p \in Objects
               PROVE  Believed(s.obj[p], r.obj[p])
    BY DEF Calm
  <2>1. CASE p = o
    BY <1>3, <1>6, <1>13, <2>1 DEF Believed
  <2>2. CASE p # o
    BY <1>6, <1>13, <2>2 DEF Believed
  <2> QED
    BY <2>1, <2>2
<1> QED
  BY <1>8, <1>10, <1>12, <1>14, <1>15, <1>16 DEF SysOK

\* What concerns neither an object nor those it depends on does not concern it.
LEMMA AliveFrame ==
  ASSUME NEW s, NEW r, NEW p \in Objects, Alive(s, p), r.obj[p] = s.obj[p],
         \A b \in Sensors[p].depends_on : r.obj[b] = s.obj[b]
  PROVE  Alive(r, p)
BY DEF Alive, OnItsWay

\* Nor does a request that begins make what was told untrue.
LEMMA ToldFrame ==
  ASSUME NEW s, NEW r, NEW X, NEW Y, Told(s, X), SameReport(s, r),
         \A p \in Objects : /\ r.obj[p].registered <=> s.obj[p].registered
                            /\ r.obj[p].curr = s.obj[p].curr
                            /\ s.obj[p].pending => r.obj[p].pending,
         \A p \in X \cap Objects : p \in Y \/ r.obj[p].pending
  PROVE  Told(r, Y)
<1>1. Overheated(r) <=> Overheated(s)
  BY DEF Overheated
<1>2. Flagged(r)
  BY DEF Told, Flagged, SameReport
<1>3. Reported(s) => Reported(r)
  BY <1>1 DEF Reported, SameReport
<1>4. Fresh(s, X) => Fresh(r, Y)
  BY DEF Fresh
<1> QED
  BY <1>2, <1>3, <1>4 DEF Told

\* A sensor that is asked and read,
AskedAndRead(ob, t) ==
  Answered(Requested(ob, TRUE), t, Requested(ob, TRUE).notify_id \/ t # NoTemp)

\* is in order, and a file that is overheated gives a reading that is.
LEMMA AskedOK ==
  ASSUME NEW o \in Objects, NEW ob \in ObjectType, NEW h \in HwType, NEW k \in HwType,
         ob.registered, ~IsMeta(o), ObjBase(o, ob, h), Asked(o, ob), ~ob.pending,
         h.state = "ok" => k = h,
         NEW x, x = AskedAndRead(ob, FileTemp(k, o))
  PROVE  /\ x \in ObjectType /\ ObjBase(o, x, k)
         /\ x.registered /\ x.pending
         /\ x.notify_id <=> FileTemp(k, o) # NoTemp
         /\ x.sg_temp = FileTemp(k, o)
         /\ x.curr = ob.curr /\ x.seen = ob.seen
<1> DEFINE t == FileTemp(k, o)
           y == Requested(ob, TRUE)
           n == y.notify_id \/ t # NoTemp
<1>1. t \in Int
  BY FileTempType
<1>2. /\ y \in ObjectType
      /\ y.registered /\ y.pending
      /\ y.sg_temp = ob.sg_temp /\ y.notify_id = ob.notify_id
      /\ y.curr = ob.curr /\ y.next = ob.next /\ y.change = ob.change
      /\ y.seen = ob.seen /\ y.wait = ob.wait /\ y.left = ob.left
      /\ y.hot = ob.hot /\ y.dropped = ob.dropped
  BY DEF Requested, ObjectType
<1>3. x = Answered(y, t, n) /\ t = FileTemp(k, o)
  BY DEF AskedAndRead
<1>4. n \in BOOLEAN /\ (n <=> y.notify_id \/ t # NoTemp)
  OBVIOUS
<1> HIDE DEF t, y, n
<1>5. /\ x \in ObjectType
      /\ x.registered /\ x.pending
      /\ x.sg_temp = t /\ x.notify_id = n
      /\ x.curr = y.curr /\ x.next = y.next /\ x.change = y.change
      /\ x.seen = y.seen /\ x.wait = y.wait /\ x.left = y.left
      /\ x.hot = y.hot /\ x.dropped = y.dropped
  BY ONLY <1>1, <1>2, <1>3, <1>4 DEF Answered, ObjectType
<1>6. ~ob.notify_id
  BY DEF Asked
<1>7. ob.hot > 0 => FatalTemp(o, t)
  <2>1. h.state # "ok" => ~FatalTemp(o, FileTemp(h, o))
    BY NoTempFacts DEF FileTemp
  <2> QED
    BY <1>3, <2>1 DEF ObjBase, HotFile
<1>8. HotFile(o, x, k) /\ HotReading(o, x)
  BY <1>2, <1>3, <1>5, <1>7 DEF HotFile, HotReading
<1>9. Shape(o, x) /\ Followed(x) /\ Due(x)
  BY <1>2, <1>5 DEF ObjBase, Shape, Followed, Due
<1> QED
  BY <1>2, <1>3, <1>4, <1>5, <1>6, <1>8, <1>9 DEF ObjBase

\* thermal_object_request_update() of a sensor with a file, for itself or for the
\* meta sensors that wait for it.
LEMMA RequestSensorOK ==
  ASSUME NEW s \in SysType, NEW o \in Objects, NEW on \in BOOLEAN, NEW r,
         r = RequestSensor(s, o, on),
         s.obj[o].registered, ~IsMeta(o),
         \A p \in Objects : ObjOK(s, p),
         \A p \in Objects \ {o} : Waiting(s, p),
         \A p \in Objects \ {o} : o \notin Sensors[p].depends_on => Alive(s, p),
         Told(s, {o})
  PROVE  SysOK(r) /\ Kept(s, r) /\ Calm(s, r)
<1> DEFINE x0 == Requested(s.obj[o], TRUE)
           s1 == [s EXCEPT !.obj[o] = x0]
           q == thermal_sensor_generic_read_sensor_cb(s1, o, on)
<1>1. s.obj[o] \in ObjectType /\ s.hw[o] \in HwType
  BY SysFields
<1>2. CASE s.obj[o].pending
  <2>1. r = s
    BY <1>2 DEF RequestSensor
  <2>2. s.obj[o].notify_id
    BY <1>2 DEF ObjOK, Asked
  <2>3. ASSUME NEW p \in Objects
        PROVE  Alive(s, p)
    <3>1. CASE p = o
      BY <1>2, <2>2, <3>1 DEF Alive, OnItsWay
    <3>2. CASE p # o /\ o \in Sensors[p].depends_on
      BY <1>2, <2>2, <3>2 DEF Alive, OnItsWay, Waiting
    <3>3. CASE p # o /\ o \notin Sensors[p].depends_on
      BY <3>3
    <3> QED
      BY <3>1, <3>2, <3>3
  <2>4. Told(s, {})
    BY <1>2 DEF Told, Fresh
  <2>5. Kept(s, s) /\ Calm(s, s)
    BY DEF Kept, Calm, Believed
  <2> QED
    BY <2>1, <2>3, <2>4, <2>5 DEF SysOK
<1>3. CASE ~s.obj[o].pending
  <2>1. s1 = [s EXCEPT !.obj[o] = x0] /\ x0 = Requested(s.obj[o], TRUE)
    OBVIOUS
  <2>2. x0 \in ObjectType
    BY <1>1 DEF Requested, ObjectType
  <2>3. r = IF q.obj[o].sg_temp # NoTemp THEN q ELSE thermal_object_handle_update(q, o)
    BY <1>3 DEF RequestSensor, Requested
  <2>4. q = thermal_sensor_generic_read_sensor_cb(s1, o, on)
    OBVIOUS
  <2> HIDE DEF x0, s1, q
  <2>5. Changed(s, s1, o, x0, s.hw[o])
    BY <2>1, <2>2, SetObject
  <2>6. s1 \in SysType /\ s1.obj[o] = x0 /\ s1.hw[o] = s.hw[o]
    BY <2>5 DEF Changed
  <2>7. PICK t \in Int, k \in HwType :
           /\ Changed(s1, q, o, Answered(x0, t, x0.notify_id \/ t # NoTemp), k)
           /\ s.hw[o].state = "ok" => k = s.hw[o]
           /\ ~IsMeta(o) => t = FileTemp(k, o)
    BY <2>4, <2>6, ReadSensorCb
  <2> DEFINE x == q.obj[o]
  <2>8. /\ q \in SysType /\ q.hw[o] = k
        /\ \A p \in Objects \ {o} : q.obj[p] = s.obj[p] /\ q.hw[p] = s.hw[p]
        /\ SameReport(s, q)
        /\ x = Answered(x0, t, x0.notify_id \/ t # NoTemp)
    BY <2>5, <2>7 DEF Changed, SameReport
  <2> HIDE DEF x
  <2>9. /\ x \in ObjectType /\ ObjBase(o, x, k)
        /\ x.registered /\ x.pending
        /\ x.notify_id <=> FileTemp(k, o) # NoTemp
        /\ x.sg_temp = FileTemp(k, o)
        /\ x.curr = s.obj[o].curr /\ x.seen = s.obj[o].seen
    <3>1. ObjBase(o, s.obj[o], s.hw[o]) /\ Asked(o, s.obj[o])
      BY DEF ObjOK
    <3>2. x = AskedAndRead(s.obj[o], FileTemp(k, o))
      BY <2>1, <2>7, <2>8 DEF AskedAndRead
    <3> QED
      BY ONLY <1>1, <1>3, <2>7, <3>1, <3>2, AskedOK, o \in Objects,
              s.obj[o].registered, ~IsMeta(o)
  <2>10. x = q.obj[o]
    BY DEF x
  <2>11. /\ \A p \in Objects : ObjBase(p, q.obj[p], q.hw[p])
         /\ \A p \in Objects \ {o} : Asked(p, q.obj[p]) /\ Waiting(q, p)
    BY <2>8, <2>9, <2>10 DEF ObjOK, Waiting
  <2>12. \A p \in Objects \ {o} : o \notin Sensors[p].depends_on => Alive(q, p)
    <3> SUFFICES ASSUME NEW p \in Objects \ {o}, o \notin Sensors[p].depends_on
                 PROVE  Alive(q, p)
      OBVIOUS
    <3>1. \A b \in Sensors[p].depends_on : q.obj[b] = s.obj[b]
      BY <2>8, DependsFacts
    <3> QED
      BY <2>8, <3>1, AliveFrame
  <2>13. Kept(s, q) /\ \A p \in Objects : q.obj[p].curr = s.obj[p].curr /\ q.obj[p].seen = s.obj[p].seen
    BY <2>8, <2>9, <2>10 DEF Kept
  <2>14. Told(q, {})
    <3>1. \A p \in Objects : /\ q.obj[p].registered <=> s.obj[p].registered
                             /\ q.obj[p].curr = s.obj[p].curr
                             /\ s.obj[p].pending => q.obj[p].pending
      BY <2>8, <2>9, <2>10
    <3>2. \A p \in {o} \cap Objects : p \in {} \/ q.obj[p].pending
      BY <2>9, <2>10
    <3> QED
      BY ONLY <2>8, <3>1, <3>2, ToldFrame, Told(s, {o})
  <2>15. CASE x.sg_temp # NoTemp
    <3>1. r = q /\ x.notify_id
      BY <2>3, <2>9, <2>10, <2>15
    <3>2. ASSUME NEW p \in Objects
          PROVE  ObjOK(q, p) /\ Alive(q, p)
      <4>1. CASE p = o
        BY <2>9, <2>10, <2>11, <3>1, <4>1 DEF ObjOK, Asked, Alive, OnItsWay
      <4>2. CASE p # o /\ o \in Sensors[p].depends_on
        BY <2>9, <2>10, <2>11, <3>1, <4>2 DEF ObjOK, Waiting, Alive, OnItsWay
      <4>3. CASE p # o /\ o \notin Sensors[p].depends_on
        BY <2>11, <2>12, <4>3 DEF ObjOK
      <4> QED
        BY <4>1, <4>2, <4>3
    <3>3. Calm(s, q)
      BY <2>13 DEF Calm, Believed
    <3> QED
      BY <2>8, <2>13, <2>14, <3>1, <3>2, <3>3 DEF SysOK
  <2>16. CASE x.sg_temp = NoTemp
    <3>1. r = thermal_object_handle_update(q, o)
      BY <2>3, <2>10, <2>16
    <3>2. q.obj[o].registered /\ q.obj[o].pending /\ ~q.obj[o].notify_id
      BY <2>9, <2>10, <2>16
    <3>3. Flagged(q)
      BY <2>14 DEF Told
    <3>4. SysOK(r) /\ Kept(q, r) /\ Calm(q, r)
      BY ONLY <2>8, <2>11, <2>12, <3>1, <3>2, <3>3, HandleUpdate, o \in Objects
    <3>5. Calm(s, r)
      BY <2>13, <3>4 DEF Calm, Believed
    <3> QED
      BY <2>13, <3>4, <3>5 DEF Kept
  <2> QED
    BY <2>15, <2>16
<1> QED
  BY <1>2, <1>3

\* thermal_manager_request_sensor_update() asks a registered sensor that matches.
LEMMA FirstMatchFacts ==
  ASSUME NEW s, NEW m \in Objects, FirstMatch(s, m) # {}
  PROVE  \E c \in Sensors[m].depends_on :
           s.obj[c].registered /\ (CHOOSE b \in FirstMatch(s, m) : TRUE) = c
<1> DEFINE hits == {i \in DOMAIN Config : /\ Config[i] \in Sensors[m].depends_on
                                          /\ s.obj[Config[i]].registered}
<1>1. FirstMatch(s, m) = IF hits = {} THEN {} ELSE {Config[Min(hits)]}
  BY DEF FirstMatch
<1>2. hits # {}
  BY <1>1
<1>3. DOMAIN Config = 1 .. Len(Config) /\ Len(Config) \in Nat
  BY ConfigList
<1>4. hits \subseteq 1 .. Len(Config) /\ hits \subseteq Int
  BY <1>3
<1>5. \A i \in hits : Config[i] \in Sensors[m].depends_on /\ s.obj[Config[i]].registered
  OBVIOUS
<1> HIDE DEF hits
<1>6. IsFiniteSet(hits)
  BY <1>3, <1>4, FiniteSegment, FS_Subset
<1>7. Min(hits) \in hits
  BY <1>2, <1>4, <1>6, MinExists
<1>8. FirstMatch(s, m) = {Config[Min(hits)]}
  BY <1>1, <1>2
<1> QED
  BY <1>5, <1>7, <1>8

\* thermal_object_request_update()
LEMMA RequestUpdateOK ==
  ASSUME NEW s \in SysType, NEW o \in Objects, NEW on \in BOOLEAN, NEW r,
         r = thermal_object_request_update(s, o, on),
         s.obj[o].registered,
         IsMeta(o) => s.obj[o].wait = "none" /\ ~s.obj[o].pending,
         \A p \in Objects : ObjOK(s, p),
         \A p \in Objects \ {o} : Alive(s, p),
         Told(s, {o})
  PROVE  SysOK(r) /\ Kept(s, r) /\ Calm(s, r)
<1>1. s.obj[o] \in ObjectType /\ s.hw[o] \in HwType
  BY SysFields
<1>2. \A p \in Objects \ {o} : Waiting(s, p)
  BY DEF Alive, OnItsWay, Waiting
<1>3. CASE ~IsMeta(o)
  <2>1. r = RequestSensor(s, o, on)
    BY <1>3 DEF thermal_object_request_update
  <2>2. \A p \in Objects \ {o} : o \notin Sensors[p].depends_on => Alive(s, p)
    OBVIOUS
  <2>3. \A p \in Objects : ObjOK(s, p)
    OBVIOUS
  <2> QED
    BY ONLY <1>2, <1>3, <2>1, <2>2, <2>3, RequestSensorOK, s \in SysType, o \in Objects,
            on \in BOOLEAN, s.obj[o].registered, Told(s, {o})
<1>4. CASE IsMeta(o)
  <2> DEFINE x == Requested(s.obj[o], TRUE)
             s1 == [s EXCEPT !.obj[o] = x]
  <2>1. ~s.obj[o].pending /\ s.obj[o].wait = "none"
    BY <1>4
  <2>2. r = IF FirstMatch(s, o) = {} THEN thermal_object_handle_update(s1, o)
            ELSE RequestSensor(s1, CHOOSE b \in FirstMatch(s, o) : TRUE, on)
    BY <1>4, <2>1 DEF thermal_object_request_update, Requested
  <2>3. x = Requested(s.obj[o], TRUE) /\ s1 = [s EXCEPT !.obj[o] = x]
    OBVIOUS
  <2> HIDE DEF x, s1
  <2>4. /\ x \in ObjectType /\ ObjBase(o, x, s.hw[o])
        /\ x.registered /\ x.pending
        /\ x.curr = s.obj[o].curr /\ x.seen = s.obj[o].seen
    <3> DEFINE ob == s.obj[o]
    <3>1. /\ x \in ObjectType
          /\ x.registered = ob.registered /\ x.pending
          /\ x.sg_temp = ob.sg_temp /\ x.notify_id = ob.notify_id
          /\ x.curr = ob.curr /\ x.next = ob.next /\ x.change = ob.change
          /\ x.seen = ob.seen /\ x.wait = ob.wait /\ x.left = ob.left
          /\ x.hot = ob.hot /\ x.dropped = ob.dropped
      BY <1>1, <2>3 DEF Requested, ObjectType
    <3>2. ObjBase(o, ob, s.hw[o]) /\ ob.registered /\ ob.wait = "none"
      BY <2>1 DEF ObjOK
    <3> HIDE DEF ob
    <3>3. ObjBase(o, x, s.hw[o])
      BY <1>4, <3>1, <3>2 DEF ObjBase, Shape, Followed, HotFile, HotReading, Due
    <3> QED
      BY <3>1, <3>2, <3>3 DEF ob
  <2>5. Changed(s, s1, o, x, s.hw[o])
    BY <2>3, <2>4, SetObject
  <2>6. /\ s1 \in SysType /\ s1.obj[o] = x /\ s1.hw[o] = s.hw[o]
        /\ \A p \in Objects \ {o} : s1.obj[p] = s.obj[p] /\ s1.hw[p] = s.hw[p]
        /\ SameReport(s, s1)
    BY <2>5 DEF Changed
  <2>7. ASSUME NEW p \in Objects
        PROVE  ObjOK(s1, p)
    BY <1>4, <2>4, <2>6 DEF ObjOK, Asked
  <2>8. ASSUME NEW p \in Objects
        PROVE  Waiting(s1, p)
    BY <1>2, <2>4, <2>6 DEF Waiting
  <2>9. ASSUME NEW p \in Objects \ {o}
        PROVE  Alive(s1, p)
    <3>1. \A b \in Sensors[p].depends_on : s1.obj[b] = s.obj[b]
      BY <1>4, <2>6, DependsFacts
    <3> QED
      BY <2>6, <3>1, AliveFrame
  <2>10. /\ \A p \in Objects : /\ s1.obj[p].registered <=> s.obj[p].registered
                               /\ s1.obj[p].curr = s.obj[p].curr
                               /\ s1.obj[p].seen = s.obj[p].seen
         /\ \A p \in Objects : s.obj[p].pending => s1.obj[p].pending
    BY <2>4, <2>6
  <2>11. Told(s1, {})
    <3>1. \A p \in {o} \cap Objects : p \in {} \/ s1.obj[p].pending
      BY <2>4, <2>6
    <3>2. \A p \in Objects : /\ s1.obj[p].registered <=> s.obj[p].registered
                             /\ s1.obj[p].curr = s.obj[p].curr
                             /\ s.obj[p].pending => s1.obj[p].pending
      BY <2>10
    <3> QED
      BY ONLY <2>6, <3>1, <3>2, ToldFrame, Told(s, {o})
  <2>12. SysOK(r) /\ Kept(s1, r) /\ Calm(s1, r)
    <3>1. CASE FirstMatch(s, o) = {}
      <4>1. r = thermal_object_handle_update(s1, o)
        BY <2>2, <3>1
      <4>2. /\ s1.obj[o].registered /\ s1.obj[o].pending
            /\ ~IsMeta(o) => ~s1.obj[o].notify_id
            /\ Flagged(s1)
        BY <1>4, <2>4, <2>6, <2>11 DEF Told
      <4>3. /\ \A p \in Objects : ObjBase(p, s1.obj[p], s1.hw[p])
            /\ \A p \in Objects \ {o} : Asked(p, s1.obj[p]) /\ Waiting(s1, p)
            /\ \A p \in Objects \ {o} : o \notin Sensors[p].depends_on => Alive(s1, p)
        BY <2>7, <2>8, <2>9 DEF ObjOK
      <4> QED
        BY ONLY <2>6, <4>1, <4>2, <4>3, HandleUpdate, o \in Objects
    <3>2. CASE FirstMatch(s, o) # {}
      <4>1. PICK c \in Sensors[o].depends_on :
              s.obj[c].registered /\ (CHOOSE b \in FirstMatch(s, o) : TRUE) = c
        BY <3>2, FirstMatchFacts
      <4>2. r = RequestSensor(s1, c, on)
        BY <2>2, <3>2, <4>1
      <4>3. c \in Objects /\ ~IsMeta(c) /\ s1.obj[c].registered
        BY <2>10, <4>1, DependsFacts
      <4>4. /\ \A p \in Objects : ObjOK(s1, p)
            /\ \A p \in Objects \ {c} : Waiting(s1, p)
            /\ \A p \in Objects \ {c} : c \notin Sensors[p].depends_on => Alive(s1, p)
        BY <2>7, <2>8, <2>9, <4>1
      <4>5. Told(s1, {c})
        BY <2>11 DEF Told, Fresh
      <4> QED
        BY ONLY <2>6, <4>2, <4>3, <4>4, <4>5, RequestSensorOK, on \in BOOLEAN
    <3> QED
      BY <3>1, <3>2
  <2>13. Kept(s, r)
    BY <2>10, <2>12 DEF Kept
  <2>14. Calm(s, r)
    BY <2>10, <2>12 DEF Calm, Believed
  <2> QED
    BY <2>12, <2>13, <2>14
<1> QED
  BY <1>3, <1>4

\* One object of tsg_objects_register_all(): the new object is asked for its
\* temperature, and the others do not notice.
LEMMA RegisterOK ==
  ASSUME NEW s, SysOK(s), NEW o \in Objects, ~s.obj[o].registered, NEW usable,
         NEW r, r = Register(s, o, usable)
  PROVE  /\ SysOK(r)
         /\ \A p \in Objects \ {o} : r.obj[p].registered <=> s.obj[p].registered
<1>1. s \in SysType /\ Told(s, {})
  BY DEF SysOK
<1>2. s.obj[o] = Created /\ s.hw[o] \in HwType
  BY <1>1, SysFields DEF SysOK, ObjOK, ObjBase, Shape
<1>3. [s EXCEPT !.obj[o] = Created] = s
  BY <1>1, <1>2 DEF SysType
<1> DEFINE q == thermal_sensor_generic_read_sensor(s, o, TRUE)
           q2 == [q EXCEPT !.obj[o].registered = TRUE]
<1>4. CASE r = s
  BY <1>4
<1>5. CASE r # s
  <2>1. thermal_sensor_generic_is_valid(o) /\ r = thermal_object_request_update(q2, o, TRUE)
    BY <1>3, <1>5 DEF Register
  <2>2. q = thermal_sensor_generic_read_sensor(s, o, TRUE)
        /\ q2 = [q EXCEPT !.obj[o].registered = TRUE]
    OBVIOUS
  <2> HIDE DEF q, q2
  <2>3. PICK t \in Int, h \in HwType : Changed(s, q, o, [s.obj[o] EXCEPT !.sg_temp = t], h)
    BY <1>1, <2>2, ReadSensor
  <2> DEFINE y == [Created EXCEPT !.sg_temp = t]
             x == [y EXCEPT !.registered = TRUE]
  <2>4. /\ x \in ObjectType /\ y \in ObjectType
        /\ x.registered /\ ~x.pending /\ ~x.notify_id /\ ~x.dropped
        /\ x.wait = "none" /\ x.left = 0 /\ x.hot = 0
        /\ x.curr = NORMAL /\ x.next = NORMAL /\ x.change = NotChanging
    <3>1. Created \in ObjectType
      BY CreatedFacts
    <3>2. /\ y \in ObjectType
          /\ y.pending = Created.pending /\ y.notify_id = Created.notify_id
          /\ y.dropped = Created.dropped /\ y.wait = Created.wait
          /\ y.left = Created.left /\ y.hot = Created.hot
          /\ y.curr = Created.curr /\ y.next = Created.next /\ y.change = Created.change
      BY <3>1 DEF ObjectType
    <3> HIDE DEF y
    <3>3. /\ x \in ObjectType /\ x.registered
          /\ x.pending = y.pending /\ x.notify_id = y.notify_id
          /\ x.dropped = y.dropped /\ x.wait = y.wait
          /\ x.left = y.left /\ x.hot = y.hot
          /\ x.curr = y.curr /\ x.next = y.next /\ x.change = y.change
      BY <3>2 DEF ObjectType
    <3> HIDE DEF x
    <3> QED
      BY <3>2, <3>3, CreatedFacts
  <2>5. q \in SysType /\ q.obj[o] = y /\ Changed(s, q, o, y, h)
    BY <1>2, <2>3 DEF Changed
  <2>6. q2 = [q EXCEPT !.obj[o] = x]
    BY <2>2, <2>5 DEF SysType
  <2> HIDE DEF x, y
  <2>7. Changed(q, q2, o, x, q.hw[o])
    BY <2>4, <2>5, <2>6, SetObject
  <2>8. /\ q2 \in SysType /\ q2.obj[o] = x
        /\ \A p \in Objects \ {o} : q2.obj[p] = s.obj[p] /\ q2.hw[p] = s.hw[p]
        /\ SameReport(s, q2)
    BY <2>5, <2>7 DEF Changed, SameReport
  <2>9. ObjOK(q2, o)
    <3>1. Shape(o, x) /\ Followed(x) /\ HotReading(o, x)
      BY <2>1, <2>4, Numbers DEF Shape, Followed, HotReading
    <3>2. Due(x) /\ \A k : HotFile(o, x, k)
      BY <2>4, Numbers DEF Due, HotFile
    <3>3. Asked(o, x)
      BY <2>4 DEF Asked
    <3> QED
      BY <2>8, <3>1, <3>2, <3>3 DEF ObjOK, ObjBase
  <2>10. \A p \in Objects : ObjOK(q2, p)
    BY <2>8, <2>9 DEF SysOK, ObjOK
  <2>11. ASSUME NEW p \in Objects \ {o}
         PROVE  Alive(q2, p)
    <3>1. Alive(s, p) /\ q2.obj[p] = s.obj[p]
      BY <2>8 DEF SysOK
    <3>2. \A b \in Sensors[p].depends_on : s.obj[b].pending => q2.obj[b] = s.obj[b]
      BY <1>2, <2>8, CreatedFacts, DependsFacts
    <3> QED
      BY <3>1, <3>2 DEF Alive, OnItsWay
  <2>12. Told(q2, {o})
    <3>1. ~s.obj[o].registered /\ q2.obj[o].curr = NORMAL
      BY <2>4, <2>8
    <3>2. Overheated(q2) <=> Overheated(s)
      BY <2>8, <3>1, Numbers DEF Overheated
    <3>3. Flagged(q2)
      BY <1>1, <2>8 DEF Told, Flagged, SameReport
    <3>4. Reported(s) => Reported(q2)
      BY <2>8, <3>2 DEF Reported, SameReport
    <3>5. Fresh(s, {}) => Fresh(q2, {o})
      BY <2>8, <3>1 DEF Fresh
    <3> QED
      BY <1>1, <3>3, <3>4, <3>5 DEF Told
  <2>13. SysOK(r) /\ Kept(q2, r)
    <3>1. /\ q2.obj[o].registered
          /\ IsMeta(o) => q2.obj[o].wait = "none" /\ ~q2.obj[o].pending
          /\ TRUE \in BOOLEAN
      BY <2>4, <2>8
    <3>2. \A p \in Objects \ {o} : Alive(q2, p)
      BY <2>11
    <3>3. r = thermal_object_request_update(q2, o, TRUE)
      BY <2>1
    <3> QED
      BY ONLY <2>8, <2>10, <2>12, <3>1, <3>2, <3>3, RequestUpdateOK, o \in Objects
  <2> QED
    BY <2>8, <2>13 DEF Kept
<1> QED
  BY <1>4, <1>5
-----------------------------------------------------------------------------
(***************************************************************************)
(* tsg_objects_register_all().  RegisterAll() is a recursive function: that *)
(* there is one is proved before its values are.                           *)
(***************************************************************************)
\* Registering the first n objects.
Registering(g, n, s, usable) ==
  g = [i \in 0 .. n |-> IF i = 0 THEN s ELSE Register(g[i - 1], Config[i], usable)]

\* tsg_objects_register_all() registers the objects one by one.
LEMMA RegisterAllDef ==
  ASSUME NEW s, NEW usable
  PROVE  \E g : /\ Registering(g, Len(Config), s, usable)
                /\ RegisterAll(s, usable) = g[Len(Config)]
<1> DEFINE B == {n \in Nat : ~ \E g : Registering(g, n, s, usable)}
<1>1. 0 \notin B
  <2> DEFINE g == [i \in 0 .. 0 |-> s]
  <2>1. Registering(g, 0, s, usable)
    BY DEF Registering
  <2> QED
    BY <2>1
<1>2. ASSUME NEW n \in B
      PROVE  n - 1 \in B
  <2> SUFFICES ASSUME n - 1 \notin B
               PROVE  FALSE
    OBVIOUS
  <2>1. n \in Nat /\ n # 0 /\ n - 1 \in Nat
    BY <1>1
  <2>2. PICK g : Registering(g, n - 1, s, usable)
    BY <2>1
  <2> DEFINE h == [i \in 0 .. n |-> IF i = n THEN Register(g[n - 1], Config[n], usable)
                                              ELSE g[i]]
  <2>3. Registering(h, n, s, usable)
    <3>1. \A i \in 0 .. n - 1 :
            g[i] = IF i = 0 THEN s ELSE Register(g[i - 1], Config[i], usable)
      BY <2>2 DEF Registering
    <3>2. \A i \in 0 .. n - 1 : h[i] = g[i]
      BY <2>1
    <3>3. h[n] = Register(g[n - 1], Config[n], usable)
      BY <2>1
    <3>4. h = [i \in 0 .. n |-> h[i]]
      OBVIOUS
    <3> HIDE DEF h
    <3>5. \A i \in 0 .. n :
            h[i] = IF i = 0 THEN s ELSE Register(h[i - 1], Config[i], usable)
      <4> SUFFICES ASSUME NEW i \in 0 .. n
                   PROVE  h[i] = IF i = 0 THEN s ELSE Register(h[i - 1], Config[i], usable)
        OBVIOUS
      <4>1. CASE i = n
        <5>1. h[n - 1] = g[n - 1]
          BY <2>1, <3>2
        <5> QED
          BY <2>1, <3>3, <4>1, <5>1
      <4>2. CASE i # n /\ i = 0
        BY <2>1, <3>1, <3>2, <4>2
      <4>3. CASE i # n /\ i # 0
        <5>1. i \in 0 .. n - 1 /\ i - 1 \in 0 .. n - 1
          BY <2>1, <4>3
        <5> QED
          BY <3>1, <3>2, <4>3, <5>1
      <4> QED
        BY <4>1, <4>2, <4>3
    <3> QED
      BY <3>4, <3>5 DEF Registering
  <2> QED
    BY <2>3
<1>3. B = {}
  <2> HIDE DEF B
  <2>1. B \subseteq Nat
    BY DEF B
  <2> QED
    BY <1>1, <1>2, <2>1, Descent
<1>4. Len(Config) \in Nat
  BY ConfigList
<1>5. \E g : Registering(g, Len(Config), s, usable)
  BY <1>3, <1>4
<1> DEFINE c == CHOOSE g : Registering(g, Len(Config), s, usable)
<1>6. Registering(c, Len(Config), s, usable)
  BY <1>5
<1>7. RegisterAll(s, usable) = c[Len(Config)]
  BY DEF RegisterAll, Registering
<1> QED
  BY <1>6, <1>7

\* tsg_objects_register_all() from a state without objects.
LEMMA RegisterAllOK ==
  ASSUME NEW s, SysOK(s), \A o \in Objects : ~s.obj[o].registered, NEW usable,
         NEW r, r = RegisterAll(s, usable)
  PROVE  SysOK(r)
<1> DEFINE N == Len(Config)
<1>1. PICK g : Registering(g, N, s, usable) /\ r = g[N]
  BY RegisterAllDef
<1>2. /\ N \in Nat
      /\ \A i \in 1 .. N : Config[i] \in Objects
      /\ \A i, j \in 1 .. N : Config[i] = Config[j] => i = j
  BY ConfigList, ConfigurationRead DEF Objects, IsInjective
<1>3. \A i \in 0 .. N :
        g[i] = IF i = 0 THEN s ELSE Register(g[i - 1], Config[i], usable)
  BY <1>1 DEF Registering
<1> DEFINE Done(i) == /\ SysOK(g[i])
                      /\ \A j \in i + 1 .. N : ~g[i].obj[Config[j]].registered
           B == {i \in 0 .. N : ~Done(i)}
<1>4. Done(0)
  BY <1>2, <1>3
<1>5. ASSUME NEW i \in 0 .. N, i # 0, Done(i - 1)
      PROVE  Done(i)
  <2> DEFINE u == g[i - 1]
             o == Config[i]
  <2>1. i \in 1 .. N /\ i \in i - 1 + 1 .. N /\ o \in Objects
    BY <1>2, <1>5
  <2>2. SysOK(u) /\ ~u.obj[o].registered
    BY <1>5, <2>1
  <2>3. g[i] = Register(u, o, usable)
    BY <1>3, <1>5
  <2> HIDE DEF u, o
  <2>4. /\ SysOK(g[i])
        /\ \A p \in Objects \ {o} : g[i].obj[p].registered <=> u.obj[p].registered
    BY <2>1, <2>2, <2>3, RegisterOK
  <2>5. ASSUME NEW j \in i + 1 .. N
        PROVE  ~g[i].obj[Config[j]].registered
    <3>1. j \in 1 .. N /\ j # i /\ j \in i - 1 + 1 .. N
      BY <1>2, <2>1
    <3>2. Config[j] \in Objects \ {o}
      BY <1>2, <2>1, <3>1 DEF o
    <3>3. ~u.obj[Config[j]].registered
      BY <1>5, <3>1 DEF u
    <3> QED
      BY <2>4, <3>2, <3>3
  <2> QED
    BY <2>4, <2>5
<1>6. B = {}
  <2>1. B \subseteq Nat /\ 0 \notin B
    BY <1>2, <1>4
  <2>2. ASSUME NEW i \in B
        PROVE  i - 1 \in B
    <3>1. i \in 0 .. N /\ i # 0 /\ ~Done(i)
      BY <2>1
    <3>2. ~Done(i - 1) /\ i - 1 \in 0 .. N
      <4> HIDE DEF Done
      <4> QED
        BY <1>2, <1>5, <3>1
    <3> HIDE DEF Done
    <3> QED
      BY <3>2
  <2> HIDE DEF B
  <2> QED
    BY <2>1, <2>2, Descent
<1>7. Done(N)
  <2>1. N \in 0 .. N
    BY <1>2
  <2> HIDE DEF Done
  <2> QED
    BY <1>6, <2>1
<1> QED
  BY <1>1, <1>7
-----------------------------------------------------------------------------
(***************************************************************************)
(* The steps.                                                              *)
(***************************************************************************)
\* Forgetting an age that nobody asks for.
LEMMA BecomeOK ==
  ASSUME NEW s, SysOK(s), Become(s)
  PROVE  /\ SysOK(S')
         /\ \A o \in Objects : /\ obj'[o].registered <=> s.obj[o].registered
                               /\ obj'[o].curr = s.obj[o].curr
<1> DEFINE f == [o \in Objects |->
                   IF s.obj[o].seen.status = s.obj[o].curr
                   THEN [s.obj[o] EXCEPT !.seen.age = 0] ELSE s.obj[o]]
           r == S'
<1>1. /\ obj' = f /\ hw' = s.hw /\ current_status' = s.current_status
      /\ prev' = s.prev /\ flag' = s.flag
  BY DEF Become
<1>2. s \in SysType
  BY DEF SysOK
<1>3. ASSUME NEW o \in Objects
      PROVE  /\ f[o] \in ObjectType
             /\ f[o].registered = s.obj[o].registered /\ f[o].pending = s.obj[o].pending
             /\ f[o].sg_temp = s.obj[o].sg_temp /\ f[o].notify_id = s.obj[o].notify_id
             /\ f[o].curr = s.obj[o].curr /\ f[o].next = s.obj[o].next
             /\ f[o].change = s.obj[o].change
             /\ f[o].wait = s.obj[o].wait /\ f[o].left = s.obj[o].left
             /\ f[o].hot = s.obj[o].hot /\ f[o].dropped = s.obj[o].dropped
             /\ f[o].seen.status = s.obj[o].seen.status
             /\ s.obj[o].seen.status # s.obj[o].curr => f[o].seen = s.obj[o].seen
             /\ s.obj[o] = Created => f[o] = Created
  <2> DEFINE ob == s.obj[o]
             sn == [ob.seen EXCEPT !.age = 0]
             x == [ob EXCEPT !.seen = sn]
  <2>1. ob \in ObjectType
    BY <1>2, SysFields
  <2>2. f[o] = IF ob.seen.status = ob.curr THEN x ELSE ob
    BY <2>1 DEF ObjectType
  <2>3. /\ sn \in [status : Status, age : 0 .. TRANSITION_DELAY + 1]
        /\ sn.status = ob.seen.status
    <3> DEFINE seen == ob.seen
    <3>1. seen \in [status : Status, age : 0 .. TRANSITION_DELAY + 1]
      BY <2>1 DEF ObjectType
    <3>2. 0 \in 0 .. TRANSITION_DELAY + 1
      BY Numbers
    <3> HIDE DEF seen, ob
    <3>3. sn = [seen EXCEPT !.age = 0]
      BY DEF seen
    <3> HIDE DEF sn
    <3> QED
      BY <3>1, <3>2, <3>3 DEF seen
  <2>4. ob = Created => x = ob
    <3> SUFFICES ASSUME ob = Created
                 PROVE  x = ob
      OBVIOUS
    <3>1. Created.seen = [status |-> NORMAL, age |-> 0]
      BY DEF Created
    <3>2. sn = Created.seen
      BY <3>1
    <3> HIDE DEF sn
    <3>3. x = [Created EXCEPT !.seen = Created.seen]
      BY <3>2
    <3>4. [Created EXCEPT !.seen = Created.seen] = Created
      BY DEF Created
    <3> QED
      BY <3>3, <3>4
  <2> HIDE DEF sn
  <2>5. /\ x \in ObjectType
        /\ x.registered = ob.registered /\ x.pending = ob.pending
        /\ x.sg_temp = ob.sg_temp /\ x.notify_id = ob.notify_id
        /\ x.curr = ob.curr /\ x.next = ob.next /\ x.change = ob.change
        /\ x.wait = ob.wait /\ x.left = ob.left
        /\ x.hot = ob.hot /\ x.dropped = ob.dropped
        /\ x.seen.status = ob.seen.status
    BY <2>1, <2>3 DEF ObjectType
  <2> HIDE DEF x, f
  <2> QED
    BY <2>1, <2>2, <2>4, <2>5
<1>4. f \in [Objects -> ObjectType] /\ f = [o \in Objects |-> f[o]]
  BY <1>3
<1> HIDE DEF f
<1>5. r.obj = f /\ r.hw = s.hw /\ SameReport(s, r)
  BY <1>1 DEF S, SameReport
<1>6. r \in SysType
  <2>1. /\ s.hw \in [Objects -> HwType]
        /\ s.current_status \in Status \ {INVALID}
        /\ s.prev \in {"LOWTEMP", "NORMAL", "OVERHEATED"} /\ s.flag \in BOOLEAN
    BY <1>2 DEF SysType
  <2> QED
    BY <1>1, <1>4, <2>1 DEF S, SysType
<1> HIDE DEF r
<1>7. ASSUME NEW o \in Objects
      PROVE  ObjOK(r, o)
  <2> DEFINE ob == s.obj[o]
             x == f[o]
  <2>1. ObjBase(o, ob, s.hw[o]) /\ Asked(o, ob)
    BY DEF SysOK, ObjOK
  <2>2. /\ x.registered = ob.registered /\ x.pending = ob.pending
        /\ x.sg_temp = ob.sg_temp /\ x.notify_id = ob.notify_id
        /\ x.curr = ob.curr /\ x.next = ob.next /\ x.change = ob.change
        /\ x.wait = ob.wait /\ x.left = ob.left
        /\ x.hot = ob.hot /\ x.dropped = ob.dropped
        /\ x.seen.status = ob.seen.status
        /\ ob.seen.status # ob.curr => x.seen = ob.seen
        /\ ob = Created => x = Created
    BY <1>3
  <2> HIDE DEF x, ob
  <2>3. Shape(o, x)
    BY <2>1, <2>2 DEF ObjBase, Shape
  <2>4. Followed(x)
    BY <2>1, <2>2 DEF ObjBase, Followed
  <2>5. HotFile(o, x, s.hw[o]) /\ HotReading(o, x) /\ Due(x) /\ Asked(o, x)
    BY <2>1, <2>2 DEF ObjBase, HotFile, HotReading, Due, Asked
  <2> QED
    BY <1>5, <2>3, <2>4, <2>5 DEF ObjOK, ObjBase, x
<1>8. ASSUME NEW o \in Objects
      PROVE  Alive(r, o)
  <2>1. \A p \in Objects : /\ r.obj[p].registered = s.obj[p].registered
                           /\ r.obj[p].pending = s.obj[p].pending
                           /\ r.obj[p].notify_id = s.obj[p].notify_id
                           /\ r.obj[p].wait = s.obj[p].wait
                           /\ r.obj[p].dropped = s.obj[p].dropped
    BY <1>3, <1>5
  <2>2. Alive(s, o)
    BY DEF SysOK
  <2> QED
    BY <2>1, <2>2, DependsFacts DEF Alive, OnItsWay
<1>9. Told(r, {})
  <2>1. \A p \in Objects : /\ r.obj[p].registered <=> s.obj[p].registered
                           /\ r.obj[p].curr = s.obj[p].curr
                           /\ s.obj[p].pending => r.obj[p].pending
    BY <1>3, <1>5
  <2>2. Told(s, {}) /\ \A p \in {} \cap Objects : p \in {} \/ r.obj[p].pending
    BY DEF SysOK
  <2> QED
    BY ONLY <1>5, <2>1, <2>2, ToldFrame
<1>10. SysOK(r)
  BY <1>6, <1>7, <1>8, <1>9 DEF SysOK
<1> QED
  BY <1>1, <1>3, <1>10 DEF r

\* What a step that leaves the objects in place comes to.
GoodStep ==
  /\ SysOK(S')
  /\ \A o \in Objects : /\ obj'[o].registered <=> obj[o].registered
                        /\ Believed(obj[o], obj'[o])

\* So it is with a step that comes from an operator that is in order.
LEMMA BecomeGood ==
  ASSUME NEW s, NEW r, SysOK(r), Become(r), Kept(s, r), Calm(s, r),
         \A o \in Objects : /\ s.obj[o].registered <=> obj[o].registered
                            /\ s.obj[o].curr = obj[o].curr
                            /\ s.obj[o].seen = obj[o].seen
  PROVE  GoodStep
<1>1. /\ SysOK(S')
      /\ \A o \in Objects : /\ obj'[o].registered <=> r.obj[o].registered
                            /\ obj'[o].curr = r.obj[o].curr
  BY BecomeOK
<1> HIDE DEF S
<1> QED
  BY <1>1 DEF GoodStep, Kept, Calm, Believed

\* The state, as the operators take it.
LEMMA SFields == S.obj = obj /\ S.hw = hw
BY DEF S

\* DSM_MSGTYPE_WAKEUP
LEMMA WakeUpOK ==
  ASSUME SysOK(S), NEW o \in Objects, NEW on \in BOOLEAN, WAKEUP(o, on)
  PROVE  GoodStep
<1> DEFINE s == S
           ob == obj[o]
           x == Booked(ob, "none", 0)
           q == [s EXCEPT !.obj[o] = x]
           r == thermal_object_request_update(q, o, on)
<1>1. /\ s \in SysType /\ \A p \in Objects : ObjOK(s, p) /\ Alive(s, p)
      /\ Told(s, {})
  BY DEF SysOK
<1>2. \A p \in Objects : s.obj[p] = obj[p]
  BY SFields
<1>3. ob.wait # "none" /\ Become(r)
  <2> DEFINE d == [s EXCEPT !.obj[o].wait = "none", !.obj[o].left = 0]
             v == thermal_object_request_update(d, o, on)
  <2>1. ob.wait # "none" /\ Become(v)
    BY DEF WAKEUP
  <2>2. s \in SysType /\ s.obj[o] = ob
    BY <1>1, <1>2
  <2> HIDE DEF s, ob
  <2>3. d = q
    BY <2>2 DEF SysType, Booked
  <2> HIDE DEF d, q
  <2>4. v = r
    BY <2>3
  <2> HIDE DEF v, r
  <2> QED
    BY <2>1, <2>4
<1>4. /\ ob = s.obj[o] /\ x = Booked(ob, "none", 0) /\ q = [s EXCEPT !.obj[o] = x]
      /\ r = thermal_object_request_update(q, o, on)
  BY <1>2
<1> HIDE DEF s, ob, x, q, r
<1>5. ob \in ObjectType /\ ObjBase(o, ob, s.hw[o]) /\ Asked(o, ob)
  BY <1>1, <1>4, SysFields DEF ObjOK
<1>6. /\ x \in ObjectType
      /\ x.registered = ob.registered /\ x.pending = ob.pending
      /\ x.sg_temp = ob.sg_temp /\ x.notify_id = ob.notify_id
      /\ x.curr = ob.curr /\ x.next = ob.next /\ x.change = ob.change
      /\ x.seen = ob.seen /\ x.wait = "none" /\ x.left = 0
      /\ x.hot = ob.hot /\ x.dropped = ob.dropped
  BY <1>4, <1>5 DEF Booked, ObjectType
<1>7. ob.registered /\ (IsMeta(o) => ~ob.pending)
  BY <1>3, <1>5, CreatedFacts DEF ObjBase, Shape
<1>8. ObjBase(o, x, s.hw[o]) /\ Asked(o, x)
  <2>1. Shape(o, x) /\ Followed(x) /\ HotFile(o, x, s.hw[o]) /\ HotReading(o, x)
        /\ Asked(o, x)
    BY <1>5, <1>6, <1>7, Numbers
       DEF ObjBase, Shape, Followed, HotFile, HotReading, Asked
  <2>2. ob.hot \in Nat /\ ob.left \in Nat
    BY <1>5, ObjectFields, Numbers
  <2>3. Due(x)
    BY <1>5, <1>6, <2>2, Numbers DEF ObjBase, Due
  <2> QED
    BY <2>1, <2>3 DEF ObjBase
<1>9. Changed(s, q, o, x, s.hw[o])
  BY <1>1, <1>4, <1>6, SetObject
<1>10. /\ q \in SysType /\ q.obj[o] = x /\ q.hw[o] = s.hw[o]
       /\ \A p \in Objects \ {o} : q.obj[p] = s.obj[p] /\ q.hw[p] = s.hw[p]
       /\ SameReport(s, q)
  BY <1>9 DEF Changed
<1>11. \A p \in Objects : ObjOK(q, p)
  BY <1>1, <1>8, <1>10 DEF ObjOK
<1>12. \A p \in Objects : /\ q.obj[p].registered = s.obj[p].registered
                          /\ q.obj[p].curr = s.obj[p].curr
                          /\ q.obj[p].seen = s.obj[p].seen
                          /\ q.obj[p].pending = s.obj[p].pending
                          /\ q.obj[p].notify_id = s.obj[p].notify_id
  BY <1>4, <1>6, <1>10
<1>13. \A p \in Objects \ {o} : Alive(q, p)
  BY <1>1, <1>10, <1>12, DependsFacts DEF Alive, OnItsWay
<1>14. Told(q, {o})
  <2>1. \A p \in Objects : /\ q.obj[p].registered <=> s.obj[p].registered
                           /\ q.obj[p].curr = s.obj[p].curr
                           /\ s.obj[p].pending => q.obj[p].pending
    BY <1>12
  <2>2. \A p \in {} \cap Objects : p \in {o} \/ q.obj[p].pending
    OBVIOUS
  <2> QED
    BY ONLY <1>1, <1>10, <2>1, <2>2, ToldFrame
<1>15. SysOK(r) /\ Kept(q, r) /\ Calm(q, r)
  <2>1. /\ q.obj[o].registered
        /\ IsMeta(o) => q.obj[o].wait = "none" /\ ~q.obj[o].pending
    BY <1>6, <1>7, <1>10
  <2> QED
    BY ONLY <1>4, <1>10, <1>11, <1>13, <1>14, <2>1, RequestUpdateOK,
            o \in Objects, on \in BOOLEAN
<1>16. \A p \in Objects : /\ q.obj[p].registered <=> obj[p].registered
                          /\ q.obj[p].curr = obj[p].curr
                          /\ q.obj[p].seen = obj[p].seen
  BY <1>2, <1>12
<1> QED
  BY <1>3, <1>15, <1>16, BecomeGood

\* thermal_sensor_generic_sensor_notify_cb()
LEMMA NotifyOK ==
  ASSUME SysOK(S), NEW o \in Objects, thermal_sensor_generic_sensor_notify_cb(o)
  PROVE  GoodStep
<1> DEFINE s == S
           ob == obj[o]
           x == [ob EXCEPT !.notify_id = FALSE]
           q == [s EXCEPT !.obj[o] = x]
           r == thermal_object_handle_update(q, o)
<1>1. /\ s \in SysType /\ \A p \in Objects : ObjOK(s, p) /\ Alive(s, p)
      /\ Told(s, {})
  BY DEF SysOK
<1>2. \A p \in Objects : s.obj[p] = obj[p]
  BY SFields
<1>3. ob.notify_id /\ Become(r)
  <2> DEFINE d == [s EXCEPT !.obj[o].notify_id = FALSE]
             v == thermal_object_handle_update(d, o)
  <2>1. ob.notify_id /\ Become(v)
    BY DEF thermal_sensor_generic_sensor_notify_cb
  <2>2. s \in SysType /\ s.obj[o] = ob
    BY <1>1, <1>2
  <2> HIDE DEF s, ob
  <2>3. d = q
    BY <2>2 DEF SysType
  <2> HIDE DEF d, q
  <2>4. v = r
    BY <2>3
  <2> HIDE DEF v, r
  <2> QED
    BY <2>1, <2>4
<1>4. /\ ob = s.obj[o] /\ x = [ob EXCEPT !.notify_id = FALSE]
      /\ q = [s EXCEPT !.obj[o] = x]
      /\ r = thermal_object_handle_update(q, o)
  BY <1>2
<1> HIDE DEF s, ob, x, q, r
<1>5. ob \in ObjectType /\ ObjBase(o, ob, s.hw[o]) /\ Asked(o, ob)
  BY <1>1, <1>4, SysFields DEF ObjOK
<1>6. /\ x \in ObjectType
      /\ x.registered = ob.registered /\ x.pending = ob.pending
      /\ x.sg_temp = ob.sg_temp /\ ~x.notify_id
      /\ x.curr = ob.curr /\ x.next = ob.next /\ x.change = ob.change
      /\ x.seen = ob.seen /\ x.wait = ob.wait /\ x.left = ob.left
      /\ x.hot = ob.hot /\ x.dropped = ob.dropped
  BY <1>4, <1>5 DEF ObjectType
<1>7. ob.registered
  BY <1>3, <1>5, CreatedFacts DEF ObjBase, Shape
<1>8. ObjBase(o, x, s.hw[o])
  BY <1>5, <1>6, <1>7 DEF ObjBase, Shape, Followed, HotFile, HotReading, Due
<1>9. Changed(s, q, o, x, s.hw[o])
  BY <1>1, <1>4, <1>6, SetObject
<1>10. /\ q \in SysType /\ q.obj[o] = x /\ q.hw[o] = s.hw[o]
       /\ \A p \in Objects \ {o} : q.obj[p] = s.obj[p] /\ q.hw[p] = s.hw[p]
       /\ SameReport(s, q)
  BY <1>9 DEF Changed
<1>11. /\ \A p \in Objects : ObjBase(p, q.obj[p], q.hw[p])
       /\ \A p \in Objects \ {o} : Asked(p, q.obj[p]) /\ Waiting(q, p)
  BY <1>1, <1>8, <1>10 DEF ObjOK, Alive, OnItsWay, Waiting
<1>12. \A p \in Objects : /\ q.obj[p].registered <=> s.obj[p].registered
                          /\ q.obj[p].curr = s.obj[p].curr
                          /\ q.obj[p].seen = s.obj[p].seen
                          /\ s.obj[p].pending => q.obj[p].pending
  BY <1>4, <1>6, <1>10
<1>13. ASSUME NEW p \in Objects \ {o}, o \notin Sensors[p].depends_on
       PROVE  Alive(q, p)
  <2>1. \A b \in Sensors[p].depends_on : q.obj[b] = s.obj[b]
    BY <1>10, <1>13, DependsFacts
  <2> QED
    BY <1>1, <1>10, <2>1, AliveFrame
<1>14. Told(q, {})
  <2>1. \A p \in {} \cap Objects : p \in {} \/ q.obj[p].pending
    OBVIOUS
  <2> QED
    BY ONLY <1>1, <1>10, <1>12, <2>1, ToldFrame
<1>15. SysOK(r) /\ Kept(q, r) /\ Calm(q, r)
  <2>1. CASE ob.pending
    <3>1. /\ q.obj[o].registered /\ q.obj[o].pending
          /\ ~IsMeta(o) => ~q.obj[o].notify_id
          /\ Flagged(q)
      BY <1>6, <1>7, <1>10, <1>14, <2>1 DEF Told
    <3>2. \A p \in Objects \ {o} : o \notin Sensors[p].depends_on => Alive(q, p)
      BY <1>13
    <3> QED
      BY ONLY <1>4, <1>10, <1>11, <3>1, <3>2, HandleUpdate, o \in Objects
  <2>2. CASE ~ob.pending
    <3>1. r = q
      BY <1>4, <1>6, <1>10, <2>2 DEF thermal_object_handle_update
    <3>2. IsMeta(o)
      BY <1>3, <1>5, <2>2 DEF Asked
    <3>3. \A p \in Objects : ObjOK(q, p)
      BY <1>11, <1>10, <3>2 DEF ObjOK, Asked
    <3>4. Alive(q, o)
      BY <1>1, <1>4, <1>6, <1>10, <2>2 DEF Alive, OnItsWay
    <3>5. \A p \in Objects : Alive(q, p)
      BY <1>13, <3>2, <3>4, DependsFacts
    <3>6. Kept(q, q) /\ Calm(q, q)
      BY DEF Kept, Calm, Believed
    <3> QED
      BY <1>10, <1>14, <3>1, <3>3, <3>5, <3>6 DEF SysOK
  <2> QED
    BY <2>1, <2>2
<1>16. \A p \in Objects : /\ q.obj[p].registered <=> obj[p].registered
                          /\ q.obj[p].curr = obj[p].curr
                          /\ q.obj[p].seen = obj[p].seen
  BY <1>2, <1>12
<1> QED
  BY <1>3, <1>15, <1>16, BecomeGood

\* Without objects there is nothing to keep in order.
LEMMA NoObjects ==
  ASSUME SysOK(S), NEW s, s = [S EXCEPT !.obj = [o \in Objects |-> Created]]
  PROVE  /\ SysOK(s)
         /\ \A o \in Objects : s.obj[o] = Created
<1>1. S \in SysType /\ Flagged(S)
  BY DEF SysOK, Told
<1>2. /\ s.obj = [o \in Objects |-> Created] /\ s.hw = S.hw
      /\ s.current_status = S.current_status /\ s.prev = S.prev /\ s.flag = S.flag
      /\ s = [obj |-> s.obj, hw |-> s.hw, current_status |-> s.current_status,
              prev |-> s.prev, flag |-> s.flag]
  BY <1>1 DEF SysType
<1>3. s \in SysType
  BY <1>1, <1>2, CreatedFacts DEF SysType
<1>4. \A o \in Objects : s.obj[o] = Created
  BY <1>2
<1>5. \A o \in Objects : ObjOK(s, o) /\ Alive(s, o)
  BY <1>4, CreatedOK, CreatedFacts DEF ObjOK, Alive
<1>6. Told(s, {})
  BY <1>1, <1>2, <1>4, CreatedFacts DEF Told, Flagged, Fresh
<1> QED
  BY <1>3, <1>4, <1>5, <1>6 DEF SysOK

\* DSM_MSGTYPE_DBUS_CONNECTED
LEMMA ConnectedOK ==
  ASSUME SysOK(S), NEW usable, DBUS_CONNECTED(usable)
  PROVE  SysOK(S')
<1> DEFINE s == [S EXCEPT !.obj = [o \in Objects |-> Created]]
           r == RegisterAll(s, usable)
<1>1. Become(r)
  BY DEF DBUS_CONNECTED
<1>2. SysOK(s) /\ \A o \in Objects : ~s.obj[o].registered
  BY NoObjects, CreatedFacts
<1>3. r = RegisterAll(s, usable)
  OBVIOUS
<1> HIDE DEF s, r
<1>4. SysOK(r)
  BY ONLY <1>2, <1>3, RegisterAllOK
<1> HIDE DEF S
<1> QED
  BY ONLY <1>1, <1>4, BecomeOK

\* DSM_MSGTYPE_DBUS_DISCONNECT
LEMMA DisconnectedOK ==
  ASSUME SysOK(S), DBUS_DISCONNECT
  PROVE  SysOK(S') /\ \A o \in Objects : ~obj'[o].registered
<1> DEFINE s == [S EXCEPT !.obj = [o \in Objects |-> Created]]
<1>1. Become(s)
  BY DEF DBUS_DISCONNECT
<1>2. SysOK(s) /\ \A o \in Objects : ~s.obj[o].registered
  BY NoObjects, CreatedFacts
<1> HIDE DEF s, S
<1>3. SysOK(S') /\ \A o \in Objects : obj'[o].registered <=> s.obj[o].registered
  BY ONLY <1>1, <1>2, BecomeOK
<1> QED
  BY <1>2, <1>3

\* A step that books no wake-up, answers no request and takes over no status.
LEMMA QuietStep ==
  ASSUME SysOK(S), S' \in SysType,
         UNCHANGED <<current_status, prev, flag>>,
         \A o \in Objects : /\ obj'[o].registered = obj[o].registered
                            /\ obj'[o].pending = obj[o].pending
                            /\ obj'[o].notify_id = obj[o].notify_id
                            /\ obj'[o].curr = obj[o].curr
                            /\ obj'[o].wait = obj[o].wait
                            /\ obj'[o].dropped = obj[o].dropped,
         \A o \in Objects : ObjBase(o, obj'[o], hw'[o])
  PROVE  GoodStep
<1> DEFINE s == S
           r == S'
<1>1. s.obj = obj /\ r.obj = obj' /\ r.hw = hw' /\ SameReport(s, r)
  BY DEF S, SameReport
<1>2. /\ s \in SysType /\ \A o \in Objects : ObjOK(s, o) /\ Alive(s, o)
      /\ Told(s, {})
  BY DEF SysOK
<1>3. r \in SysType
  OBVIOUS
<1> HIDE DEF s, r
<1>4. \A o \in Objects : /\ r.obj[o].registered = s.obj[o].registered
                         /\ r.obj[o].pending = s.obj[o].pending
                         /\ r.obj[o].notify_id = s.obj[o].notify_id
                         /\ r.obj[o].curr = s.obj[o].curr
                         /\ r.obj[o].wait = s.obj[o].wait
                         /\ r.obj[o].dropped = s.obj[o].dropped
  BY <1>1
<1>5. \A o \in Objects : ObjOK(r, o)
  BY <1>1, <1>2, <1>4 DEF ObjOK, Asked
<1>6. \A o \in Objects : Alive(r, o)
  BY <1>2, <1>4, DependsFacts DEF Alive, OnItsWay
<1>7. Told(r, {})
  <2>1. \A p \in Objects : /\ r.obj[p].registered <=> s.obj[p].registered
                           /\ r.obj[p].curr = s.obj[p].curr
                           /\ s.obj[p].pending => r.obj[p].pending
    BY <1>4
  <2>2. \A p \in {} \cap Objects : p \in {} \/ r.obj[p].pending
    OBVIOUS
  <2> QED
    BY ONLY <1>1, <1>2, <2>1, <2>2, ToldFrame
<1>8. SysOK(r)
  BY <1>3, <1>5, <1>6, <1>7 DEF SysOK
<1> QED
  BY <1>8 DEF GoodStep, Believed, r

\* The environment changes a sensor: an overheating begins anew.
LEMMA HardwareOK ==
  ASSUME SysOK(S), NEW o \in Objects, NEW h \in HwType, Hardware(o, h)
  PROVE  GoodStep
<1> DEFINE ob == obj[o]
           x == [ob EXCEPT !.hot = 0]
<1>1. /\ hw' = [hw EXCEPT ![o] = h] /\ obj' = [obj EXCEPT ![o] = x]
      /\ UNCHANGED <<current_status, prev, flag>>
  BY DEF Hardware
<1>2. /\ obj \in [Objects -> ObjectType] /\ hw \in [Objects -> HwType]
      /\ current_status \in Status \ {INVALID}
      /\ prev \in {"LOWTEMP", "NORMAL", "OVERHEATED"} /\ flag \in BOOLEAN
      /\ \A p \in Objects : ObjBase(p, obj[p], hw[p])
  BY DEF SysOK, SysType, S, ObjOK
<1>3. /\ x \in ObjectType
      /\ x.registered = ob.registered /\ x.pending = ob.pending
      /\ x.sg_temp = ob.sg_temp /\ x.notify_id = ob.notify_id
      /\ x.curr = ob.curr /\ x.next = ob.next /\ x.change = ob.change
      /\ x.seen = ob.seen /\ x.wait = ob.wait /\ x.left = ob.left
      /\ x.hot = 0 /\ x.dropped = ob.dropped
  <2>1. ob \in ObjectType
    BY <1>2
  <2>2. 0 \in 0 .. Patience + 1
    BY Numbers
  <2> HIDE DEF ob
  <2> QED
    BY <2>1, <2>2 DEF ObjectType
<1>4. ob = Created => x = Created
  <2>1. [Created EXCEPT !.hot = Created.hot] = Created
    BY DEF Created
  <2>2. Created.hot = 0
    BY CreatedFacts
  <2> HIDE DEF ob
  <2> QED
    BY <2>1, <2>2
<1> HIDE DEF x
<1>5. ObjBase(o, x, h)
  <2>1. ob.left \in Nat /\ ob.left <= LongestPoll
    BY <1>2, ObjectFields DEF ObjBase, Shape
  <2>2. Due(x)
    BY <1>3, <2>1, Numbers DEF Due
  <2>3. ObjBase(o, ob, hw[o])
    BY <1>2
  <2> HIDE DEF ob
  <2>4. Shape(o, x) /\ Followed(x) /\ HotFile(o, x, h) /\ HotReading(o, x)
    BY <1>3, <1>4, <2>3 DEF ObjBase, Shape, Followed, HotFile, HotReading
  <2> QED
    BY <2>2, <2>4 DEF ObjBase
<1>6. /\ obj'[o] = x /\ hw'[o] = h
      /\ \A p \in Objects \ {o} : obj'[p] = obj[p] /\ hw'[p] = hw[p]
      /\ obj' \in [Objects -> ObjectType] /\ hw' \in [Objects -> HwType]
  BY <1>1, <1>2, <1>3
<1>7. S' \in SysType
  BY <1>1, <1>2, <1>6 DEF S, SysType
<1>8. \A p \in Objects : /\ obj'[p].registered = obj[p].registered
                         /\ obj'[p].pending = obj[p].pending
                         /\ obj'[p].notify_id = obj[p].notify_id
                         /\ obj'[p].curr = obj[p].curr
                         /\ obj'[p].wait = obj[p].wait
                         /\ obj'[p].dropped = obj[p].dropped
  BY <1>3, <1>6
<1>9. \A p \in Objects : ObjBase(p, obj'[p], hw'[p])
  BY <1>2, <1>5, <1>6
<1> QED
  BY ONLY <1>1, <1>7, <1>8, <1>9, SysOK(S), QuietStep

\* An age that grows.
LEMMA OlderFacts ==
  ASSUME NEW a \in Ages
  PROVE  /\ Older(a) \in Ages
         /\ a = NotChanging <=> Older(a) = NotChanging
         /\ a # NotChanging => Older(a) >= a
         /\ (a # NotChanging /\ Older(a) <= TRANSITION_DELAY) => Older(a) = a + 1
         /\ a \in 0 .. TRANSITION_DELAY + 1 => Older(a) \in 0 .. TRANSITION_DELAY + 1
         /\ \A b \in 0 .. TRANSITION_DELAY + 1 : a <= b => Older(a) <= Older(b)
BY Numbers DEF Older

\* What time does to an object.
Aged(ob, c, l, n, sn) ==
  [ob EXCEPT !.change = c, !.left = l, !.hot = n, !.seen = sn]

\* Time passes for an object.
LEMMA AgedOK ==
  ASSUME NEW o \in Objects, NEW ob \in ObjectType, NEW h,
         ObjBase(o, ob, h), Asked(o, ob), ~ob.notify_id,
         ob.wait # "none" => ob.left > 0,
         (ob.registered /\ ob.wait = "none") => ob.pending \/ ob.dropped,
         NEW l, l = (IF ob.wait # "none" THEN ob.left - 1 ELSE ob.left),
         NEW n \in 0 .. Patience + 1, n > 0 => ob.registered /\ n <= ob.hot + 1,
         n > 0 => ~IsMeta(o) /\ FatalTemp(o, FileTemp(h, o)),
         NEW a \in 0 .. TRANSITION_DELAY + 1,
         a = (IF ob.seen.status = ob.curr THEN 0 ELSE Older(ob.seen.age)),
         NEW sn, sn = [ob.seen EXCEPT !.age = a],
         NEW x, x = Aged(ob, Older(ob.change), l, n, sn)
  PROVE  /\ x \in ObjectType
         /\ x.registered = ob.registered /\ x.pending = ob.pending
         /\ x.notify_id = ob.notify_id /\ x.curr = ob.curr
         /\ x.wait = ob.wait /\ x.dropped = ob.dropped
         /\ ObjBase(o, x, h)
<1> DEFINE c == Older(ob.change)
<1>1. /\ ob.registered \in BOOLEAN /\ ob.wait \in {"none", "transition", "level"}
      /\ ob.left \in Nat /\ ob.hot \in 0 .. Patience + 1 /\ ob.change \in Ages
      /\ ob.seen \in [status : Status, age : 0 .. TRANSITION_DELAY + 1]
      /\ ob.seen.age \in 0 .. TRANSITION_DELAY + 1
  BY DEF ObjectType
<1>2. /\ c \in Ages
      /\ ob.change = NotChanging <=> c = NotChanging
      /\ (ob.change # NotChanging /\ c <= TRANSITION_DELAY) => c = ob.change + 1
      /\ ob.change <= ob.seen.age => c <= Older(ob.seen.age)
  BY <1>1, OlderFacts
<1>3. l \in Nat /\ l <= ob.left
  BY <1>1
<1>4. /\ sn \in [status : Status, age : 0 .. TRANSITION_DELAY + 1]
      /\ sn.status = ob.seen.status /\ sn.age = a
  <2> DEFINE seen == ob.seen
  <2>1. seen \in [status : Status, age : 0 .. TRANSITION_DELAY + 1]
    BY <1>1
  <2>2. sn = [seen EXCEPT !.age = a]
    OBVIOUS
  <2> HIDE DEF seen
  <2>3. /\ sn \in [status : Status, age : 0 .. TRANSITION_DELAY + 1]
        /\ sn.status = seen.status /\ sn.age = a
    BY <2>1, <2>2
  <2> QED
    BY <2>3 DEF seen
<1>5. x = Aged(ob, c, l, n, sn)
  OBVIOUS
<1> HIDE DEF c
<1>6. /\ x \in ObjectType
      /\ x.registered = ob.registered /\ x.pending = ob.pending
      /\ x.sg_temp = ob.sg_temp /\ x.notify_id = ob.notify_id
      /\ x.curr = ob.curr /\ x.next = ob.next /\ x.change = c
      /\ x.seen = sn /\ x.wait = ob.wait /\ x.left = l
      /\ x.hot = n /\ x.dropped = ob.dropped
  BY ONLY <1>2, <1>3, <1>4, <1>5, ob \in ObjectType, n \in 0 .. Patience + 1
     DEF Aged, ObjectType
<1>7. ob = Created => x = Created
  <2> SUFFICES ASSUME ob = Created
               PROVE  x = Created
    OBVIOUS
  <2>1. c = Created.change
    BY <1>2, CreatedFacts
  <2>2. l = Created.left
    BY CreatedFacts
  <2>3. n = Created.hot
    BY <1>1, CreatedFacts, Numbers
  <2>4. sn = Created.seen
    <3>1. a = 0
      BY CreatedFacts
    <3>2. sn = [Created.seen EXCEPT !.age = 0]
      BY <3>1
    <3> QED
      BY <3>2 DEF Created
  <2>5. x = [Created EXCEPT !.change = Created.change, !.left = Created.left,
                            !.hot = Created.hot, !.seen = Created.seen]
    BY <1>5, <2>1, <2>2, <2>3, <2>4 DEF Aged
  <2>6. [Created EXCEPT !.change = Created.change, !.left = Created.left,
                        !.hot = Created.hot, !.seen = Created.seen] = Created
    BY DEF Created
  <2> QED
    BY <2>5, <2>6
<1>8. Shape(o, x)
  <2>1. Shape(o, ob)
    BY DEF ObjBase
  <2>2. l \in Int /\ ob.left \in Int
    BY ONLY <1>1, <1>3
  <2> QED
    BY ONLY <1>3, <1>6, <1>7, <2>1, <2>2, Numbers DEF Shape
<1>9. Followed(x)
  <2>1. CASE ob.next = ob.curr
    BY <1>2, <1>6, <2>1 DEF ObjBase, Followed
  <2>2. CASE ob.next # ob.curr
    <3>1. /\ ob.change # NotChanging /\ ob.seen.status = ob.next
          /\ ob.change <= ob.seen.age
      BY <2>2 DEF ObjBase, Followed
    <3>2. c # NotChanging /\ sn.status = ob.next /\ c <= sn.age
      BY <1>2, <1>4, <2>2, <3>1
    <3> QED
      BY ONLY <1>6, <2>2, <3>2 DEF Followed
  <2> QED
    BY <2>1, <2>2
<1>10. HotFile(o, x, h) /\ HotReading(o, x)
  BY <1>6 DEF HotFile, HotReading, Asked
<1>11. Due(x)
  <2> SUFFICES ASSUME ob.registered, ob.curr # FATAL
               PROVE  \/ n + l <= LongestPoll
                      \/ /\ ob.next = FATAL
                         /\ c <= TRANSITION_DELAY => n <= LongestPoll + c
                         /\ n + l <= Patience
    BY <1>6 DEF Due
  <2>1. CASE n = 0
    <3>1. ob.left <= LongestPoll
      BY DEF ObjBase, Shape
    <3> QED
      BY ONLY <1>1, <1>3, <2>1, <3>1, Numbers
  <2>2. CASE n > 0
    <3>1. ob.wait # "none"
      BY <2>2 DEF Asked, ObjBase, Shape
    <3>2. n + l <= ob.hot + ob.left /\ n <= ob.hot + 1
      <4>1. l = ob.left - 1 /\ n <= ob.hot + 1
        BY <2>2, <3>1
      <4>2. n \in Int /\ ob.hot \in Int /\ ob.left \in Int
        BY ONLY <1>1, n \in 0 .. Patience + 1, Numbers
      <4> QED
        BY ONLY <4>1, <4>2
    <3>3. \A N \in Nat : ob.hot + ob.left <= N => n + l <= N
      <4>1. n \in Int /\ l \in Int /\ ob.hot \in Int /\ ob.left \in Int
        BY <1>1, <1>3, Numbers
      <4> QED
        BY ONLY <3>2, <4>1
    <3>4. CASE ob.hot + ob.left <= LongestPoll
      BY ONLY <3>4, <3>3, Numbers
    <3>5. CASE /\ ob.next = FATAL
               /\ ob.change <= TRANSITION_DELAY => ob.hot <= LongestPoll + ob.change
               /\ ob.hot + ob.left <= Patience
      <4>1. ob.change # NotChanging
        BY <3>5 DEF ObjBase, Followed
      <4>2. n + l <= Patience
        BY ONLY <3>5, <3>3, Numbers
      <4>3. ASSUME c <= TRANSITION_DELAY
            PROVE  n <= LongestPoll + c
        <5>1. c = ob.change + 1 /\ ob.change \in Int
          BY <1>1, <1>2, <4>1, <4>3, Numbers
        <5>2. ob.hot <= LongestPoll + ob.change
          BY <3>5, <4>3, <5>1, Numbers
        <5>3. n \in Int /\ ob.hot \in Int
          BY ONLY <1>1, n \in 0 .. Patience + 1, Numbers
        <5> QED
          BY ONLY <3>2, <5>1, <5>2, <5>3, Numbers
      <4> QED
        BY <3>5, <4>2, <4>3
    <3> QED
      BY <3>4, <3>5 DEF ObjBase, Due
  <2> QED
    BY <2>1, <2>2, Numbers
<1> QED
  BY <1>6, <1>8, <1>9, <1>10, <1>11 DEF ObjBase

\* Time passes.
LEMMA TickOK ==
  ASSUME SysOK(S), Tick
  PROVE  GoodStep
<1> DEFINE left(o) == IF obj[o].wait # "none" THEN obj[o].left - 1 ELSE obj[o].left
           hot(o) == IF Hot(o) /\ obj[o].registered
                     THEN IF obj[o].hot > Patience THEN obj[o].hot ELSE obj[o].hot + 1
                     ELSE 0
           age(o) == IF obj[o].seen.status = obj[o].curr THEN 0 ELSE Older(obj[o].seen.age)
           sn(o) == [obj[o].seen EXCEPT !.age = age(o)]
           x(o) == Aged(obj[o], Older(obj[o].change), left(o), hot(o), sn(o))
<1>1. /\ obj \in [Objects -> ObjectType] /\ hw \in [Objects -> HwType]
      /\ current_status \in Status \ {INVALID}
      /\ prev \in {"LOWTEMP", "NORMAL", "OVERHEATED"} /\ flag \in BOOLEAN
      /\ \A o \in Objects : ObjBase(o, obj[o], hw[o]) /\ Asked(o, obj[o]) /\ Alive(S, o)
  BY SFields DEF SysOK, SysType, S, ObjOK
<1>2. /\ hw' = hw /\ UNCHANGED <<current_status, prev, flag>>
      /\ \A o \in Objects : /\ ~obj[o].notify_id
                            /\ obj[o].wait # "none" => obj[o].left > 0
  BY DEF Tick
<1>3. obj' = [o \in Objects |-> x(o)]
  <2>1. obj' = [o \in Objects |->
                  [obj[o] EXCEPT !.change = Older(@),
                     !.left = IF obj[o].wait # "none" THEN @ - 1 ELSE @,
                     !.hot = IF Hot(o) /\ obj[o].registered
                             THEN IF @ > Patience THEN @ ELSE @ + 1 ELSE 0,
                     !.seen.age = IF obj[o].seen.status = obj[o].curr THEN 0
                                  ELSE Older(@)]]
    BY DEF Tick
  <2>2. ASSUME NEW o \in Objects
        PROVE  [obj[o] EXCEPT !.change = Older(@),
                  !.left = IF obj[o].wait # "none" THEN @ - 1 ELSE @,
                  !.hot = IF Hot(o) /\ obj[o].registered
                          THEN IF @ > Patience THEN @ ELSE @ + 1 ELSE 0,
                  !.seen.age = IF obj[o].seen.status = obj[o].curr THEN 0
                               ELSE Older(@)] = x(o)
    <3>1. obj[o] \in ObjectType
      BY <1>1
    <3> QED
      BY <3>1 DEF Aged, ObjectType
  <2> HIDE DEF x
  <2> QED
    BY <2>1, <2>2
<1>4. ASSUME NEW o \in Objects
      PROVE  /\ x(o) \in ObjectType
             /\ x(o).registered = obj[o].registered /\ x(o).pending = obj[o].pending
             /\ x(o).notify_id = obj[o].notify_id /\ x(o).curr = obj[o].curr
             /\ x(o).wait = obj[o].wait /\ x(o).dropped = obj[o].dropped
             /\ ObjBase(o, x(o), hw[o])
  <2> DEFINE ob == obj[o]
             h == hw[o]
             l == left(o)
             n == hot(o)
             a == age(o)
             sno == sn(o)
             xo == x(o)
  <2>1. ob \in ObjectType /\ ObjBase(o, ob, h) /\ Asked(o, ob)
    BY <1>1
  <2>2. ~ob.notify_id /\ (ob.wait # "none" => ob.left > 0)
    BY <1>2
  <2>3. (ob.registered /\ ob.wait = "none") => ob.pending \/ ob.dropped
    <3>1. Alive(S, o)
      BY <1>1
    <3> QED
      BY <3>1, SFields DEF Alive, OnItsWay
  <2>4. l = (IF ob.wait # "none" THEN ob.left - 1 ELSE ob.left)
    OBVIOUS
  <2>5. /\ n \in 0 .. Patience + 1
        /\ n > 0 => ob.registered /\ n <= ob.hot + 1
        /\ n > 0 => ~IsMeta(o) /\ FatalTemp(o, FileTemp(h, o))
    <3>1. ob.hot \in 0 .. Patience + 1
      BY <2>1, ObjectFields
    <3>2. CASE Hot(o) /\ ob.registered
      <4>1. n = IF ob.hot > Patience THEN ob.hot ELSE ob.hot + 1
        BY <3>2
      <4> HIDE DEF n, ob
      <4> QED
        BY <3>1, <3>2, <4>1, Numbers DEF Hot
    <3>3. CASE ~(Hot(o) /\ ob.registered)
      <4>1. n = 0
        BY <3>3
      <4> HIDE DEF n, ob
      <4> QED
        BY <4>1, Numbers
    <3> QED
      BY <3>2, <3>3
  <2>6. /\ a = (IF ob.seen.status = ob.curr THEN 0 ELSE Older(ob.seen.age))
        /\ a \in 0 .. TRANSITION_DELAY + 1
    <3>1. ob.seen.age \in 0 .. TRANSITION_DELAY + 1
      BY <2>1, ObjectFields
    <3> QED
      BY <3>1, Numbers DEF Older
  <2>7. sno = [ob.seen EXCEPT !.age = a] /\ xo = Aged(ob, Older(ob.change), l, n, sno)
    OBVIOUS
  <2> HIDE DEF l, n, a, sno, xo, ob, h
  <2>8. /\ xo \in ObjectType
        /\ xo.registered = ob.registered /\ xo.pending = ob.pending
        /\ xo.notify_id = ob.notify_id /\ xo.curr = ob.curr
        /\ xo.wait = ob.wait /\ xo.dropped = ob.dropped
        /\ ObjBase(o, xo, h)
    BY ONLY <2>1, <2>2, <2>3, <2>4, <2>5, <2>6, <2>7, AgedOK, o \in Objects
  <2> QED
    BY <2>8 DEF xo, ob, h
<1> HIDE DEF x
<1>5. \A o \in Objects : obj'[o] = x(o) /\ hw'[o] = hw[o]
  BY <1>2, <1>3
<1>6. S' \in SysType
  <2>1. obj' \in [Objects -> ObjectType]
    BY <1>3, <1>4
  <2> QED
    BY <1>1, <1>2, <2>1 DEF S, SysType
<1>7. \A o \in Objects : /\ obj'[o].registered = obj[o].registered
                         /\ obj'[o].pending = obj[o].pending
                         /\ obj'[o].notify_id = obj[o].notify_id
                         /\ obj'[o].curr = obj[o].curr
                         /\ obj'[o].wait = obj[o].wait
                         /\ obj'[o].dropped = obj[o].dropped
  BY <1>4, <1>5
<1>8. \A o \in Objects : ObjBase(o, obj'[o], hw'[o])
  BY <1>4, <1>5
<1> QED
  BY ONLY <1>2, <1>6, <1>7, <1>8, SysOK(S), QuietStep
-----------------------------------------------------------------------------
(***************************************************************************)
(* The invariant, and what follows from it.                                *)
(***************************************************************************)
\* No object is registered at first.
LEMMA InitOK == Init => TInv
<1> SUFFICES ASSUME Init
             PROVE  TInv
  OBVIOUS
<1>1. /\ S.obj = [o \in Objects |-> Created] /\ S.hw = hw
      /\ S.prev = "NORMAL" /\ obj = S.obj
  BY DEF Init, S
<1>2. S \in SysType
  <2>1. hw \in [Objects -> HwType]
    BY ThermalAssumption DEF Init, HwType
  <2>2. NORMAL \in Status \ {INVALID}
    BY Numbers
  <2> QED
    BY <1>1, <2>1, <2>2, CreatedFacts DEF Init, S, SysType
<1>3. \A o \in Objects : S.obj[o] = Created
  BY <1>1
<1>4. \A o \in Objects : ObjOK(S, o) /\ Alive(S, o)
  BY <1>3, CreatedOK, CreatedFacts DEF ObjOK, Alive
<1>5. Told(S, {})
  BY <1>1, <1>3, CreatedFacts DEF Told, Flagged, Fresh
<1>6. connected \in BOOLEAN /\ \A o \in Objects : ~obj[o].registered
  BY <1>1, <1>3, CreatedFacts DEF Init
<1> QED
  BY <1>2, <1>4, <1>5, <1>6 DEF TInv, SysOK

\* An object that stays registered takes over no status that may be a glitch.
NoGlitchStep ==
  \A o \in Objects :
    (obj[o].registered /\ obj'[o].registered) => Believed(obj[o], obj'[o])

\* Every step keeps the invariant, and is no glitch.
LEMMA StepOK == TInv /\ [Next]_vars => TInv' /\ NoGlitchStep
<1> SUFFICES ASSUME TInv, [Next]_vars
             PROVE  TInv' /\ NoGlitchStep
  OBVIOUS
<1>1. SysOK(S) /\ connected \in BOOLEAN
      /\ (~connected => \A o \in Objects : ~obj[o].registered)
  BY DEF TInv
<1>2. ASSUME GoodStep, UNCHANGED connected
      PROVE  TInv' /\ NoGlitchStep
  BY <1>1, <1>2 DEF GoodStep, TInv, NoGlitchStep
<1>3. ASSUME NEW o \in Objects, NEW on \in BOOLEAN, WAKEUP(o, on)
      PROVE  TInv' /\ NoGlitchStep
  <2>1. GoodStep /\ UNCHANGED connected
    BY <1>1, <1>3, WakeUpOK DEF WAKEUP
  <2> QED
    BY <1>2, <2>1
<1>4. ASSUME NEW o \in Objects, thermal_sensor_generic_sensor_notify_cb(o)
      PROVE  TInv' /\ NoGlitchStep
  <2>1. GoodStep /\ UNCHANGED connected
    BY <1>1, <1>4, NotifyOK DEF thermal_sensor_generic_sensor_notify_cb
  <2> QED
    BY <1>2, <2>1
<1>5. ASSUME NEW usable \in SUBSET Objects, DBUS_CONNECTED(usable)
      PROVE  TInv' /\ NoGlitchStep
  <2>1. SysOK(S')
    BY <1>1, <1>5, ConnectedOK
  <2>2. ~connected /\ connected' = TRUE
    BY <1>5 DEF DBUS_CONNECTED
  <2> QED
    BY <1>1, <2>1, <2>2 DEF TInv, NoGlitchStep
<1>6. ASSUME DBUS_DISCONNECT
      PROVE  TInv' /\ NoGlitchStep
  <2>1. SysOK(S') /\ \A o \in Objects : ~obj'[o].registered
    BY <1>1, <1>6, DisconnectedOK
  <2>2. connected' = FALSE
    BY <1>6 DEF DBUS_DISCONNECT
  <2> QED
    BY <2>1, <2>2 DEF TInv, NoGlitchStep
<1>7. ASSUME NEW o \in Restless, NEW h \in Hw, Hardware(o, h)
      PROVE  TInv' /\ NoGlitchStep
  <2>1. o \in Objects /\ h \in HwType
    BY ThermalAssumption DEF Hw, HwType
  <2>2. GoodStep /\ UNCHANGED connected
    BY <1>1, <1>7, <2>1, HardwareOK DEF Hardware
  <2> QED
    BY <1>2, <2>2
<1>8. ASSUME Tick
      PROVE  TInv' /\ NoGlitchStep
  <2>1. GoodStep /\ UNCHANGED connected
    BY <1>1, <1>8, TickOK DEF Tick
  <2> QED
    BY <1>2, <2>1
<1>9. ASSUME UNCHANGED vars
      PROVE  TInv' /\ NoGlitchStep
  <2>1. S' = S /\ obj' = obj /\ connected' = connected
    BY <1>9 DEF vars, S
  <2>2. GoodStep
    BY <1>1, <2>1 DEF GoodStep, Believed
  <2> QED
    BY <1>2, <2>1, <2>2
<1> QED
  BY <1>3, <1>4, <1>5, <1>6, <1>7, <1>8, <1>9 DEF Next

\* The invariant holds in every state of every behaviour.
LEMMA Invariant == Spec => []TInv
<1>1. Init => TInv
  BY InitOK
<1>2. TInv /\ [Next]_vars => TInv'
  BY StepOK
<1> QED
  BY <1>1, <1>2, PTL DEF Spec

\* Whatever the configuration, the objects, the files and the report have values
\* they may have.
THEOREM TypeCorrect == Spec => []TypeOK
<1>1. TInv => TypeOK
  BY DEF TInv, SysOK, SysType, S, TypeOK, HwType
<1> QED
  BY <1>1, Invariant, PTL

\* thermal_object_request_update(): an object that is registered is polled again,
\* unless its request was cancelled; no sensor that fails is forgotten.
THEOREM PollsStayAlive == Spec => []PollAlive
<1>1. TInv => PollAlive
  <2> SUFFICES ASSUME TInv, NEW o \in Objects, obj[o].registered
               PROVE  obj[o].wait # "none" \/ Underway(o) \/ obj[o].dropped
    BY DEF PollAlive
  <2>1. Alive(S, o)
    BY DEF TInv, SysOK
  <2> QED
    BY <2>1, SFields DEF Alive, OnItsWay, Underway
<1> QED
  BY <1>1, Invariant, PTL

\* thermal_manager_handle_object_update() and thermalflagger.c: dsme and D-Bus have
\* been told of the worst status there is, and the flag file is there when it is
\* FATAL.
THEOREM WorstIsReported == Spec => []ReportIsWorst
<1>1. TInv => ReportIsWorst
  <2> SUFFICES ASSUME TInv
               PROVE  ReportIsWorst
    OBVIOUS
  <2> DEFINE fatal == {o \in Objects : obj[o].registered /\ obj[o].curr = FATAL}
             fresh == {o \in Objects : obj[o].registered /\ obj[o].pending}
  <2>1. /\ S.obj = obj /\ S.prev = prev /\ S.flag = flag
        /\ S.current_status = current_status
    BY DEF S
  <2>2. Told(S, {})
    BY DEF TInv, SysOK
  <2>3. Overheated(S) <=> fatal # {}
    BY <2>1 DEF Overheated
  <2>4. fatal # {} => prev = "OVERHEATED" /\ flag /\ current_status = FATAL
    BY <2>1, <2>2, <2>3, Numbers DEF Told, Flagged, Reported, Fresh
  <2>5. (fatal = {} /\ fresh = {} /\ \E o \in Objects : obj[o].registered)
          => prev # "OVERHEATED"
    BY <2>1, <2>2, <2>3 DEF Told, Reported, Fresh
  <2> QED
    BY <2>4, <2>5 DEF ReportIsWorst
<1> QED
  BY <1>1, Invariant, PTL

\* THERMAL_STATUS_TRANSITION_DELAY: a sensor that has been fatally hot for longer
\* than it takes to poll it, to believe it and to poll it once more is reported, while
\* the device is awake.
THEOREM OverheatIsReported == Spec => []OverheatReported
<1>1. TInv => OverheatReported
  <2> SUFFICES ASSUME TInv, NEW o \in Objects, obj[o].hot > Patience
               PROVE  prev = "OVERHEATED"
    BY DEF OverheatReported
  <2> DEFINE ob == obj[o]
  <2>1. S.obj = obj /\ S.prev = prev
    BY DEF S
  <2>2. ob \in ObjectType /\ ObjBase(o, ob, S.hw[o])
    BY <2>1, SysFields DEF TInv, SysOK, ObjOK
  <2>3. /\ ob.hot \in 0 .. Patience + 1 /\ ob.left \in Nat
        /\ ob.registered \in BOOLEAN
    BY <2>2, ObjectFields
  <2>4. ob.registered
    BY <2>2, <2>3, CreatedFacts, Numbers DEF ObjBase, Shape
  <2>5. ob.curr = FATAL
    <3>1. ~(ob.hot + ob.left <= LongestPoll) /\ ~(ob.hot + ob.left <= Patience)
      <4>1. ob.hot > Patience
        OBVIOUS
      <4> HIDE DEF ob
      <4> QED
        BY <2>3, <4>1, Numbers
    <3> QED
      BY <2>2, <2>4, <3>1 DEF ObjBase, Due
  <2>6. Overheated(S)
    BY <2>1, <2>4, <2>5 DEF Overheated
  <2>7. Told(S, {}) /\ ~Fresh(S, {})
    BY <2>1, <2>4, <2>5, Numbers DEF TInv, SysOK, Fresh
  <2> QED
    BY <2>1, <2>6, <2>7 DEF Told, Reported
<1> QED
  BY <1>1, Invariant, PTL

\* thermal_object_handle_update() "make sure it is not a glitch": no step takes over
\* a status that the readings have not shown for longer than TRANSITION_DELAY.
THEOREM NoGlitchBelieved == Spec => NoGlitch
<1> DEFINE A == \A o \in Objects :
                  obj[o].registered /\ obj'[o].registered /\ obj'[o].curr # obj[o].curr =>
                    /\ obj[o].seen.status = obj'[o].curr
                    /\ obj[o].seen.age > TRANSITION_DELAY
<1>1. TInv /\ [Next]_vars => A
  BY StepOK DEF NoGlitchStep, Believed
<1>2. TInv /\ [Next]_vars => [A]_vars
  BY <1>1
<1>3. NoGlitch <=> [][A]_vars
  BY DEF NoGlitch
<1> HIDE DEF A
<1> QED
  BY <1>2, <1>3, Invariant, PTL DEF Spec
=============================================================================
