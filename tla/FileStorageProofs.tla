-------------------------- MODULE FileStorageProofs --------------------------
(* Theorems about FileStorage, for every value of its constants. *)
EXTENDS FileStorage, TLAPS

-----------------------------------------------------------------------------
(* The operators of MetricsStore keep its types. *)

(* Addition in two's complement stays in range. *)
LEMMA WrapType ==
    ASSUME NEW n \in Int
    PROVE  Wrap(n) \in Counter
<1>1. Half \in Nat \ {0}
  BY StoreAssumption
<1>2. (n + Half) % (2 * Half) \in 0 .. (2 * Half) - 1
  BY <1>1
<1>3. QED
  BY <1>1, <1>2 DEF Wrap, Counter

(* The empty store is a store. *)
LEMMA NewMemStorageType == NewMemStorage \in Store
  BY DEF NewMemStorage, Store

(* Setting a gauge yields a store. *)
LEMMA SetGaugeType ==
    ASSUME NEW ms \in Store, NEW i \in Id, NEW v \in Value
    PROVE  SetGauge(ms, i, v) \in Store
  BY DEF SetGauge, Store

(* Increasing a counter yields a store: the sum wraps into range. *)
LEMMA AddCounterType ==
    ASSUME NEW ms \in Store, NEW i \in Id, NEW d \in Counter
    PROVE  AddCounter(ms, i, d) \in Store
<1> DEFINE old == IF HasCounter(ms, i) THEN ms.counters[i] ELSE 0
<1>1. Half \in Nat \ {0}
  BY StoreAssumption
<1>2. old \in Int /\ d \in Int
  BY <1>1 DEF HasCounter, Store, Counter
<1>3. Wrap(old + d) \in Counter
  BY <1>2, WrapType
<1>4. AddCounter(ms, i, d) = [ms EXCEPT !.counters[i] = Wrap(old + d)]
  BY DEF AddCounter, Store
<1>5. QED
  BY <1>3, <1>4 DEF Store

(* One turn of UpdateBatch yields a store. *)
LEMMA ApplyMetricType ==
    ASSUME NEW ms \in Store, NEW m \in Metric
    PROVE  ApplyMetric(ms, m) \in Store
<1>1. CASE m.mtype = "gauge" /\ m.value # Missing
  BY <1>1, SetGaugeType DEF ApplyMetric, Metric
<1>2. CASE m.mtype = "counter" /\ m.delta # Missing
  BY <1>2, AddCounterType DEF ApplyMetric, Metric
<1>3. CASE ~(m.mtype = "gauge" /\ m.value # Missing)
           /\ ~(m.mtype = "counter" /\ m.delta # Missing)
  BY <1>3 DEF ApplyMetric
<1>4. QED
  BY <1>1, <1>2, <1>3

(* A list holds metrics only. *)
LEMMA GetAllMetricsType ==
    ASSUME NEW ms \in Store
    PROVE  GetAllMetrics(ms) \in SUBSET Metric
  BY DEF GetAllMetrics, Store, Metric, Gauge, Count, HasGauge, HasCounter

(* What loadFromFile makes of a list is a store. *)
LEMMA LoadListType ==
    ASSUME NEW list \in SUBSET Metric
    PROVE  LoadList(list) \in Store
<1> DEFINE Entry(i, t) == {m \in list : m.id = i /\ m.mtype = t}
<1>1. ASSUME NEW i \in Id, NEW t, Entry(i, t) # {}
      PROVE  (CHOOSE m \in Entry(i, t) : TRUE) \in Metric
  BY <1>1
<1>2. QED
  BY <1>1 DEF LoadList, Store, Metric

-----------------------------------------------------------------------------
(* Type correctness. *)

(* An idle saver and a cut off file are well typed. *)
LEMMA IdleType == Idle \in SaverState /\ Torn \in Content
  BY DEF Idle, Torn, Content, SaverState

(* The fields a goroutine starts an update, a batch or a save with. *)
LEMMA UpdatedType ==
    ASSUME NEW r \in SaverState, NEW n \in Nat
    PROVE  [r EXCEPT !.pc = "updated", !.upd = n] \in SaverState
  BY DEF SaverState

(* A goroutine that enters UpdateBatch is well typed. *)
LEMMA BatchType ==
    ASSUME NEW r \in SaverState, NEW n \in Nat, NEW b \in Seq(Metric)
    PROVE  [r EXCEPT !.pc = "batch", !.todo = b, !.upd = n] \in SaverState
  BY DEF SaverState

(* A saver that has taken its snapshot is well typed. *)
LEMMA CreateType ==
    ASSUME NEW r \in SaverState, NEW c \in Content
    PROVE  [r EXCEPT !.pc = "create", !.snap = c] \in SaverState
  BY DEF SaverState

(* A snapshot is the content of a file. *)
LEMMA SnapshotType ==
    ASSUME TypeOK
    PROVE  Snapshot \in Content
  BY GetAllMetricsType DEF TypeOK, Snapshot, Content

(* A goroutine that begins to save is well typed. *)
LEMMA EnterType ==
    ASSUME TypeOK, NEW s \in Saver, NEW r \in SaverState, Enter(s, r)
    PROVE  saver' \in [Saver -> SaverState]
  BY DEF TypeOK, Enter, Active, SaverState

(* Returning from a save leaves well typed savers. *)
LEMMA ReturnType ==
    ASSUME TypeOK, NEW s \in Saver, NEW ok \in BOOLEAN, Return(s, ok)
    PROVE  /\ saver' \in [Saver -> SaverState]
           /\ phase' \in Phase
           /\ clean' \in BOOLEAN
  BY IdleType DEF TypeOK, Return, Phase

(* An update keeps the types. *)
LEMMA UpdateType ==
    ASSUME TypeOK, NEW w \in Writer, NEW ms \in Store, Update(w, ms)
    PROVE  TypeOK'
<1> DEFINE r == [Idle EXCEPT !.pc = "updated", !.upd = ver + 1]
<1>1. w \in Saver
  BY DEF Saver
<1>2. r \in SaverState
  <2>1. ver + 1 \in Nat
    BY DEF TypeOK
  <2>2. QED
    BY <2>1, IdleType, UpdatedType
<1>3. saver' \in [Saver -> SaverState]
  BY <1>1, <1>2, EnterType DEF Update, TypeOK
<1>4. QED
  BY <1>3 DEF TypeOK, Update, disk

(* A step of saveToFile keeps the types. *)
LEMMA SaveStepType ==
    ASSUME TypeOK, NEW s \in Saver, SaveStep(s)
    PROVE  TypeOK'
<1>1. saver[s] \in SaverState
  BY DEF TypeOK
<1>2. CASE Create(s)
  <2>1. PICK i \in Inode \cup {NoInode} :
          /\ i \in Inode
          /\ dir' = [dir EXCEPT !.tmp = i]
          /\ data' = [data EXCEPT ![i] = Torn]
          /\ saver' = [saver EXCEPT ![s].pc = "write", ![s].fd = i]
    BY <1>2 DEF Create, TypeOK, Fresh
  <2>2. dir' \in [main : Inode \cup {NoInode}, tmp : Inode \cup {NoInode}]
    BY <2>1 DEF TypeOK
  <2>3. data' \in [Inode -> Content]
    BY <2>1, IdleType DEF TypeOK
  <2>4. saver' \in [Saver -> SaverState]
    BY <1>1, <2>1 DEF TypeOK, SaverState
  <2>5. QED
    BY <1>2, <2>2, <2>3, <2>4 DEF Create, TypeOK
<1>3. CASE Encode(s)
  BY <1>1, <1>3 DEF Encode, TypeOK, SaverState
<1>4. CASE EncodeFails(s)
  BY <1>4, ReturnType DEF EncodeFails, TypeOK, disk
<1>5. CASE Rename(s)
  BY <1>5, ReturnType DEF Rename, TypeOK
<1>6. CASE RenameFails(s)
  BY <1>6, ReturnType DEF RenameFails, TypeOK, disk
<1>7. CASE Fault(s)
  <2>1. data' \in [Inode -> Content]
    BY <1>7, IdleType DEF Fault, TypeOK
  <2>2. saver' \in [Saver -> SaverState] /\ phase' \in Phase /\ clean' \in BOOLEAN
    BY <1>7, ReturnType DEF Fault
  <2>3. QED
    BY <1>7, <2>1, <2>2 DEF Fault, TypeOK
<1>8. QED
  BY <1>2, <1>3, <1>4, <1>5, <1>6, <1>7 DEF SaveStep

(* A step of an update keeps the types. *)
LEMMA WriterStepType ==
    ASSUME TypeOK, NEW w \in Writer, WriterStep(w)
    PROVE  TypeOK'
<1>1. w \in Saver /\ saver[w] \in SaverState
  BY DEF TypeOK, Saver
<1>2. CASE UpdateGauge(w)
  BY <1>2, SetGaugeType, UpdateType DEF UpdateGauge, TypeOK
<1>3. CASE UpdateCounter(w)
  BY <1>3, AddCounterType, UpdateType, FileAssumption DEF UpdateCounter, TypeOK
<1>4. CASE UpdateBatch(w)
  <2>1. PICK b \in Batch :
          Enter(w, [Idle EXCEPT !.pc = "batch", !.todo = b, !.upd = ver + 1])
    BY <1>4 DEF UpdateBatch
  <2>2. [Idle EXCEPT !.pc = "batch", !.todo = b, !.upd = ver + 1] \in SaverState
    <3>1. b \in Seq(Metric) /\ ver + 1 \in Nat
      BY FileAssumption DEF TypeOK
    <3>2. QED
      BY <3>1, IdleType, BatchType
  <2>3. saver' \in [Saver -> SaverState]
    BY <1>1, <2>1, <2>2, EnterType
  <2>4. QED
    BY <1>4, <2>3 DEF TypeOK, UpdateBatch, disk
<1>5. CASE BatchStep(w)
  <2>1. Head(saver[w].todo) \in Metric /\ Tail(saver[w].todo) \in Seq(Metric)
    BY <1>1, <1>5 DEF BatchStep, SaverState
  <2>2. mem' \in Store
    BY <1>5, <2>1, ApplyMetricType DEF BatchStep, TypeOK
  <2>3. saver' \in [Saver -> SaverState]
    BY <1>1, <1>5, <2>1 DEF BatchStep, TypeOK, SaverState
  <2>4. QED
    BY <1>5, <2>2, <2>3 DEF BatchStep, TypeOK, disk
<1>6. CASE BatchEnd(w)
  <2>1. CASE SyncWrite
    <3>1. saver' = [saver EXCEPT ![w].pc = "updated"]
      BY <1>6, <2>1 DEF BatchEnd, Goto
    <3>2. saver' \in [Saver -> SaverState]
      BY <1>1, <3>1 DEF TypeOK, SaverState
    <3>3. QED
      BY <1>6, <3>2 DEF BatchEnd, TypeOK, disk
  <2>2. CASE ~SyncWrite
    <3>1. saver' = [saver EXCEPT ![w] = Idle]
      BY <1>6, <2>2 DEF BatchEnd
    <3>2. saver' \in [Saver -> SaverState]
      BY <3>1, IdleType DEF TypeOK
    <3>3. QED
      BY <1>6, <3>2 DEF BatchEnd, TypeOK, disk
  <2>3. QED
    BY <2>1, <2>2
<1>7. CASE TakeSnapshot(w)
  <2>1. saver' \in [Saver -> SaverState]
    BY <1>1, <1>7, SnapshotType DEF TakeSnapshot, TypeOK, SaverState
  <2>2. QED
    BY <1>7, <2>1 DEF TakeSnapshot, TypeOK, disk
<1>8. QED
  BY <1>2, <1>3, <1>4, <1>5, <1>6, <1>7 DEF WriterStep

(* A goroutine that starts a save with a snapshot just taken. *)
LEMMA EnterSaveType ==
    ASSUME TypeOK, NEW s \in Saver,
           Enter(s, [Idle EXCEPT !.pc = "create", !.snap = Snapshot])
    PROVE  saver' \in [Saver -> SaverState]
<1>1. [Idle EXCEPT !.pc = "create", !.snap = Snapshot] \in SaverState
  BY IdleType, SnapshotType, CreateType
<1>2. QED
  BY <1>1, EnterType

(* Every reachable state is well typed: no operation leaves the int64      *)
(* range, loses a goroutine's state or makes a file of anything but a      *)
(* list of metrics.                                                        *)
THEOREM TypeCorrect == Spec => []TypeOK
<1>1. ASSUME Init
      PROVE  TypeOK
  <2>1. mem \in Store /\ phase \in Phase /\ clean \in BOOLEAN
    BY <1>1, NewMemStorageType DEF Init, Phase
  <2>2. saver \in [Saver -> SaverState] /\ data \in [Inode -> Content]
    BY <1>1, IdleType DEF Init
  <2>3. QED
    BY <1>1, <2>1, <2>2 DEF Init, TypeOK
<1>2. TypeOK /\ [Next]_vars => TypeOK'
  <2> SUFFICES ASSUME TypeOK, [Next]_vars
               PROVE  TypeOK'
    OBVIOUS
  <2>1. ASSUME NEW w \in Writer, WriterStep(w)
        PROVE  TypeOK'
    BY <2>1, WriterStepType
  <2>2. ASSUME NEW s \in Saver, SaveStep(s)
        PROVE  TypeOK'
    BY <2>2, SaveStepType
  <2>3. CASE Start
    <3>1. MainExists => Main.list \in SUBSET Metric /\ Main.ver \in Nat
      BY DEF TypeOK, MainExists, Main, Content
    <3>2. mem' \in Store /\ ver' \in Nat /\ phase' \in Phase
      BY <2>3, <3>1, LoadListType, NewMemStorageType DEF Start, TypeOK, Phase
    <3>3. QED
      BY <2>3, <3>2 DEF Start, TypeOK, disk
  <2>4. CASE PeriodicSave
    BY <2>4, EnterSaveType DEF PeriodicSave, TypeOK, disk, Saver
  <2>5. CASE Stop
    BY <2>5 DEF Stop, TypeOK, disk, Phase
  <2>6. CASE TickerExit
    BY <2>6 DEF TickerExit, TypeOK, disk
  <2>7. CASE FinalSave
    BY <2>7, EnterSaveType DEF FinalSave, TypeOK, disk, Phase, Saver
  <2>8. CASE Exit
    BY <2>8, IdleType DEF Exit, Down, TypeOK, disk, Phase
  <2>9. CASE Crash
    BY <2>9, IdleType DEF Crash, Down, TypeOK, disk, Phase
  <2>10. CASE UNCHANGED vars
    BY <2>10 DEF TypeOK, vars, disk
  <2>11. QED
    BY <2>1, <2>2, <2>3, <2>4, <2>5, <2>6, <2>7, <2>8, <2>9, <2>10 DEF Next
<1>3. QED
  BY <1>1, <1>2, PTL DEF Spec

-----------------------------------------------------------------------------
(* saveToFile and loadFromFile are inverse to each other on their lists.   *)

(* What GetAllMetrics returns names every id at most once and holds no nil *)
(* pointer.                                                                *)
LEMMA GetAllMetricsFromMap ==
    ASSUME NEW ms \in Store
    PROVE  FromMap(GetAllMetrics(ms))
<1> DEFINE all == GetAllMetrics(ms)
<1>1. ASSUME NEW m \in all
      PROVE  /\ m.id \in Id
             /\ \/ HasCounter(ms, m.id) /\ m = Count(m.id, ms.counters[m.id])
                \/ ~HasCounter(ms, m.id) /\ HasGauge(ms, m.id)
                     /\ m = Gauge(m.id, ms.gauges[m.id])
  BY <1>1 DEF GetAllMetrics, Count, Gauge
<1>2. ASSUME NEW m \in all, NEW n \in all, m.id = n.id
      PROVE  m = n
  BY <1>1, <1>2
<1>3. ASSUME NEW m \in all
      PROVE  \/ m.mtype = "gauge" /\ m.value # Missing /\ m.delta = Missing
             \/ m.mtype = "counter" /\ m.delta # Missing /\ m.value = Missing
  BY <1>1 DEF HasCounter, HasGauge, Count, Gauge
<1>4. QED
  BY <1>2, <1>3 DEF FromMap

(* A metric with its kind is determined by its fields. *)
LEMMA MetricFields ==
    ASSUME NEW m \in Metric
    PROVE  /\ m.mtype = "gauge" /\ m.delta = Missing => m = Gauge(m.id, m.value)
           /\ m.mtype = "counter" /\ m.value = Missing => m = Count(m.id, m.delta)
  BY DEF Metric, Gauge, Count

(* The store loadFromFile builds holds exactly the list's entries. *)
LEMMA LoadListEntries ==
    ASSUME NEW list \in SUBSET Metric, FromMap(list), NEW i \in Id
    PROVE  /\ \A m \in list : m.id = i /\ m.mtype = "gauge" =>
                 LoadList(list).gauges[i] = m.value
           /\ \A m \in list : m.id = i /\ m.mtype = "counter" =>
                 LoadList(list).counters[i] = m.delta
           /\ HasGauge(LoadList(list), i) =>
                 \E m \in list : m.id = i /\ m.mtype = "gauge"
           /\ HasCounter(LoadList(list), i) =>
                 \E m \in list : m.id = i /\ m.mtype = "counter"
<1> DEFINE Entry(j, t) == {m \in list : m.id = j /\ m.mtype = t}
<1>1. ASSUME NEW t, NEW m \in Entry(i, t)
      PROVE  (CHOOSE n \in Entry(i, t) : TRUE) = m
  BY <1>1 DEF FromMap
<1>2. LoadList(list).gauges[i] = IF Entry(i, "gauge") = {} THEN Missing
                                 ELSE (CHOOSE m \in Entry(i, "gauge") : TRUE).value
  BY DEF LoadList
<1>3. LoadList(list).counters[i] = IF Entry(i, "counter") = {} THEN Missing
                                   ELSE (CHOOSE m \in Entry(i, "counter") : TRUE).delta
  BY DEF LoadList
<1>4. ASSUME NEW m \in list, m.id = i, m.mtype = "gauge"
      PROVE  LoadList(list).gauges[i] = m.value
  BY <1>1, <1>2, <1>4
<1>5. ASSUME NEW m \in list, m.id = i, m.mtype = "counter"
      PROVE  LoadList(list).counters[i] = m.delta
  BY <1>1, <1>3, <1>5
<1>6. QED
  BY <1>2, <1>3, <1>4, <1>5 DEF HasGauge, HasCounter

(* Saving what was loaded gives the file that was read. *)
LEMMA RoundTrip ==
    ASSUME NEW list \in SUBSET Metric, FromMap(list)
    PROVE  GetAllMetrics(LoadList(list)) = list
<1> DEFINE ms == LoadList(list)
<1>1. ASSUME NEW m \in list
      PROVE  m \in GetAllMetrics(ms)
  <2>1. m.id \in Id
    BY DEF Metric
  <2>2. CASE m.mtype = "gauge" /\ m.value # Missing /\ m.delta = Missing
    <3>1. HasGauge(ms, m.id) /\ m = Gauge(m.id, ms.gauges[m.id])
      BY <2>1, <2>2, LoadListEntries, MetricFields DEF HasGauge
    <3>2. ~HasCounter(ms, m.id)
      BY <2>1, <2>2, LoadListEntries DEF FromMap
    <3>3. QED
      BY <2>1, <3>1, <3>2 DEF GetAllMetrics
  <2>3. CASE m.mtype = "counter" /\ m.delta # Missing /\ m.value = Missing
    <3>1. HasCounter(ms, m.id) /\ m = Count(m.id, ms.counters[m.id])
      BY <2>1, <2>3, LoadListEntries, MetricFields DEF HasCounter
    <3>2. QED
      BY <2>1, <3>1 DEF GetAllMetrics
  <2>4. QED
    BY <2>2, <2>3 DEF FromMap
<1>2. ASSUME NEW m \in GetAllMetrics(ms)
      PROVE  m \in list
  <2>1. PICK i \in Id : \/ HasCounter(ms, i) /\ m = Count(i, ms.counters[i])
                        \/ HasGauge(ms, i) /\ m = Gauge(i, ms.gauges[i])
    BY <1>2 DEF GetAllMetrics
  <2>2. CASE HasCounter(ms, i) /\ m = Count(i, ms.counters[i])
    <3>1. PICK n \in list : n.id = i /\ n.mtype = "counter"
      BY <2>2, LoadListEntries
    <3>2. n.delta = ms.counters[i] /\ n.value = Missing
      BY <3>1, LoadListEntries DEF FromMap
    <3>3. QED
      BY <2>2, <3>1, <3>2, MetricFields
  <2>3. CASE HasGauge(ms, i) /\ m = Gauge(i, ms.gauges[i])
    <3>1. PICK n \in list : n.id = i /\ n.mtype = "gauge"
      BY <2>3, LoadListEntries
    <3>2. n.value = ms.gauges[i] /\ n.delta = Missing
      BY <3>1, LoadListEntries DEF FromMap
    <3>3. QED
      BY <2>3, <3>1, <3>2, MetricFields
  <2>4. QED
    BY <2>1, <2>2, <2>3
<1>3. QED
  BY <1>1, <1>2

-----------------------------------------------------------------------------
(* Periodic mode: savers do not overlap, so filePath is always complete.   *)

(* Becoming active changes nobody else's position, list or file. *)
LEMMA EnterOthers ==
    ASSUME TypeOK, NEW s \in Saver, NEW r, Enter(s, r)
    PROVE  \A t \in Saver \ {s} : /\ saver'[t].pc = saver[t].pc
                                 /\ saver'[t].snap = saver[t].snap
                                 /\ saver'[t].fd = saver[t].fd
  BY DEF TypeOK, Enter, SaverState

(* The one that enters is where r says. *)
LEMMA EnterEffect ==
    ASSUME TypeOK, NEW s \in Saver, NEW r \in SaverState, Enter(s, r)
    PROVE  \A t \in Saver :
              /\ t = s => /\ saver'[t].pc = r.pc
                          /\ saver'[t].snap = r.snap
                          /\ saver'[t].fd = r.fd
              /\ t # s => /\ saver'[t].pc = saver[t].pc
                          /\ saver'[t].snap = saver[t].snap
                          /\ saver'[t].fd = saver[t].fd
  BY DEF TypeOK, Enter, SaverState

(* A save starts with a complete list and no open file. *)
LEMMA EnterSaveEffect ==
    ASSUME TypeOK, NEW s \in Saver,
           Enter(s, [Idle EXCEPT !.pc = "create", !.snap = Snapshot])
    PROVE  \A t \in Saver :
              /\ t = s => /\ saver'[t].pc = "create"
                          /\ saver'[t].snap = Snapshot
                          /\ saver'[t].fd = NoInode
              /\ t # s => /\ saver'[t].pc = saver[t].pc
                          /\ saver'[t].snap = saver[t].snap
                          /\ saver'[t].fd = saver[t].fd
<1> DEFINE r == [Idle EXCEPT !.pc = "create", !.snap = Snapshot]
<1>1. r \in SaverState
  BY IdleType, SnapshotType, CreateType
<1>2. r.pc = "create" /\ r.snap = Snapshot /\ r.fd = NoInode
  BY DEF Idle
<1>3. Enter(s, r)
  OBVIOUS
<1> HIDE DEF r
<1>4. QED
  BY <1>1, <1>2, <1>3, EnterEffect

(* The periodic saver, the stop hook and the writers are different. *)
LEMMA SaverNames ==
    /\ Ticker \in Saver /\ Stopper \in Saver /\ Ticker # Stopper
    /\ \A w \in Writer : w \in Saver /\ w # Ticker /\ w # Stopper
  BY FileAssumption DEF Saver

(* The only saver that can be past its snapshot besides s is s itself. *)
LEMMA OnlyOneSaver ==
    ASSUME TypeOK, OneSaver, NEW s \in Saver, NEW t \in Saver,
           saver[s].pc \in {"create", "write", "rename"},
           saver[t].pc \in {"create", "write", "rename"}
    PROVE  s = t /\ s \in {Ticker, Stopper}
  BY SaverNames DEF OneSaver, Saver

(* A step of saveToFile keeps the tmp file with one saver. *)
LEMMA PeriodicSaveStep ==
    ASSUME TypeOK, OneSaver, TmpIsPrivate, NEW s \in Saver, SaveStep(s)
    PROVE  (OneSaver /\ TmpIsPrivate)'
<1>1. saver[s].pc \in {"create", "write", "rename"}
  BY DEF SaveStep, Create, Encode, EncodeFails, Rename, RenameFails, Fault
<1>2. /\ s \in {Ticker, Stopper}
      /\ \A t \in Saver : saver[t].pc \in {"create", "write", "rename"} => t = s
  BY <1>1, OnlyOneSaver
<1>3. CASE Create(s)
  <2>1. PICK i \in Inode :
          /\ i # dir.main
          /\ dir' = [dir EXCEPT !.tmp = i]
          /\ data' = [data EXCEPT ![i] = Torn]
          /\ saver' = [saver EXCEPT ![s].pc = "write", ![s].fd = i]
    BY <1>3, FileAssumption DEF Create, TypeOK, Fresh, InUse, TmpIsPrivate, MainExists
  <2>2. UNCHANGED <<phase, ticker>> /\ dir'.main = dir.main /\ dir'.tmp = i
    BY <1>3, <2>1 DEF Create, TypeOK
  <2>3. \A t \in Saver : /\ t # s => saver'[t] = saver[t]
                         /\ t = s => /\ saver'[t].pc = "write" /\ saver'[t].fd = i
                                     /\ saver'[t].snap = saver[t].snap
    BY <2>1 DEF TypeOK, SaverState
  <2>4. OneSaver'
    BY <1>2, <1>3, <2>2, <2>3, SaverNames DEF OneSaver, Create
  <2>5. MainExists' => dir'.main # dir'.tmp /\ Main'.intact
    BY <2>1, <2>2 DEF TmpIsPrivate, MainExists, Main, TypeOK
  <2>6. /\ saver'[s].pc = "write" /\ saver'[s].snap.intact
        /\ saver'[s].fd = dir'.tmp /\ dir'.tmp # NoInode
    BY <1>3, <2>2, <2>3, FileAssumption DEF TmpIsPrivate, Create
  <2>7. \A t \in Saver : t # s => saver'[t].pc \notin {"create", "write", "rename"}
    BY <1>2, <2>3
  <2>8. QED
    BY <2>4, <2>5, <2>6, <2>7 DEF TmpIsPrivate
<1>4. CASE Encode(s)
  <2>1. /\ data' = [data EXCEPT ![dir.tmp] = saver[s].snap]
        /\ dir.tmp \in Inode /\ saver[s].snap.intact
        /\ dir' = dir
    BY <1>4 DEF Encode, TmpIsPrivate, TypeOK
  <2>2. \A t \in Saver : /\ t # s => saver'[t] = saver[t]
                         /\ t = s => saver'[t].pc = "rename"
    BY <1>4 DEF Encode, TypeOK, SaverState
  <2>3. OneSaver'
    BY <1>2, <1>4, <2>2, SaverNames DEF OneSaver, Encode
  <2>4. data'[dir.tmp].intact
    BY <2>1 DEF TypeOK
  <2>5. MainExists => Main' = Main
    BY <2>1 DEF TypeOK, MainExists, Main, TmpIsPrivate
  <2>6. QED
    BY <1>2, <2>1, <2>2, <2>3, <2>4, <2>5, FileAssumption
       DEF TmpIsPrivate, MainExists, Main
<1>5. ASSUME NEW ok \in BOOLEAN, Return(s, ok), UNCHANGED ticker,
             dir.main' # NoInode => dir.main' # dir.tmp' /\ Main'.intact
      PROVE  (OneSaver /\ TmpIsPrivate)'
  <2>1. \A t \in Saver : /\ t # s => saver'[t] = saver[t]
                         /\ t = s => saver'[t].pc = "idle"
    BY <1>5 DEF Return, TypeOK, Idle
  <2>2. OneSaver'
    <3>1. saver[s].pc # "idle"
      BY <1>1
    <3>2. CASE s = Stopper
      BY <1>5, <2>1, <3>1, <3>2, SaverNames DEF OneSaver, Return
    <3>3. CASE s # Stopper
      BY <1>5, <2>1, <3>3, SaverNames DEF OneSaver, Return
    <3>4. QED
      BY <3>2, <3>3
  <2>3. \A t \in Saver : saver'[t].pc \notin {"create", "write", "rename"}
    BY <1>2, <2>1
  <2>4. QED
    BY <1>5, <2>2, <2>3 DEF TmpIsPrivate, MainExists
<1>6. CASE EncodeFails(s)
  BY <1>5, <1>6 DEF EncodeFails, disk, TmpIsPrivate, MainExists, Main
<1>7. CASE Rename(s)
  <2>1. /\ dir'.main = dir.tmp /\ dir'.tmp = NoInode
        /\ data' = data /\ data[dir.tmp].intact
    BY <1>7 DEF Rename, TmpIsPrivate
  <2>2. QED
    BY <1>5, <1>7, <2>1 DEF Rename, Main
<1>8. CASE RenameFails(s)
  BY <1>5, <1>8 DEF RenameFails, disk, TmpIsPrivate, MainExists, Main
<1>9. CASE Fault(s)
  <2>1. dir.main # NoInode => Main' = Main
    BY <1>9 DEF Fault, TmpIsPrivate, MainExists, Main, TypeOK
  <2>2. QED
    BY <1>5, <1>9, <2>1 DEF Fault, TmpIsPrivate, MainExists
<1>10. QED
  BY <1>3, <1>4, <1>6, <1>7, <1>8, <1>9 DEF SaveStep

(* A step that only moves goroutines in and out of a batch. *)
LEMMA PeriodicFrame ==
    ASSUME OneSaver, TmpIsPrivate, UNCHANGED <<phase, ticker, dir, data>>,
           \A t \in Saver :
              \/ /\ saver'[t].pc = saver[t].pc
                 /\ saver'[t].snap = saver[t].snap
                 /\ saver'[t].fd = saver[t].fd
              \/ t \in Writer /\ saver'[t].pc \in {"idle", "batch"}
    PROVE  (OneSaver /\ TmpIsPrivate)'
<1>1. OneSaver'
  BY SaverNames DEF OneSaver
<1>2. MainExists' => dir'.main # dir'.tmp /\ Main'.intact
  BY DEF TmpIsPrivate, MainExists, Main
<1>3. ASSUME NEW t \in Saver
      PROVE  /\ saver'[t].pc \in {"create", "write"} => saver'[t].snap.intact
             /\ saver'[t].pc = "write" => saver'[t].fd = dir'.tmp /\ dir'.tmp # NoInode
             /\ saver'[t].pc = "rename" => dir'.tmp # NoInode /\ data'[dir'.tmp].intact
  BY DEF TmpIsPrivate
<1>4. QED
  BY <1>1, <1>2, <1>3 DEF TmpIsPrivate

(* A step of an update does, since updates do not save in this mode. *)
LEMMA PeriodicWriterStep ==
    ASSUME TypeOK, OneSaver, TmpIsPrivate, ~SyncWrite, NEW w \in Writer, WriterStep(w)
    PROVE  (OneSaver /\ TmpIsPrivate)'
<1>1. ASSUME NEW ms, Update(w, ms)
      PROVE  (OneSaver /\ TmpIsPrivate)'
  BY <1>1, PeriodicFrame DEF Update, disk
<1>2. CASE UpdateGauge(w)
  BY <1>1, <1>2 DEF UpdateGauge
<1>3. CASE UpdateCounter(w)
  BY <1>1, <1>3 DEF UpdateCounter
<1>4. CASE UpdateBatch(w)
  <2>1. PICK b \in Batch :
          Enter(w, [Idle EXCEPT !.pc = "batch", !.todo = b, !.upd = ver + 1])
    BY <1>4 DEF UpdateBatch
  <2> DEFINE r == [Idle EXCEPT !.pc = "batch", !.todo = b, !.upd = ver + 1]
  <2>2. b \in Seq(Metric) /\ ver + 1 \in Nat
    BY FileAssumption DEF TypeOK
  <2>3. r \in SaverState
    BY <2>2, IdleType, BatchType
  <2>4. r.pc = "batch"
    BY DEF Idle
  <2>5. Enter(w, r)
    BY <2>1
  <2> HIDE DEF r
  <2>6. QED
    BY <1>4, <2>3, <2>4, <2>5, EnterEffect, SaverNames, PeriodicFrame
       DEF UpdateBatch, disk
<1>5. CASE BatchStep(w)
  <2>1. \A t \in Saver : /\ saver'[t].pc = saver[t].pc
                         /\ saver'[t].snap = saver[t].snap
                         /\ saver'[t].fd = saver[t].fd
    BY <1>5, SaverNames DEF BatchStep, TypeOK, SaverState
  <2>2. QED
    BY <1>5, <2>1, PeriodicFrame DEF BatchStep, disk
<1>6. CASE BatchEnd(w)
  <2>1. \A t \in Saver : /\ t # w => saver'[t] = saver[t]
                         /\ t = w => saver'[t].pc = "idle"
    BY <1>6, SaverNames DEF BatchEnd, TypeOK, Idle
  <2>2. QED
    BY <1>6, <2>1, PeriodicFrame DEF BatchEnd, disk
<1>7. CASE TakeSnapshot(w)
  BY <1>7 DEF TakeSnapshot, OneSaver
<1>8. QED
  BY <1>2, <1>3, <1>4, <1>5, <1>6, <1>7 DEF WriterStep

(* A saver starts: it is the only one. *)
LEMMA PeriodicEnterSave ==
    ASSUME TypeOK, OneSaver, TmpIsPrivate, ~StopTimesOut, PeriodicSave \/ FinalSave
    PROVE  (OneSaver /\ TmpIsPrivate)'
<1>1. PICK s \in {Ticker, Stopper} :
        /\ Enter(s, [Idle EXCEPT !.pc = "create", !.snap = Snapshot])
        /\ s = Ticker => PeriodicSave
        /\ s = Stopper => FinalSave
  BY SaverNames DEF PeriodicSave, FinalSave
<1>2. UNCHANGED <<ticker, dir, data>>
  BY DEF PeriodicSave, FinalSave, disk
<1>3. \A t \in Saver :
         /\ t = s => saver'[t].pc = "create" /\ saver'[t].snap = Snapshot
         /\ t # s => /\ saver'[t].pc = saver[t].pc
                     /\ saver'[t].snap = saver[t].snap
                     /\ saver'[t].fd = saver[t].fd
  BY <1>1, EnterSaveEffect, SaverNames
<1>4. OneSaver'
  BY <1>1, <1>2, <1>3, SaverNames DEF OneSaver, PeriodicSave, FinalSave
<1>5. MainExists' => dir'.main # dir'.tmp /\ Main'.intact
  BY <1>2 DEF TmpIsPrivate, MainExists, Main
<1>6. Snapshot.intact
  BY DEF Snapshot
<1>7. ASSUME NEW t \in Saver
      PROVE  /\ saver'[t].pc \in {"create", "write"} => saver'[t].snap.intact
             /\ saver'[t].pc = "write" => saver'[t].fd = dir'.tmp /\ dir'.tmp # NoInode
             /\ saver'[t].pc = "rename" => dir'.tmp # NoInode /\ data'[dir'.tmp].intact
  BY <1>2, <1>3, <1>6 DEF TmpIsPrivate
<1>8. QED
  BY <1>4, <1>5, <1>7 DEF TmpIsPrivate

(* Every goroutine stops with the process. *)
LEMMA PeriodicDown ==
    ASSUME TmpIsPrivate, Down
    PROVE  (OneSaver /\ TmpIsPrivate)'
<1>1. \A t \in Saver : saver'[t].pc = "idle"
  BY DEF Down, Idle
<1>2. OneSaver'
  BY <1>1, SaverNames DEF OneSaver, Down
<1>3. QED
  BY <1>1, <1>2 DEF TmpIsPrivate, MainExists, Main, Down, disk

(* Every step does. *)
LEMMA PeriodicInvStep ==
    ASSUME TypeOK, PeriodicInv, [Next]_vars
    PROVE  PeriodicInv'
<1> SUFFICES ASSUME ~SyncWrite, ~StopTimesOut, OneSaver, TmpIsPrivate
             PROVE  (OneSaver /\ TmpIsPrivate)'
  BY DEF PeriodicInv
<1>1. CASE \E w \in Writer : WriterStep(w)
  BY <1>1, PeriodicWriterStep
<1>2. CASE \E s \in Saver : SaveStep(s)
  BY <1>2, PeriodicSaveStep
<1>3. CASE Start
  <2>1. phase' = "up" /\ ticker' = "running" /\ UNCHANGED <<saver, dir, data>>
    BY <1>3 DEF Start, TmpIsPrivate, MainExists, Main, disk
  <2>2. saver[Stopper].pc = "idle"
    BY <1>3 DEF Start, OneSaver
  <2>3. QED
    BY <2>1, <2>2 DEF OneSaver, TmpIsPrivate, MainExists, Main
<1>4. CASE PeriodicSave \/ FinalSave
  BY <1>4, PeriodicEnterSave
<1>5. CASE Stop
  <2>1. saver[Stopper].pc = "idle"
    BY <1>5 DEF Stop, OneSaver
  <2>2. QED
    BY <1>5, <2>1 DEF Stop, OneSaver, TmpIsPrivate, MainExists, Main, disk
<1>6. CASE TickerExit
  BY <1>6 DEF TickerExit, OneSaver, TmpIsPrivate, MainExists, Main, disk
<1>7. CASE Exit \/ Crash
  BY <1>7, PeriodicDown DEF Exit, Crash
<1>8. CASE UNCHANGED vars
  BY <1>8 DEF vars, OneSaver, TmpIsPrivate, MainExists, Main, disk
<1>9. QED
  BY <1>1, <1>2, <1>3, <1>4, <1>5, <1>6, <1>7, <1>8 DEF Next

(* There are no savers before the first start. *)
LEMMA PeriodicInvInit ==
    ASSUME Init
    PROVE  PeriodicInv
<1>1. \A t \in Saver : saver[t].pc = "idle"
  BY DEF Init, Idle
<1>2. QED
  BY <1>1, SaverNames DEF Init, PeriodicInv, OneSaver, TmpIsPrivate, MainExists

(* The tmp file belongs to one saver at a time. *)
LEMMA PeriodicInvHolds == Spec => []PeriodicInv
<1>1. Init => PeriodicInv
  BY PeriodicInvInit
<1>2. TypeOK /\ PeriodicInv /\ [Next]_vars => PeriodicInv'
  BY PeriodicInvStep
<1>3. QED
  BY <1>1, <1>2, TypeCorrect, PTL DEF Spec

(* With a periodic saver and a stop hook that waits for it, filePath is    *)
(* absent or a complete list in every state: a crash at any point of a     *)
(* save leaves a file the next start can load.                             *)
THEOREM PeriodicFileIntact == Spec => []MainIntact
<1>1. PeriodicInv => MainIntact
  BY DEF PeriodicInv, MainIntact, TmpIsPrivate
<1>2. QED
  BY <1>1, PeriodicInvHolds, PTL

-----------------------------------------------------------------------------
(* Any mode: filePath holds a state the store was in.                      *)

(* A step of an update: no saver moves on, the files stay, and a list that *)
(* reflected the store does so still, having fewer updates than it.        *)
LEMMA SnapshotFrame ==
    ASSUME TypeOK, SnapshotInv, UNCHANGED <<phase, dir, data>>, Running,
           \A c \in Content : Reflects(c) => Reflects(c)',
           \A t \in Saver :
              \/ /\ saver'[t].pc = saver[t].pc
                 /\ saver'[t].snap = saver[t].snap
              \/ /\ saver'[t].pc \notin {"create", "write", "rename"}
                 /\ saver'[t].snap.intact => saver'[t].snap = saver[t].snap,
           \A t \in Saver : saver'[t].pc = "batch" <=> mu' = t
    PROVE  SnapshotInv'
<1>1. Running'
  BY DEF Running
<1>2. \A t \in Saver : saver'[t].snap.intact => FromMap(saver'[t].snap.list)
  BY DEF SnapshotInv
<1>3. \A i \in Inode : data'[i].intact => FromMap(data'[i].list)
  BY DEF SnapshotInv
<1>4. ASSUME Restore, MainExists'
      PROVE  Reflects(Main)'
  <2>1. Main \in Content /\ Reflects(Main) /\ Main' = Main
    BY <1>4 DEF SnapshotInv, TypeOK, MainExists, Main
  <2>2. QED
    BY <2>1 DEF Reflects
<1>5. ASSUME Restore, NEW t \in Saver, saver'[t].pc \in {"create", "write", "rename"}
      PROVE  Reflects(saver[t].snap)'
  <2>1. saver[t].snap \in Content /\ Reflects(saver[t].snap) /\ saver'[t].snap = saver[t].snap
    BY <1>5 DEF SnapshotInv, TypeOK, SaverState
  <2>2. QED
    BY <2>1 DEF Reflects
<1>6. ASSUME Restore, NEW t \in Saver, saver'[t].pc \in {"write", "rename"}, dir'.tmp # NoInode
      PROVE  Reflects(data[dir.tmp])'
  <2>1. data[dir.tmp] \in Content /\ Reflects(data[dir.tmp])
    BY <1>6 DEF SnapshotInv, TypeOK
  <2>2. QED
    BY <2>1 DEF Reflects
<1>7. QED
  BY <1>1, <1>2, <1>3, <1>4, <1>5, <1>6 DEF SnapshotInv

(* The store has seen one more update. *)
LEMMA ReflectsEarlier ==
    ASSUME ver \in Nat, ver' = ver + 1, NEW c \in Content, Reflects(c)
    PROVE  Reflects(c)'
  BY DEF Reflects, Content

(* An update leaves every snapshot one of the past. *)
LEMMA SnapshotWriterStep ==
    ASSUME TypeOK, SnapshotInv, NEW w \in Writer, WriterStep(w)
    PROVE  SnapshotInv'
<1>1. /\ w \in Saver /\ saver[w] \in SaverState
      /\ NoOne \notin Saver
  BY SaverNames, FileAssumption DEF TypeOK, NoOne
<1>2. ASSUME NEW ms, Update(w, ms)
      PROVE  SnapshotInv'
  <2>1. Running /\ \A c \in Content : Reflects(c) => Reflects(c)'
    BY <1>2, ReflectsEarlier DEF Update, Serving, Running, TypeOK
  <2>2. CASE ~SyncWrite
    BY <1>2, <2>1, <2>2, SnapshotFrame DEF Update, disk, SnapshotInv
  <2>3. CASE SyncWrite
    <3> DEFINE r == [Idle EXCEPT !.pc = "updated", !.upd = ver + 1]
    <3>1. ver + 1 \in Nat
      BY DEF TypeOK
    <3>2. r \in SaverState /\ r.pc = "updated" /\ ~r.snap.intact
      BY <3>1, IdleType, UpdatedType DEF Idle, Torn
    <3>3. Enter(w, r)
      BY <1>2, <2>3 DEF Update
    <3> HIDE DEF r
    <3>4. \A t \in Saver : /\ t = w => saver'[t].pc = "updated" /\ ~saver'[t].snap.intact
                           /\ t # w => /\ saver'[t].pc = saver[t].pc
                                       /\ saver'[t].snap = saver[t].snap
      BY <1>1, <3>2, <3>3, EnterEffect
    <3>5. \A t \in Saver : saver'[t].pc = "batch" <=> mu' = t
      BY <1>1, <1>2, <3>4 DEF Update, SnapshotInv
    <3>6. QED
      BY <1>2, <2>1, <3>4, <3>5, SnapshotFrame DEF Update, disk
  <2>4. QED
    BY <2>2, <2>3
<1>3. CASE UpdateGauge(w)
  BY <1>2, <1>3 DEF UpdateGauge
<1>4. CASE UpdateCounter(w)
  BY <1>2, <1>4 DEF UpdateCounter
<1>5. CASE UpdateBatch(w)
  <2>1. PICK b \in Batch :
          Enter(w, [Idle EXCEPT !.pc = "batch", !.todo = b, !.upd = ver + 1])
    BY <1>5 DEF UpdateBatch
  <2> DEFINE r == [Idle EXCEPT !.pc = "batch", !.todo = b, !.upd = ver + 1]
  <2>2. b \in Seq(Metric) /\ ver + 1 \in Nat
    BY FileAssumption DEF TypeOK
  <2>3. r \in SaverState /\ r.pc = "batch" /\ ~r.snap.intact
    BY <2>2, IdleType, BatchType DEF Idle, Torn
  <2>4. Enter(w, r)
    BY <2>1
  <2> HIDE DEF r
  <2>5. \A t \in Saver : /\ t = w => saver'[t].pc = "batch" /\ ~saver'[t].snap.intact
                         /\ t # w => /\ saver'[t].pc = saver[t].pc
                                     /\ saver'[t].snap = saver[t].snap
    BY <1>1, <2>3, <2>4, EnterEffect
  <2>6. \A t \in Saver : saver'[t].pc = "batch" <=> mu' = t
    BY <1>1, <1>5, <2>5 DEF UpdateBatch, SnapshotInv
  <2>7. Running /\ \A c \in Content : Reflects(c) => Reflects(c)'
    BY <1>5, ReflectsEarlier DEF UpdateBatch, Serving, Running, TypeOK
  <2>8. QED
    BY <1>5, <2>5, <2>6, <2>7, SnapshotFrame, IdleType
       DEF UpdateBatch, disk
<1>6. ASSUME saver[w].pc = "batch"
      PROVE  Running /\ mu = w /\ \A c \in Content : Reflects(c) => (c.intact => c.ver < ver)
  <2>1. Running /\ mu = w
    BY <1>1, <1>6 DEF SnapshotInv, Idle
  <2>2. QED
    BY <1>1, <2>1 DEF Reflects, TypeOK, Content
<1>7. CASE BatchStep(w)
  <2>1. saver[w].pc = "batch"
    BY <1>7 DEF BatchStep
  <2>2. \A c \in Content : Reflects(c) => Reflects(c)'
    BY <1>6, <1>7, <2>1 DEF BatchStep, Reflects, TypeOK, Content
  <2>3. \A t \in Saver : /\ saver'[t].pc = saver[t].pc
                         /\ saver'[t].snap = saver[t].snap
    BY <1>1, <1>7 DEF BatchStep, TypeOK, SaverState
  <2>4. QED
    BY <1>6, <1>7, <2>1, <2>2, <2>3, SnapshotFrame DEF BatchStep, disk, SnapshotInv
<1>8. CASE BatchEnd(w)
  <2>1. saver[w].pc = "batch"
    BY <1>8 DEF BatchEnd
  <2>2. \A c \in Content : Reflects(c) => Reflects(c)'
    BY <1>6, <1>8, <2>1 DEF BatchEnd, Reflects, TypeOK, Content
  <2>3. \A t \in Saver :
           /\ t # w => saver'[t] = saver[t]
           /\ t = w => /\ saver'[t].pc \in {"idle", "updated"}
                       /\ saver'[t].snap.intact => saver'[t].snap = saver[t].snap
    <3>1. CASE SyncWrite
      <4>1. saver' = [saver EXCEPT ![w].pc = "updated"]
        BY <1>8, <3>1 DEF BatchEnd, Goto
      <4>2. QED
        BY <1>1, <4>1 DEF TypeOK, SaverState
    <3>2. CASE ~SyncWrite
      BY <1>1, <1>8, <3>2 DEF BatchEnd, TypeOK, Idle, Torn
    <3>3. QED
      BY <3>1, <3>2
  <2>4. \A t \in Saver : saver'[t].pc = "batch" <=> mu' = t
    BY <1>1, <1>8, <2>1, <2>3 DEF BatchEnd, SnapshotInv
  <2>5. QED
    BY <1>6, <1>8, <2>1, <2>2, <2>3, <2>4, SnapshotFrame DEF BatchEnd, disk
<1>9. CASE TakeSnapshot(w)
  <2>1. \A t \in Saver : /\ t # w => saver'[t] = saver[t]
                         /\ t = w => saver'[t].pc = "create" /\ saver'[t].snap = Snapshot
    BY <1>1, <1>9 DEF TakeSnapshot, TypeOK, SaverState
  <2>2. FromMap(Snapshot.list) /\ Reflects(Snapshot)
    BY <1>9, GetAllMetricsFromMap DEF TakeSnapshot, Snapshot, TypeOK, Reflects
  <2>3. UNCHANGED <<mem, mu, ver, phase, dir, data>> /\ saver[w].pc = "updated"
    BY <1>9 DEF TakeSnapshot, disk
  <2>4. QED
    BY <1>1, <2>1, <2>2, <2>3
       DEF SnapshotInv, Running, MainExists, Main, Reflects, Idle
<1>10. QED
  BY <1>3, <1>4, <1>5, <1>7, <1>8, <1>9 DEF WriterStep

(* What a step of saveToFile by s may do: only s moves, to the next system *)
(* call or back to its caller; the file it changes is torn or has its list *)
(* afterwards; the tmp file is the one it was, a torn one, or none.        *)
SaveEffect(s) ==
    /\ UNCHANGED <<mem, mu, ver>>
    /\ Running'
    /\ \A t \in Saver : t # s => saver'[t] = saver[t]
    /\ \/ saver'[s].pc \in {"write", "rename"} /\ saver'[s].snap = saver[s].snap
       \/ saver'[s].pc = "idle" /\ ~saver'[s].snap.intact
    /\ \A i \in Inode : \/ data'[i] = data[i]
                        \/ ~data'[i].intact
                        \/ data'[i] = saver[s].snap
    /\ \/ dir'.main = dir.main
       \/ dir'.main = dir.tmp /\ saver[s].pc = "rename"
    /\ \/ dir'.tmp = NoInode
       \/ dir'.tmp \in Inode /\ ~data'[dir'.tmp].intact
       \/ dir'.tmp = dir.tmp /\ (saver[s].pc # "create" \/ saver'[s].pc = "idle")
    /\ dir' \in [main : Inode \cup {NoInode}, tmp : Inode \cup {NoInode}]

(* What a save step writes is the snapshot its saver took. *)
LEMMA SnapshotSaveFrame ==
    ASSUME TypeOK, SnapshotInv, NEW s \in Saver, SaveEffect(s),
           saver[s].pc \in {"create", "write", "rename"}
    PROVE  SnapshotInv'
<1> USE DEF SaveEffect
<1>1. \A i \in Inode : data'[i].intact => FromMap(data'[i].list)
  BY DEF SnapshotInv
<1>2. \A t \in Saver : saver'[t].snap.intact => FromMap(saver'[t].snap.list)
  BY DEF SnapshotInv
<1>3. \A t \in Saver : saver'[t].pc = "batch" <=> mu' = t
  BY DEF SnapshotInv
<1>4. Running /\ Running'
  BY DEF SnapshotInv, Idle
<1>5. ASSUME Restore
      PROVE  /\ MainExists' => Reflects(Main)'
             /\ \A t \in Saver :
                   /\ saver'[t].pc \in {"create", "write", "rename"} => Reflects(saver[t].snap)'
                   /\ saver'[t].pc \in {"write", "rename"} /\ dir'.tmp # NoInode =>
                        Reflects(data[dir.tmp])'
  <2>1. Reflects(saver[s].snap)
    BY <1>4, <1>5 DEF SnapshotInv
  <2>2. ASSUME MainExists'
        PROVE  Reflects(Main)'
    <3>1. dir'.main \in Inode /\ (dir.main = dir'.main => Reflects(Main))
      BY <1>4, <1>5, <2>2 DEF MainExists, SnapshotInv
    <3>2. dir.main = dir'.main \/ (dir'.main = dir.tmp /\ Reflects(data[dir.tmp]))
      BY <1>4, <1>5, <2>2 DEF MainExists, SnapshotInv
    <3>3. Reflects(data[dir'.main])
      BY <3>1, <3>2 DEF Main
    <3>4. QED
      BY <2>1, <3>1, <3>3 DEF Main, Reflects
  <2>3. ASSUME NEW t \in Saver, saver'[t].pc \in {"create", "write", "rename"}
        PROVE  Reflects(saver[t].snap)'
    <3>1. saver'[t].snap = saver[t].snap /\ Reflects(saver[t].snap)
      BY <1>4, <1>5, <2>1, <2>3 DEF SnapshotInv
    <3>2. QED
      BY <3>1 DEF Reflects
  <2>4. ASSUME NEW t \in Saver, saver'[t].pc \in {"write", "rename"}, dir'.tmp # NoInode
        PROVE  Reflects(data[dir.tmp])'
    <3>1. CASE ~data'[dir'.tmp].intact
      BY <3>1 DEF Reflects
    <3>2. CASE data'[dir'.tmp].intact
      <4>1. dir'.tmp = dir.tmp /\ dir.tmp \in Inode /\ Reflects(data[dir.tmp])
        BY <1>4, <1>5, <2>4, <3>2 DEF SnapshotInv
      <4>2. QED
        BY <2>1, <3>2, <4>1 DEF Reflects
    <3>3. QED
      BY <3>1, <3>2
  <2>5. QED
    BY <2>2, <2>3, <2>4
<1>6. QED
  BY <1>1, <1>2, <1>3, <1>4, <1>5 DEF SnapshotInv

(* A step of saveToFile keeps every file a snapshot. *)
LEMMA SnapshotSaveStep ==
    ASSUME TypeOK, SnapshotInv, NEW s \in Saver, SaveStep(s)
    PROVE  SnapshotInv'
<1>1. /\ saver[s].pc \in {"create", "write", "rename"}
      /\ saver[s] \in SaverState
      /\ Running
  <2>1. saver[s].pc \in {"create", "write", "rename"}
    BY DEF SaveStep, Create, Encode, EncodeFails, Rename, RenameFails, Fault
  <2>2. saver[s] \in SaverState
    BY DEF TypeOK
  <2>3. Running
    BY <2>1 DEF SnapshotInv, Idle
  <2>4. QED
    BY <2>1, <2>2, <2>3
<1>2. ASSUME NEW ok \in BOOLEAN, Return(s, ok)
      PROVE  /\ Running'
             /\ \A t \in Saver : t # s => saver'[t] = saver[t]
             /\ saver'[s].pc = "idle" /\ ~saver'[s].snap.intact
  BY <1>1, <1>2 DEF Return, Running, TypeOK, Idle, Torn
<1>3. CASE Create(s)
  <2>1. PICK i \in Inode :
          /\ dir' = [dir EXCEPT !.tmp = i]
          /\ data' = [data EXCEPT ![i] = Torn]
          /\ saver' = [saver EXCEPT ![s].pc = "write", ![s].fd = i]
    BY <1>3 DEF Create, TypeOK, Fresh
  <2>2. /\ dir'.main = dir.main /\ dir'.tmp = i
        /\ dir' \in [main : Inode \cup {NoInode}, tmp : Inode \cup {NoInode}]
    BY <2>1 DEF TypeOK
  <2>3. \A j \in Inode : data'[j] = data[j] \/ ~data'[j].intact
    BY <2>1 DEF TypeOK, Torn
  <2>4. ~data'[i].intact
    BY <2>1 DEF TypeOK, Torn
  <2>5. \A t \in Saver : /\ t # s => saver'[t] = saver[t]
                         /\ t = s => saver'[t].pc = "write" /\ saver'[t].snap = saver[t].snap
    BY <2>1 DEF TypeOK, SaverState
  <2>6. UNCHANGED <<mem, mu, ver, phase>>
    BY <1>3 DEF Create
  <2>7. Running'
    BY <1>1, <2>6 DEF Running
  <2>8. SaveEffect(s)
    BY <2>2, <2>3, <2>4, <2>5, <2>6, <2>7 DEF SaveEffect
  <2>9. QED
    BY <1>1, <2>8, SnapshotSaveFrame
<1>4. CASE Encode(s)
  <2>1. /\ data' = [data EXCEPT ![saver[s].fd] = saver[s].snap]
        /\ UNCHANGED <<mem, mu, ver, phase, dir>> /\ saver[s].pc = "write"
    BY <1>4 DEF Encode
  <2>2. \A j \in Inode : data'[j] = data[j] \/ data'[j] = saver[s].snap
    BY <2>1 DEF TypeOK
  <2>3. \A t \in Saver : /\ t # s => saver'[t] = saver[t]
                         /\ t = s => saver'[t].pc = "rename" /\ saver'[t].snap = saver[t].snap
    BY <1>4 DEF Encode, TypeOK, SaverState
  <2>4. Running' /\ dir' \in [main : Inode \cup {NoInode}, tmp : Inode \cup {NoInode}]
    BY <1>1, <2>1 DEF Running, TypeOK
  <2>5. SaveEffect(s)
    BY <2>1, <2>2, <2>3, <2>4 DEF SaveEffect
  <2>6. QED
    BY <1>1, <2>5, SnapshotSaveFrame
<1>5. CASE EncodeFails(s) \/ RenameFails(s)
  <2>1. Return(s, FALSE) /\ UNCHANGED <<mem, mu, ver, dir, data>>
    BY <1>5 DEF EncodeFails, RenameFails, disk
  <2>2. dir' \in [main : Inode \cup {NoInode}, tmp : Inode \cup {NoInode}]
    BY <2>1 DEF TypeOK
  <2>3. SaveEffect(s)
    BY <1>2, <2>1, <2>2 DEF SaveEffect
  <2>4. QED
    BY <1>1, <2>3, SnapshotSaveFrame
<1>6. CASE Rename(s)
  <2>1. /\ Return(s, TRUE) /\ UNCHANGED <<mem, mu, ver, data>>
        /\ dir' = [main |-> dir.tmp, tmp |-> NoInode] /\ saver[s].pc = "rename"
    BY <1>6 DEF Rename
  <2>2. /\ dir' \in [main : Inode \cup {NoInode}, tmp : Inode \cup {NoInode}]
        /\ dir'.main = dir.tmp /\ dir'.tmp = NoInode
    BY <2>1 DEF TypeOK
  <2>3. SaveEffect(s)
    BY <1>2, <2>1, <2>2 DEF SaveEffect
  <2>4. QED
    BY <1>1, <2>3, SnapshotSaveFrame
<1>7. CASE Fault(s)
  <2>1. Return(s, FALSE) /\ UNCHANGED <<mem, mu, ver, dir>>
    BY <1>7 DEF Fault
  <2>2. \A j \in Inode : data'[j] = data[j] \/ ~data'[j].intact
    BY <1>7 DEF Fault, TypeOK, Torn
  <2>3. dir' \in [main : Inode \cup {NoInode}, tmp : Inode \cup {NoInode}]
    BY <2>1 DEF TypeOK
  <2>4. SaveEffect(s)
    BY <1>2, <2>1, <2>2, <2>3 DEF SaveEffect
  <2>5. QED
    BY <1>1, <2>4, SnapshotSaveFrame
<1>8. QED
  BY <1>3, <1>4, <1>5, <1>6, <1>7 DEF SaveStep

(* The periodic saver or the stop hook takes a snapshot. *)
LEMMA SnapshotEnterSave ==
    ASSUME TypeOK, SnapshotInv, PeriodicSave \/ FinalSave
    PROVE  SnapshotInv'
<1>1. PICK s \in {Ticker, Stopper} :
        Enter(s, [Idle EXCEPT !.pc = "create", !.snap = Snapshot])
  BY DEF PeriodicSave, FinalSave
<1>2. /\ UNCHANGED <<mem, mu, ver, dir, data>> /\ mu = NoOne
      /\ Running /\ Running'
  BY DEF PeriodicSave, FinalSave, disk, Running
<1>3. \A t \in Saver :
         /\ t = s => saver'[t].pc = "create" /\ saver'[t].snap = Snapshot
         /\ t # s => saver'[t].pc = saver[t].pc /\ saver'[t].snap = saver[t].snap
  BY <1>1, EnterSaveEffect, SaverNames
<1>4. FromMap(Snapshot.list) /\ Reflects(Snapshot)
  BY <1>2, GetAllMetricsFromMap DEF Snapshot, TypeOK, Reflects
<1>5. mu # s
  BY <1>2, SaverNames, FileAssumption DEF NoOne
<1>6. QED
  BY <1>2, <1>3, <1>4, <1>5 DEF SnapshotInv, MainExists, Main, Reflects

(* A start loads what the file reflects. *)
LEMMA SnapshotStart ==
    ASSUME TypeOK, SnapshotInv, Start
    PROVE  SnapshotInv'
<1>1. \A s \in Saver : saver[s] = Idle /\ saver'[s] = Idle
  BY DEF SnapshotInv, Start, Running
<1>2. UNCHANGED <<mu, dir, data>>
  BY DEF Start, disk
<1>3. mu = NoOne
  BY <1>1, SaverNames DEF SnapshotInv, Idle, TypeOK
<1>4. ASSUME Restore, MainExists, Running'
      PROVE  Reflects(Main)'
  <2>1. Main.intact /\ mem' = LoadList(Main.list) /\ ver' = Main.ver
    BY <1>4 DEF Start, Running
  <2>2. Main.list \in SUBSET Metric /\ FromMap(Main.list) /\ Main.ver \in Nat
    BY <1>4, <2>1 DEF TypeOK, Content, MainExists, Main, SnapshotInv
  <2>3. GetAllMetrics(mem') = Main.list
    BY <2>1, <2>2, RoundTrip
  <2>4. QED
    BY <1>2, <1>3, <2>1, <2>2, <2>3 DEF Reflects, Main
<1>5. MainExists' <=> MainExists
  BY <1>2 DEF MainExists
<1>6. \A s \in Saver : /\ saver'[s].pc = "idle" /\ ~saver'[s].snap.intact
                       /\ (saver'[s].pc = "batch" <=> mu' = s)
  BY <1>1, <1>2, <1>3, FileAssumption DEF Idle, Torn, NoOne
<1>7. \A i \in Inode : data'[i].intact => FromMap(data'[i].list)
  BY <1>2 DEF SnapshotInv
<1>8. QED
  BY <1>1, <1>4, <1>5, <1>6, <1>7 DEF SnapshotInv

(* The end of the process changes no file. *)
LEMMA SnapshotDown ==
    ASSUME TypeOK, SnapshotInv, Down
    PROVE  SnapshotInv'
<1>1. \A s \in Saver : saver'[s] = Idle
  BY DEF Down
<1>2. UNCHANGED <<dir, data>> /\ ~Running' /\ mu' = NoOne
  BY DEF Down, disk, Running
<1>3. \A s \in Saver : /\ saver'[s].pc = "idle" /\ ~saver'[s].snap.intact
                       /\ (saver'[s].pc = "batch" <=> mu' = s)
  BY <1>1, <1>2, FileAssumption DEF Idle, Torn, NoOne
<1>4. \A i \in Inode : data'[i].intact => FromMap(data'[i].list)
  BY <1>2 DEF SnapshotInv
<1>5. QED
  BY <1>1, <1>2, <1>3, <1>4 DEF SnapshotInv

(* Every step keeps every file a snapshot. *)
LEMMA SnapshotInvStep ==
    ASSUME TypeOK, SnapshotInv, [Next]_vars
    PROVE  SnapshotInv'
<1>1. CASE \E w \in Writer : WriterStep(w)
  BY <1>1, SnapshotWriterStep
<1>2. CASE \E s \in Saver : SaveStep(s)
  BY <1>2, SnapshotSaveStep
<1>3. CASE Start
  BY <1>3, SnapshotStart
<1>4. CASE PeriodicSave \/ FinalSave
  BY <1>4, SnapshotEnterSave
<1>5. CASE Exit \/ Crash
  BY <1>5, SnapshotDown DEF Exit, Crash
<1>6. CASE Stop \/ TickerExit \/ UNCHANGED vars
  <2>1. UNCHANGED <<mem, mu, ver, saver, dir, data>> /\ (Running <=> Running')
    BY <1>6 DEF Stop, TickerExit, vars, disk, Running
  <2>2. QED
    BY <2>1 DEF SnapshotInv, MainExists, Main, Reflects
<1>7. QED
  BY <1>1, <1>2, <1>3, <1>4, <1>5, <1>6 DEF Next

(* Every file and every list being saved is a snapshot. *)
LEMMA SnapshotInvHolds == Spec => []SnapshotInv
<1>1. ASSUME Init
      PROVE  SnapshotInv
  BY <1>1, FileAssumption DEF Init, SnapshotInv, Running, Idle, Torn, NoOne
<1>2. TypeOK /\ SnapshotInv /\ [Next]_vars => SnapshotInv'
  BY SnapshotInvStep
<1>3. QED
  BY <1>1, <1>2, TypeCorrect, PTL DEF Spec

(* In every mode, with any number of overlapping savers, crashes and       *)
(* restarts from a stale tmp file, a complete filePath holds a state the   *)
(* store was in, and the present one if it has seen as many updates: a     *)
(* restore never makes metrics up and never sees half of a batch.          *)
THEOREM FileHoldsSnapshot == Spec => []FileIsSnapshot
<1>1. SnapshotInv => FileIsSnapshot
  BY DEF SnapshotInv, FileIsSnapshot, Reflects, Running
<1>2. QED
  BY <1>1, SnapshotInvHolds, PTL

-----------------------------------------------------------------------------
(* Periodic mode: filePath never goes back to an older list.               *)

(* Only a rename changes what filePath has. *)
LEMMA MainFrame ==
    ASSUME TypeOK, PeriodicInv, ~SyncWrite, ~StopTimesOut, [Next]_vars,
           ~ \E s \in Saver : Rename(s)
    PROVE  dir'.main = dir.main /\ (MainExists => Main' = Main)
<1>1. OneSaver /\ TmpIsPrivate
  BY DEF PeriodicInv
<1>2. ASSUME NEW w \in Writer, WriterStep(w)
      PROVE  UNCHANGED <<dir, data>>
  BY <1>2 DEF WriterStep, UpdateGauge, UpdateCounter, Update, UpdateBatch,
              BatchStep, BatchEnd, TakeSnapshot, disk
<1>3. ASSUME NEW s \in Saver, SaveStep(s)
      PROVE  dir'.main = dir.main /\ (MainExists => Main' = Main)
  <2>1. CASE Create(s)
    <3>1. PICK i \in Inode : /\ i # dir.main
                            /\ dir' = [dir EXCEPT !.tmp = i]
                            /\ data' = [data EXCEPT ![i] = Torn]
      BY <1>1, <2>1, FileAssumption
         DEF Create, TypeOK, Fresh, InUse, TmpIsPrivate, MainExists
    <3>2. QED
      BY <3>1 DEF TypeOK, MainExists, Main
  <2>2. CASE Encode(s) \/ Fault(s)
    <3>1. saver[s].pc = "write" => saver[s].fd # dir.main \/ ~MainExists
      BY <1>1 DEF TmpIsPrivate
    <3>2. dir' = dir
      BY <2>2 DEF Encode, Fault
    <3>3. MainExists => data'[dir.main] = data[dir.main]
      BY <2>2, <3>1 DEF Encode, Fault, TypeOK, MainExists
    <3>4. QED
      BY <3>2, <3>3 DEF Main
  <2>3. CASE EncodeFails(s) \/ RenameFails(s)
    BY <2>3 DEF EncodeFails, RenameFails, disk, Main
  <2>4. QED
    BY <1>3, <2>1, <2>2, <2>3 DEF SaveStep
<1>4. CASE Start \/ PeriodicSave \/ Stop \/ TickerExit \/ FinalSave \/ Exit \/ Crash
           \/ UNCHANGED vars
  BY <1>4 DEF Start, PeriodicSave, Stop, TickerExit, FinalSave, Exit, Crash, Down,
              vars, disk, Main
<1>5. QED
  BY <1>2, <1>3, <1>4 DEF Next, Main

(* A rename puts a list in place that is no older. *)
LEMMA RenameForward ==
    ASSUME TypeOK, PeriodicInv, ForwardInv, ~SyncWrite, ~StopTimesOut, Restore, MainExists,
           NEW s \in Saver, Rename(s)
    PROVE  MainExists' /\ Main'.ver >= Main.ver
  BY DEF Rename, MainExists, Main, ForwardInv

(* Every step keeps the list being saved at least as new as the file. *)
LEMMA ForwardInvStep ==
    ASSUME TypeOK, PeriodicInv, SnapshotInv, ForwardInv, [Next]_vars
    PROVE  ForwardInv'
<1> SUFFICES ASSUME ~SyncWrite, ~StopTimesOut, Restore, MainExists'
             PROVE  \A t \in Saver :
                      /\ saver'[t].pc \in {"create", "write"} => saver'[t].snap.ver >= Main'.ver
                      /\ saver'[t].pc = "rename" => data'[dir'.tmp].ver >= Main'.ver
  BY DEF ForwardInv
<1>1. OneSaver /\ TmpIsPrivate
  BY DEF PeriodicInv
<1>2. ASSUME ~ \E s \in Saver : Rename(s)
      PROVE  MainExists /\ Main' = Main /\ dir'.main = dir.main
  BY <1>2, MainFrame DEF MainExists
<1>3. ASSUME NEW w \in Writer, WriterStep(w)
      PROVE  /\ UNCHANGED <<dir, data>>
             /\ \A t \in Saver \ {w} : /\ saver'[t].pc = saver[t].pc
                                       /\ saver'[t].snap = saver[t].snap
  <2>1. w \in Saver /\ saver[w].pc \in {"idle", "batch"}
    BY <1>1, SaverNames DEF OneSaver
  <2>2. CASE UpdateGauge(w) \/ UpdateCounter(w)
    <3>1. ASSUME NEW ms, Update(w, ms)
          PROVE  UNCHANGED <<saver, dir, data>>
      BY <3>1 DEF Update, disk
    <3>2. QED
      BY <2>2, <3>1 DEF UpdateGauge, UpdateCounter
  <2>3. CASE UpdateBatch(w)
    BY <2>1, <2>3, EnterOthers DEF UpdateBatch, disk
  <2>4. CASE BatchStep(w) \/ BatchEnd(w) \/ TakeSnapshot(w)
    BY <2>1, <2>4 DEF BatchStep, BatchEnd, TakeSnapshot, Goto, disk, TypeOK
  <2>5. QED
    BY <1>3, <2>2, <2>3, <2>4 DEF WriterStep
<1>4. ASSUME NEW s \in Saver, SaveStep(s)
      PROVE  /\ saver[s].pc \in {"create", "write", "rename"}
             /\ \A t \in Saver : saver[t].pc \in {"create", "write", "rename"} => t = s
  <2>1. saver[s].pc \in {"create", "write", "rename"}
    BY <1>4 DEF SaveStep, Create, Encode, EncodeFails, Rename, RenameFails, Fault
  <2>2. QED
    BY <1>1, <2>1, OnlyOneSaver
<1>5. CASE \E w \in Writer : WriterStep(w)
  <2>1. PICK w \in Writer : WriterStep(w)
    BY <1>5
  <2>2. saver'[w].pc \in {"idle", "batch"}
    BY PeriodicInvStep DEF PeriodicInv, OneSaver
  <2>3. MainExists /\ Main' = Main
    BY <1>3, <2>1 DEF MainExists, Main
  <2>4. QED
    BY <1>3, <2>1, <2>2, <2>3 DEF ForwardInv
<1>6. CASE \E s \in Saver : SaveStep(s)
  <2>1. PICK s \in Saver : SaveStep(s)
    BY <1>6
  <2>2. CASE Create(s)
    <3>1. MainExists /\ Main' = Main
      BY <1>2, <1>4, <2>1, <2>2 DEF Create, Rename
    <3>2. \A t \in Saver : /\ t # s => saver'[t] = saver[t]
                           /\ t = s => saver'[t].pc = "write" /\ saver'[t].snap = saver[t].snap
      BY <2>2 DEF Create, TypeOK, SaverState
    <3>3. saver[s].snap.ver >= Main.ver
      BY <2>2, <3>1 DEF Create, ForwardInv
    <3>4. QED
      BY <1>4, <2>1, <3>1, <3>2, <3>3
  <2>3. CASE Encode(s)
    <3>1. MainExists /\ Main' = Main
      BY <1>2, <1>4, <2>1, <2>3 DEF Encode, Rename
    <3>2. \A t \in Saver : /\ t # s => saver'[t] = saver[t]
                           /\ t = s => saver'[t].pc = "rename"
      BY <2>3 DEF Encode, TypeOK, SaverState
    <3>3. saver[s].snap.ver >= Main.ver /\ data'[dir'.tmp] = saver[s].snap
      BY <1>1, <2>3, <3>1 DEF Encode, ForwardInv, TmpIsPrivate, TypeOK
    <3>4. QED
      BY <1>4, <2>1, <3>1, <3>2, <3>3
  <2>4. CASE EncodeFails(s) \/ Rename(s) \/ RenameFails(s) \/ Fault(s)
    <3>1. PICK ok : Return(s, ok)
      BY <2>4 DEF EncodeFails, Rename, RenameFails, Fault
    <3>2. \A t \in Saver : /\ t # s => saver'[t] = saver[t]
                           /\ t = s => saver'[t].pc = "idle"
      BY <3>1 DEF Return, TypeOK, Idle
    <3>3. QED
      BY <1>4, <2>1, <3>2
  <2>5. QED
    BY <2>1, <2>2, <2>3, <2>4 DEF SaveStep
<1>7. CASE PeriodicSave \/ FinalSave
  <2>1. PICK s \in {Ticker, Stopper} :
          Enter(s, [Idle EXCEPT !.pc = "create", !.snap = Snapshot])
    BY <1>7 DEF PeriodicSave, FinalSave
  <2>2. UNCHANGED <<dir, data>> /\ Running
    BY <1>7 DEF PeriodicSave, FinalSave, disk, Running
  <2>3. MainExists /\ Main' = Main /\ Main.intact /\ Reflects(Main)
    BY <1>1, <2>2 DEF MainExists, Main, TmpIsPrivate, SnapshotInv
  <2>4. Snapshot.ver >= Main.ver
    BY <2>3 DEF Reflects, Snapshot, TypeOK, MainExists, Main, Content
  <2>5. \A t \in Saver :
           /\ t = s => saver'[t].pc = "create" /\ saver'[t].snap = Snapshot
           /\ t # s => saver'[t].pc = saver[t].pc /\ saver'[t].snap = saver[t].snap
    BY <2>1, EnterSaveEffect, SaverNames
  <2>6. QED
    BY <2>2, <2>3, <2>4, <2>5 DEF ForwardInv
<1>8. CASE Start \/ Exit \/ Crash
  <2>1. \A t \in Saver : saver'[t] = Idle
    <3>1. CASE Start
      BY <3>1 DEF Start, SnapshotInv, Running
    <3>2. CASE Exit \/ Crash
      BY <3>2 DEF Exit, Crash, Down
    <3>3. QED
      BY <1>8, <3>1, <3>2
  <2>2. QED
    BY <2>1 DEF Idle
<1>9. CASE Stop \/ TickerExit \/ UNCHANGED vars
  <2>1. UNCHANGED <<saver, dir, data>>
    BY <1>9 DEF Stop, TickerExit, vars, disk
  <2>2. MainExists /\ Main' = Main
    BY <2>1 DEF MainExists, Main
  <2>3. QED
    BY <2>1, <2>2 DEF ForwardInv
<1>10. QED
  BY <1>5, <1>6, <1>7, <1>8, <1>9 DEF Next

(* The list being saved is at least as new as the file. *)
LEMMA ForwardInvHolds == Spec => []ForwardInv
<1>1. Init => ForwardInv
  BY DEF Init, ForwardInv, MainExists
<1>2. TypeOK /\ PeriodicInv /\ SnapshotInv /\ ForwardInv /\ [Next]_vars => ForwardInv'
  BY ForwardInvStep
<1>3. QED
  BY <1>1, <1>2, TypeCorrect, PeriodicInvHolds, SnapshotInvHolds, PTL DEF Spec

(* No periodic or final save puts an older list over a newer one, and no   *)
(* crash, restart or failing system call takes the file away.              *)
THEOREM FileNeverOlder == Spec => MainNeverOlder
<1>1. ASSUME TypeOK, PeriodicInv, ForwardInv, [Next]_vars
      PROVE  ~SyncWrite /\ ~StopTimesOut /\ Restore /\ MainExists /\ Main.intact
               => MainExists' /\ Main'.ver >= Main.ver
  <2> SUFFICES ASSUME ~SyncWrite, ~StopTimesOut, Restore, MainExists
               PROVE  MainExists' /\ Main'.ver >= Main.ver
    OBVIOUS
  <2>1. Main.ver \in Nat
    BY <1>1 DEF TypeOK, Content, MainExists, Main
  <2>2. CASE \E s \in Saver : Rename(s)
    BY <1>1, <2>2, RenameForward
  <2>3. CASE ~ \E s \in Saver : Rename(s)
    BY <1>1, <2>1, <2>3, MainFrame DEF MainExists
  <2>4. QED
    BY <2>2, <2>3
<1>2. QED
  BY <1>1, TypeCorrect, PeriodicInvHolds, ForwardInvHolds, PTL DEF Spec, MainNeverOlder

-----------------------------------------------------------------------------
(* A clean stop and the start after it.                                    *)

(* Updates end before the storage stops, and the periodic saver before the *)
(* final save: no goroutine is cut short when the process exits.           *)
StopsInOrder ==
    /\ phase # "up" => \A w \in Writer : saver[w].pc = "idle"
    /\ saver[Ticker].pc # "idle" => ticker = "running"
    /\ saver[Stopper].pc # "idle" => phase = "final"
    /\ phase \in {"final", "exiting"} => ticker # "running"
    /\ phase \in {"down", "failed"} => ticker = "off"

(* The final save, which nobody disturbs, is of what the store holds.      *)
FinalSaveOK ==
    phase = "final" =>
      /\ saver[Stopper].pc \in {"create", "write", "rename"}
      /\ saver[Stopper].pc \in {"create", "write"} =>
           saver[Stopper].snap.intact /\ saver[Stopper].snap.list = GetAllMetrics(mem)
      /\ saver[Stopper].pc = "write" => saver[Stopper].fd = dir.tmp /\ dir.tmp # NoInode
      /\ saver[Stopper].pc = "rename" =>
           /\ dir.tmp # NoInode /\ data[dir.tmp].intact
           /\ data[dir.tmp].list = GetAllMetrics(mem)

(* Once it has succeeded, filePath has that. *)
CleanFileOK ==
    phase \in {"exiting", "down"} /\ clean =>
      MainExists /\ Main.intact /\ Main.list = GetAllMetrics(mem)

CleanInv == ~LateWriters /\ ~StopTimesOut => StopsInOrder /\ FinalSaveOK /\ CleanFileOK

(* What a step of an update leaves alone. *)
LEMMA WriterLeaves ==
    ASSUME TypeOK, NEW w \in Writer, WriterStep(w)
    PROVE  /\ UNCHANGED <<phase, ticker, clean, dir, data>>
           /\ \A t \in Saver \ {w} : saver'[t].pc = saver[t].pc
           /\ Serving \/ saver[w].pc # "idle"
<1>1. w \in Saver
  BY SaverNames
<1>2. UNCHANGED <<phase, ticker, clean, dir, data>> /\ (Serving \/ saver[w].pc # "idle")
  BY DEF WriterStep, UpdateGauge, UpdateCounter, Update, UpdateBatch, BatchStep, BatchEnd,
     TakeSnapshot, disk
<1>3. CASE UpdateGauge(w) \/ UpdateCounter(w)
  <2>1. PICK ms : Update(w, ms)
    BY <1>3 DEF UpdateGauge, UpdateCounter
  <2> DEFINE r == [Idle EXCEPT !.pc = "updated", !.upd = ver + 1]
  <2>2. UNCHANGED saver \/ Enter(w, r)
    BY <2>1 DEF Update
  <2> HIDE DEF r
  <2> QED  BY <1>1, <1>2, <2>2, EnterOthers
<1>4. CASE UpdateBatch(w)
  <2>1. PICK b \in Batch : Enter(w, [Idle EXCEPT !.pc = "batch", !.todo = b, !.upd = ver + 1])
    BY <1>4 DEF UpdateBatch
  <2> QED  BY <1>1, <1>2, <2>1, EnterOthers
<1>5. CASE BatchStep(w) \/ BatchEnd(w) \/ TakeSnapshot(w)
  <2>1. \A t \in Saver \ {w} : saver'[t] = saver[t]
    BY <1>1, <1>5 DEF BatchStep, BatchEnd, TakeSnapshot, Goto, TypeOK
  <2> QED  BY <1>2, <2>1
<1> QED  BY <1>3, <1>4, <1>5 DEF WriterStep

(* A step that makes nobody active while the phase stays keeps the order.  *)
LEMMA OrderFrame ==
    ASSUME StopsInOrder, UNCHANGED <<phase, ticker>>,
           \A t \in Saver : saver'[t].pc # "idle" => saver[t].pc # "idle"
    PROVE  StopsInOrder'
  BY SaverNames DEF StopsInOrder

(* An update runs only while the process is up. *)
LEMMA CleanWriterStep ==
    ASSUME TypeOK, StopsInOrder, ~LateWriters, NEW w \in Writer, WriterStep(w)
    PROVE  StopsInOrder' /\ FinalSaveOK' /\ CleanFileOK'
<1>1. phase = "up" /\ phase' = "up" /\ UNCHANGED ticker
  BY WriterLeaves DEF Serving, StopsInOrder
<1>2. StopsInOrder'
  BY <1>1, WriterLeaves, SaverNames DEF StopsInOrder
<1> QED  BY <1>1, <1>2 DEF FinalSaveOK, CleanFileOK

(* What a step of a save does to its goroutine. *)
LEMMA SaveLeaves ==
    ASSUME TypeOK, NEW s \in Saver, SaveStep(s)
    PROVE  /\ UNCHANGED <<mem, ticker>>
           /\ \A t \in Saver \ {s} : saver'[t] = saver[t]
           /\ saver[s].pc \in {"create", "write", "rename"}
           /\ s # Stopper => UNCHANGED <<phase, clean>>
<1>1. UNCHANGED <<mem, ticker>> /\ saver[s].pc \in {"create", "write", "rename"}
  BY DEF SaveStep, Create, Encode, EncodeFails, Rename, RenameFails, Fault
<1>2. s # Stopper => UNCHANGED <<phase, clean>>
  BY DEF SaveStep, Create, Encode, EncodeFails, Rename, RenameFails, Fault, Return
<1>3. \A t \in Saver \ {s} : saver'[t] = saver[t]
  BY DEF SaveStep, Create, Encode, EncodeFails, Rename, RenameFails, Fault, Return, TypeOK
<1> QED  BY <1>1, <1>2, <1>3

(* A save of a request or of the periodic saver happens before the final   *)
(* save begins.                                                            *)
LEMMA CleanOtherSave ==
    ASSUME TypeOK, StopsInOrder, NEW s \in Saver \ {Stopper}, SaveStep(s)
    PROVE  StopsInOrder' /\ FinalSaveOK' /\ CleanFileOK'
<1>1. phase' = phase /\ ticker' = ticker
  BY SaveLeaves
<1>2. phase \notin {"final", "exiting", "down"}
  BY SaveLeaves DEF StopsInOrder, Saver
<1>3. \A t \in Saver : saver'[t].pc # "idle" => saver[t].pc # "idle"
  BY SaveLeaves
<1>4. StopsInOrder'
  BY <1>1, <1>3, OrderFrame
<1> QED  BY <1>1, <1>2, <1>4 DEF FinalSaveOK, CleanFileOK

(* A step of the final save: it truncates, writes and renames its own tmp  *)
(* file.                                                                   *)
LEMMA CleanFinalStep ==
    ASSUME TypeOK, StopsInOrder, FinalSaveOK, SaveStep(Stopper)
    PROVE  StopsInOrder' /\ FinalSaveOK' /\ CleanFileOK'
<1> DEFINE s == Stopper
<1>1. s \in Saver /\ saver[s] \in SaverState /\ phase = "final"
  BY SaverNames, SaveLeaves DEF TypeOK, StopsInOrder
<1>2. mem' = mem /\ ticker' = ticker /\ \A t \in Saver \ {s} : saver'[t] = saver[t]
  BY <1>1, SaveLeaves
<1>3. \A w \in Writer : w # s /\ w \in Saver
  BY SaverNames
<1>4. CASE Create(s)
  <2>1. PICK i \in Inode :
          /\ dir' = [dir EXCEPT !.tmp = i]
          /\ data' = [data EXCEPT ![i] = Torn]
          /\ saver' = [saver EXCEPT ![s].pc = "write", ![s].fd = i]
    BY <1>4 DEF Create, Fresh, TypeOK
  <2>2. saver'[s] = [saver[s] EXCEPT !.pc = "write", !.fd = i] /\ dir'.tmp = i /\ i # NoInode
    BY <1>1, <2>1, FileAssumption DEF TypeOK
  <2>3. saver'[s].pc = "write" /\ saver'[s].fd = i /\ saver'[s].snap = saver[s].snap
    BY <1>1, <2>2 DEF SaverState
  <2>4. phase' = "final" /\ saver[s].pc = "create"
    BY <1>1, <1>4 DEF Create
  <2>5. StopsInOrder'
    BY <1>1, <1>2, <2>4, OrderFrame
  <2>6. FinalSaveOK'
    BY <1>1, <1>2, <2>2, <2>3, <2>4 DEF FinalSaveOK
  <2> QED  BY <2>4, <2>5, <2>6 DEF CleanFileOK
<1>5. CASE Encode(s)
  <2>1. /\ saver'[s] = [saver[s] EXCEPT !.pc = "rename", !.fd = NoInode]
        /\ data' = [data EXCEPT ![saver[s].fd] = saver[s].snap]
        /\ dir' = dir /\ saver[s].pc = "write" /\ phase' = "final"
    BY <1>1, <1>5 DEF Encode, TypeOK
  <2>2. saver'[s].pc = "rename"
    BY <1>1, <2>1 DEF SaverState
  <2>3. data'[dir'.tmp] = saver[s].snap /\ dir.tmp # NoInode
    BY <1>1, <2>1 DEF FinalSaveOK, TypeOK
  <2>4. StopsInOrder'
    BY <1>1, <1>2, <2>1, OrderFrame
  <2>5. FinalSaveOK'
    BY <1>1, <1>2, <2>1, <2>2, <2>3 DEF FinalSaveOK
  <2> QED  BY <2>1, <2>4, <2>5 DEF CleanFileOK
<1>6. CASE EncodeFails(s) \/ Rename(s) \/ RenameFails(s) \/ Fault(s)
  <2>1. PICK ok \in BOOLEAN : Return(s, ok) /\ (ok => Rename(s))
    BY <1>6 DEF EncodeFails, Rename, RenameFails, Fault
  <2>2. saver'[s] = Idle /\ phase' = "exiting" /\ clean' = ok
    BY <1>1, <2>1 DEF Return, TypeOK
  <2>3. StopsInOrder'
    <3>1. saver'[s].pc = "idle"
      BY <2>2 DEF Idle
    <3> QED  BY <1>1, <1>2, <1>3, <2>2, <3>1, SaverNames DEF StopsInOrder
  <2>4. CleanFileOK'
    <3>1. ASSUME Rename(s) PROVE MainExists' /\ Main'.intact /\ Main'.list = GetAllMetrics(mem')
      <4>1. dir' = [main |-> dir.tmp, tmp |-> NoInode] /\ data' = data /\ saver[s].pc = "rename"
        BY <3>1 DEF Rename
      <4>2. dir'.main = dir.tmp
        BY <4>1
      <4>3. dir.tmp # NoInode /\ data[dir.tmp].intact /\ data[dir.tmp].list = GetAllMetrics(mem)
        BY <1>1, <4>1 DEF FinalSaveOK
      <4> QED  BY <1>2, <4>1, <4>2, <4>3 DEF MainExists, Main
    <3> QED  BY <2>1, <2>2, <3>1 DEF CleanFileOK
  <2> QED  BY <2>2, <2>3, <2>4 DEF FinalSaveOK
<1> QED  BY <1>4, <1>5, <1>6 DEF SaveStep

(* Every step keeps the invariant. *)
LEMMA CleanInvStep ==
    ASSUME TypeOK, CleanInv, [Next]_vars
    PROVE  CleanInv'
<1> SUFFICES ASSUME ~LateWriters, ~StopTimesOut, StopsInOrder, FinalSaveOK, CleanFileOK
             PROVE  StopsInOrder' /\ FinalSaveOK' /\ CleanFileOK'
  BY DEF CleanInv
<1>1. CASE \E w \in Writer : WriterStep(w)
  BY <1>1, CleanWriterStep
<1>2. CASE \E s \in Saver : SaveStep(s)
  BY <1>2, CleanOtherSave, CleanFinalStep
<1>3. CASE PeriodicSave
  <2>1. Enter(Ticker, [Idle EXCEPT !.pc = "create", !.snap = Snapshot])
    BY <1>3 DEF PeriodicSave
  <2>2. \A t \in Saver \ {Ticker} : saver'[t].pc = saver[t].pc
    BY <2>1, EnterSaveEffect, SaverNames
  <2>3. /\ phase' = phase /\ ticker' = ticker /\ ticker = "running"
        /\ phase \notin {"final", "exiting", "down", "failed"}
    BY <1>3 DEF PeriodicSave, StopsInOrder
  <2>4. StopsInOrder'
    BY <2>2, <2>3, SaverNames DEF StopsInOrder
  <2> QED  BY <2>3, <2>4 DEF FinalSaveOK, CleanFileOK
<1>4. CASE FinalSave
  <2>1. Enter(Stopper, [Idle EXCEPT !.pc = "create", !.snap = Snapshot])
    BY <1>4 DEF FinalSave
  <2>2. /\ \A t \in Saver \ {Stopper} : saver'[t].pc = saver[t].pc
        /\ saver'[Stopper].pc = "create" /\ saver'[Stopper].snap = Snapshot
    BY <2>1, EnterSaveEffect, SaverNames
  <2>3. Snapshot.intact /\ Snapshot.list = GetAllMetrics(mem)
    BY DEF Snapshot
  <2>4. /\ phase = "stopping" /\ phase' = "final" /\ ticker # "running"
        /\ UNCHANGED <<mem, ticker>>
    BY <1>4 DEF FinalSave
  <2>5. StopsInOrder'
    BY <2>2, <2>4, SaverNames DEF StopsInOrder
  <2>6. FinalSaveOK'
    BY <2>2, <2>3, <2>4 DEF FinalSaveOK
  <2> QED  BY <2>4, <2>5, <2>6 DEF CleanFileOK
<1>5. CASE Exit \/ Crash
  <2>1. /\ \A t \in Saver : saver'[t].pc = "idle"
        /\ phase' = "down" /\ ticker' = "off" /\ UNCHANGED <<mem, dir, data>>
        /\ clean' => clean /\ phase = "exiting"
    BY <1>5 DEF Exit, Crash, Down, Idle, disk
  <2>2. StopsInOrder'
    BY <2>1, SaverNames DEF StopsInOrder
  <2>3. CleanFileOK'
    BY <2>1 DEF CleanFileOK, MainExists, Main
  <2> QED  BY <2>1, <2>2, <2>3 DEF FinalSaveOK
<1>6. CASE Start
  <2>1. /\ phase = "down" /\ phase' \in {"up", "failed"} /\ UNCHANGED saver
        /\ phase' = "failed" => ticker' = "off"
    BY <1>6 DEF Start
  <2>2. StopsInOrder'
    BY <2>1, SaverNames DEF StopsInOrder
  <2> QED  BY <2>1, <2>2 DEF FinalSaveOK, CleanFileOK
<1>7. CASE Stop
  <2>1. phase' = "stopping" /\ UNCHANGED <<saver, ticker>> /\ \A w \in Writer : saver[w].pc = "idle"
    BY <1>7 DEF Stop
  <2>2. phase = "up"
    BY <1>7 DEF Stop
  <2>3. StopsInOrder'
    BY <2>1, <2>2 DEF StopsInOrder
  <2> QED  BY <2>1, <2>3 DEF FinalSaveOK, CleanFileOK
<1>8. CASE TickerExit \/ UNCHANGED vars
  <2>1. UNCHANGED <<mem, phase, clean, saver, dir, data>> /\ ticker' \in {ticker, "exited"}
    BY <1>8 DEF TickerExit, vars, disk
  <2>2. ticker' = ticker \/ (ticker = "running" /\ saver[Ticker].pc = "idle")
    BY <1>8 DEF TickerExit, vars
  <2>3. StopsInOrder'
    BY <2>1, <2>2 DEF StopsInOrder
  <2> QED  BY <2>1, <2>3 DEF FinalSaveOK, CleanFileOK, MainExists, Main
<1> QED  BY <1>1, <1>2, <1>3, <1>4, <1>5, <1>6, <1>7, <1>8 DEF Next

(* The invariant holds in every state. *)
LEMMA CleanInvHolds == Spec => []CleanInv
<1>1. Init => CleanInv
  <2>1. ASSUME Init PROVE CleanInv
    <3>1. \A t \in Saver : saver[t].pc = "idle"
      BY <2>1 DEF Init, Idle
    <3> QED  BY <2>1, <3>1, SaverNames
             DEF Init, CleanInv, StopsInOrder, FinalSaveOK, CleanFileOK
  <2> QED  BY <2>1
<1>2. TypeOK /\ CleanInv /\ [Next]_vars => CleanInv'
  BY CleanInvStep
<1> QED  BY <1>1, <1>2, TypeCorrect, PTL DEF Spec

(* A list that was saved has every counter, and every gauge no counter     *)
(* hides.                                                                  *)
LEMMA SavedAndLoaded ==
    ASSUME NEW ms \in Store, NEW i \in Id
    PROVE  /\ LoadList(GetAllMetrics(ms)).counters[i] = ms.counters[i]
           /\ HasCounter(ms, i) \/ LoadList(GetAllMetrics(ms)).gauges[i] = ms.gauges[i]
<1> DEFINE all == GetAllMetrics(ms)
           new == LoadList(all)
<1>1. all \in SUBSET Metric /\ FromMap(all)
  BY GetAllMetricsType, GetAllMetricsFromMap
<1>2. ASSUME NEW m \in all, m.id = i
      PROVE  \/ HasCounter(ms, i) /\ m = Count(i, ms.counters[i])
             \/ ~HasCounter(ms, i) /\ HasGauge(ms, i) /\ m = Gauge(i, ms.gauges[i])
  BY <1>2 DEF GetAllMetrics, Count, Gauge
<1>3. HasCounter(ms, i) => Count(i, ms.counters[i]) \in all
  BY DEF GetAllMetrics
<1>4. HasGauge(ms, i) /\ ~HasCounter(ms, i) => Gauge(i, ms.gauges[i]) \in all
  BY DEF GetAllMetrics
<1> HIDE DEF all
<1>5. new.counters[i] = ms.counters[i]
  <2>1. CASE HasCounter(ms, i)
    <3>1. LET m == Count(i, ms.counters[i])
          IN  m \in all /\ m.id = i /\ m.mtype = "counter" /\ m.delta = ms.counters[i]
      BY <1>3, <2>1 DEF Count
    <3> QED  BY <1>1, <3>1, LoadListEntries
  <2>2. CASE ~HasCounter(ms, i)
    <3>1. ~ \E m \in all : m.id = i /\ m.mtype = "counter"
      BY <1>2, <2>2 DEF Gauge
    <3>2. ~HasCounter(new, i)
      BY <1>1, <3>1, LoadListEntries
    <3> QED  BY <2>2, <3>2 DEF HasCounter
  <2> QED  BY <2>1, <2>2
<1>6. ASSUME ~HasCounter(ms, i) PROVE new.gauges[i] = ms.gauges[i]
  <2>1. CASE HasGauge(ms, i)
    <3>1. LET m == Gauge(i, ms.gauges[i])
          IN  m \in all /\ m.id = i /\ m.mtype = "gauge" /\ m.value = ms.gauges[i]
      BY <1>4, <1>6, <2>1 DEF Gauge
    <3> QED  BY <1>1, <3>1, LoadListEntries
  <2>2. CASE ~HasGauge(ms, i)
    <3>1. ~ \E m \in all : m.id = i /\ m.mtype = "gauge"
      BY <1>2, <1>6, <2>2 DEF Gauge
    <3>2. ~HasGauge(new, i)
      BY <1>1, <3>1, LoadListEntries
    <3> QED  BY <2>2, <3>2 DEF HasGauge
  <2> QED  BY <2>1, <2>2
<1> QED  BY <1>5, <1>6 DEF all

(* A start after a stop whose final save succeeded finds the counters, and *)
(* the gauges whose names no counter shares, as the requests left them:    *)
(* the servers drain before the hook, the hook waits for the periodic      *)
(* saver, and loadFromFile reads back what saveToFile wrote.               *)
(* (internal/repository/filestorage.go, NewFileStorage)                    *)
THEOREM CleanStopLosesNothing == Spec => CleanRestart
<1>1. ASSUME TypeOK, CleanInv, [Next]_vars, Restore, ~LateWriters, ~StopTimesOut,
             clean, phase = "down", phase' # "down"
      PROVE  /\ phase' = "up"
             /\ \A i \in Id : /\ mem'.counters[i] = mem.counters[i]
                              /\ HasCounter(mem, i) \/ mem'.gauges[i] = mem.gauges[i]
  <2>1. MainExists /\ Main.intact /\ Main.list = GetAllMetrics(mem)
    BY <1>1 DEF CleanInv, CleanFileOK
  <2>2. \A s \in Saver : saver[s].pc = "idle"
    BY <1>1 DEF CleanInv, StopsInOrder, Saver
  <2>3. Start
    <3>1. ~ \E w \in Writer : WriterStep(w)
      BY <1>1, <2>2, WriterLeaves
    <3>2. ~ \E s \in Saver : SaveStep(s)
      BY <1>1, <2>2, SaveLeaves
    <3> QED  BY <1>1, <3>1, <3>2
             DEF Next, vars, PeriodicSave, Stop, TickerExit, FinalSave, Exit, Crash, Running
  <2>4. phase' = "up" /\ mem' = LoadList(GetAllMetrics(mem))
    BY <1>1, <2>1, <2>3 DEF Start
  <2> QED  BY <1>1, <2>4, SavedAndLoaded DEF TypeOK
<1>2. TypeOK /\ CleanInv /\ [Next]_vars =>
        (Restore /\ ~LateWriters /\ ~StopTimesOut /\ clean /\ phase = "down" /\ phase' # "down" =>
           /\ phase' = "up"
           /\ \A i \in Id : /\ mem'.counters[i] = mem.counters[i]
                            /\ HasCounter(mem, i) \/ mem'.gauges[i] = mem.gauges[i])
  BY <1>1
<1> QED  BY <1>2, TypeCorrect, CleanInvHolds, PTL DEF Spec, CleanRestart

-----------------------------------------------------------------------------
(* Synchronous mode, too: savers that overlap leave a file that decodes.   *)

(* What SettledFileDecodes supposes: every save runs to its end. *)
SavesEnd == faults = 0 /\ NonFinite = {} /\ ~CanCrash /\ ~LateWriters /\ ~StopTimesOut

BeingWritten(i) == \E s \in Saver : saver[s].pc = "write" /\ saver[s].fd = i

(* A list to be written is whole; a file that does not decode has a saver  *)
(* that is going to write one to it, under whichever name it then is.      *)
TornIsWritten ==
    /\ \A s \in Saver : saver[s].pc \in {"create", "write"} => saver[s].snap.intact
    /\ \A i \in {dir.main, dir.tmp} \ {NoInode} : data[i].intact \/ BeingWritten(i)

SettledInv == SavesEnd => TornIsWritten

(* A goroutine that begins or ends something, or takes its snapshot,       *)
(* leaves every torn file to the saver that is writing it.                 *)
LEMMA SettledFrame ==
    ASSUME TornIsWritten, UNCHANGED <<dir, data>>, NEW s \in Saver, saver[s].pc # "write",
           saver'[s].pc \notin {"create", "write"} \/ saver'[s].snap.intact,
           \A t \in Saver \ {s} : /\ saver'[t].pc = saver[t].pc
                                  /\ saver'[t].snap = saver[t].snap
                                  /\ saver'[t].fd = saver[t].fd
    PROVE  TornIsWritten'
<1>1. \A i : BeingWritten(i) => BeingWritten(i)'
  <2>1. ASSUME NEW t \in Saver, saver[t].pc = "write"
        PROVE  saver'[t].pc = "write" /\ saver'[t].fd = saver[t].fd
    BY <2>1
  <2> QED  BY <2>1 DEF BeingWritten
<1> QED  BY <1>1 DEF TornIsWritten

(* A step of an update leaves the files to the savers. *)
LEMMA SettledWriterStep ==
    ASSUME TypeOK, TornIsWritten, NEW w \in Writer, WriterStep(w)
    PROVE  TornIsWritten'
<1>1. w \in Saver /\ w # Ticker /\ w # Stopper
  BY SaverNames
<1>2. UNCHANGED <<dir, data>> /\ saver[w].pc \notin {"create", "write"}
  BY DEF WriterStep, UpdateGauge, UpdateCounter, Update, UpdateBatch, BatchStep, BatchEnd,
     TakeSnapshot, disk
<1>3. /\ saver'[w].pc \notin {"create", "write"} \/ saver'[w].snap.intact
      /\ \A t \in Saver \ {w} : /\ saver'[t].pc = saver[t].pc
                                /\ saver'[t].snap = saver[t].snap
                                /\ saver'[t].fd = saver[t].fd
  <2>1. CASE UpdateGauge(w) \/ UpdateCounter(w)
    <3>1. PICK ms : Update(w, ms)
      BY <2>1 DEF UpdateGauge, UpdateCounter
    <3>2. CASE SyncWrite
      <4> DEFINE r == [Idle EXCEPT !.pc = "updated", !.upd = ver + 1]
      <4>0. ver + 1 \in Nat
        BY DEF TypeOK
      <4>1. r \in SaverState
        BY <4>0, IdleType, UpdatedType
      <4>3. r.pc = "updated"
        BY DEF Idle
      <4>2. Enter(w, r)
        BY <3>1, <3>2 DEF Update
      <4> HIDE DEF r
      <4> QED  BY <1>1, <4>1, <4>2, <4>3, EnterEffect
    <3>3. CASE ~SyncWrite
      BY <1>2, <3>1, <3>3 DEF Update
    <3> QED  BY <3>2, <3>3
  <2>2. CASE UpdateBatch(w)
    <3>1. PICK b \in Batch : Enter(w, [Idle EXCEPT !.pc = "batch", !.todo = b, !.upd = ver + 1])
      BY <2>2 DEF UpdateBatch
    <3> DEFINE r == [Idle EXCEPT !.pc = "batch", !.todo = b, !.upd = ver + 1]
    <3>0. ver + 1 \in Nat /\ b \in Seq(Metric)
      BY FileAssumption DEF TypeOK
    <3>2. r \in SaverState
      BY <3>0, IdleType, BatchType
    <3>4. r.pc = "batch"
      BY DEF Idle
    <3>3. Enter(w, r)
      BY <3>1
    <3> HIDE DEF r
    <3> QED  BY <1>1, <3>2, <3>3, <3>4, EnterEffect
  <2>3. CASE BatchStep(w)
    BY <1>1, <2>3 DEF BatchStep, TypeOK, SaverState
  <2>4. CASE BatchEnd(w)
    BY <1>1, <2>4 DEF BatchEnd, Goto, TypeOK, SaverState, Idle
  <2>5. CASE TakeSnapshot(w)
    <3>1. saver' = [saver EXCEPT ![w].pc = "create", ![w].snap = Snapshot]
      BY <2>5 DEF TakeSnapshot
    <3>2. Snapshot.intact
      BY DEF Snapshot
    <3> HIDE DEF Snapshot
    <3> QED  BY <1>1, <3>1, <3>2 DEF TypeOK, SaverState
  <2> QED  BY <2>1, <2>2, <2>3, <2>4, <2>5 DEF WriterStep
<1> QED  BY <1>1, <1>2, <1>3, SettledFrame

(* A step of a save: what it truncates it will write, and what it writes   *)
(* is whole.                                                               *)
LEMMA SettledSaveStep ==
    ASSUME TypeOK, TornIsWritten, NonFinite = {}, faults' = 0, NEW s \in Saver, SaveStep(s)
    PROVE  TornIsWritten'
<1>1. ~EncodeFails(s) /\ ~Fault(s)
  <2>1. Encodable(saver[s].snap.list)
    BY DEF Encodable
  <2>2. faults' # faults + 1
    BY DEF TypeOK
  <2> QED  BY <2>1, <2>2 DEF EncodeFails, Fault
<1>2. CASE Create(s)
  <2>1. PICK i \in Inode :
          /\ dir' = [dir EXCEPT !.tmp = i]
          /\ data' = [data EXCEPT ![i] = Torn]
          /\ saver' = [saver EXCEPT ![s].pc = "write", ![s].fd = i]
    BY <1>2 DEF Create, Fresh, TypeOK
  <2>2. /\ saver'[s].pc = "write" /\ saver'[s].fd = i /\ saver'[s].snap = saver[s].snap
        /\ \A t \in Saver \ {s} : saver'[t] = saver[t]
    BY <2>1 DEF TypeOK, SaverState
  <2>3. dir'.tmp = i /\ dir'.main = dir.main /\ \A j \in Inode \ {i} : data'[j] = data[j]
    BY <2>1 DEF TypeOK
  <2>4. BeingWritten(i)'
    BY <2>2 DEF BeingWritten
  <2>5. \A j : BeingWritten(j) => BeingWritten(j)'
    <3>1. ASSUME NEW t \in Saver, saver[t].pc = "write" PROVE t # s
      BY <1>2, <3>1 DEF Create
    <3> QED  BY <2>2, <3>1 DEF BeingWritten
  <2>6. \A j \in {dir'.main, dir'.tmp} \ {NoInode} : data'[j].intact \/ BeingWritten(j)'
    BY <2>3, <2>4, <2>5 DEF TornIsWritten, TypeOK
  <2> QED  BY <1>2, <2>2, <2>6 DEF TornIsWritten, Create
<1>3. CASE Encode(s)
  <2>1. /\ data' = [data EXCEPT ![saver[s].fd] = saver[s].snap]
        /\ saver' = [saver EXCEPT ![s].pc = "rename", ![s].fd = NoInode]
        /\ UNCHANGED dir
    BY <1>3 DEF Encode
  <2>2. saver'[s].pc = "rename" /\ \A t \in Saver \ {s} : saver'[t] = saver[t]
    BY <2>1 DEF TypeOK, SaverState
  <2>3. saver[s].snap.intact
    BY <1>3 DEF Encode, TornIsWritten
  <2>4. ASSUME NEW j \in {dir.main, dir.tmp} \ {NoInode}
        PROVE  data'[j].intact \/ BeingWritten(j)'
    <3>1. j \in Inode
      BY DEF TypeOK
    <3>2. CASE j = saver[s].fd
      BY <2>1, <2>3, <3>1, <3>2 DEF TypeOK
    <3>3. CASE j # saver[s].fd
      <4>1. data'[j] = data[j]
        BY <2>1, <3>1, <3>3 DEF TypeOK
      <4>2. BeingWritten(j) => BeingWritten(j)'
        BY <2>2, <3>3 DEF BeingWritten
      <4> QED  BY <4>1, <4>2 DEF TornIsWritten
    <3> QED  BY <3>2, <3>3
  <2> QED  BY <2>1, <2>2, <2>4 DEF TornIsWritten
<1>4. CASE Rename(s) \/ RenameFails(s)
  <2>1. PICK ok : Return(s, ok)
    BY <1>4 DEF Rename, RenameFails
  <2>2. saver'[s] = Idle /\ \A t \in Saver \ {s} : saver'[t] = saver[t]
    BY <2>1 DEF Return, TypeOK
  <2>3. saver[s].pc = "rename" /\ data' = data /\ dir'.main \in {dir.main, dir.tmp}
        /\ dir'.tmp \in {dir.tmp, NoInode}
    <3>1. CASE Rename(s)
      <4>1. dir' = [main |-> dir.tmp, tmp |-> NoInode]
        BY <3>1 DEF Rename
      <4>2. dir'.main = dir.tmp /\ dir'.tmp = NoInode
        BY <4>1
      <4> QED  BY <3>1, <4>2 DEF Rename
    <3>2. CASE RenameFails(s)
      BY <3>2 DEF RenameFails, disk
    <3> QED  BY <1>4, <3>1, <3>2
  <2>4. \A j : BeingWritten(j) => BeingWritten(j)'
    <3>1. ASSUME NEW t \in Saver, saver[t].pc = "write" PROVE t # s
      BY <2>3, <3>1
    <3> QED  BY <2>2, <3>1 DEF BeingWritten
  <2>5. \A t \in Saver : saver'[t].pc \in {"create", "write"} => saver'[t].snap.intact
    BY <2>2 DEF TornIsWritten, Idle
  <2>6. \A j \in {dir'.main, dir'.tmp} \ {NoInode} : data'[j].intact \/ BeingWritten(j)'
    BY <2>3, <2>4 DEF TornIsWritten
  <2> QED  BY <2>5, <2>6 DEF TornIsWritten
<1> QED  BY <1>1, <1>2, <1>3, <1>4 DEF SaveStep

(* The periodic saver or the stop hook begins its save. *)
LEMMA SettledEnterSave ==
    ASSUME TypeOK, StopsInOrder, TornIsWritten, PeriodicSave \/ FinalSave
    PROVE  TornIsWritten'
<1>1. PICK s \in {Ticker, Stopper} :
        /\ Enter(s, [Idle EXCEPT !.pc = "create", !.snap = Snapshot])
        /\ s = Ticker => PeriodicSave
        /\ s = Stopper => FinalSave
  BY SaverNames DEF PeriodicSave, FinalSave
<1>2. UNCHANGED <<ticker, dir, data>>
  BY DEF PeriodicSave, FinalSave, disk
<1>3. \A t \in Saver :
         /\ t = s => saver'[t].pc = "create" /\ saver'[t].snap = Snapshot
         /\ t # s => /\ saver'[t].pc = saver[t].pc
                     /\ saver'[t].snap = saver[t].snap
                     /\ saver'[t].fd = saver[t].fd
  BY <1>1, EnterSaveEffect, SaverNames
<1>4. saver[s].pc = "idle"
  BY <1>1 DEF PeriodicSave, FinalSave, StopsInOrder
<1>5. Snapshot.intact
  BY DEF Snapshot
<1> QED  BY <1>2, <1>3, <1>4, <1>5, SaverNames, SettledFrame

(* When the process exits nobody is saving. *)
LEMMA SettledExit ==
    ASSUME StopsInOrder, TornIsWritten, Exit
    PROVE  TornIsWritten'
<1>1. \A t \in Saver : saver[t].pc = "idle"
  BY DEF Exit, StopsInOrder, Saver
<1>2. \A t \in Saver : saver'[t].pc = "idle"
  BY DEF Exit, Down, Idle
<1>3. \A i \in {dir.main, dir.tmp} \ {NoInode} : data[i].intact
  BY <1>1 DEF TornIsWritten, BeingWritten
<1> QED  BY <1>2, <1>3 DEF TornIsWritten, Exit, Down, disk

(* Every step keeps the invariant. *)
LEMMA SettledInvStep ==
    ASSUME TypeOK, CleanInv, SettledInv, [Next]_vars
    PROVE  SettledInv'
<1>1. faults' = 0 => faults = 0
  <2>1. ASSUME NEW w \in Writer, WriterStep(w) PROVE faults' = faults
    BY <2>1 DEF WriterStep, UpdateGauge, UpdateCounter, Update, UpdateBatch, BatchStep, BatchEnd,
       TakeSnapshot
  <2>2. ASSUME NEW s \in Saver, SaveStep(s) PROVE faults' = faults \/ faults' = faults + 1
    BY <2>2 DEF SaveStep, Create, Encode, EncodeFails, Rename, RenameFails, Fault
  <2>3. ASSUME Start \/ PeriodicSave \/ Stop \/ TickerExit \/ FinalSave \/ Exit \/ Crash
        PROVE  faults' = faults
    BY <2>3 DEF Start, PeriodicSave, Stop, TickerExit, FinalSave, Exit, Crash, Down
  <2>4. faults' = faults \/ faults' = faults + 1
    BY <2>1, <2>2, <2>3 DEF Next, vars
  <2> QED  BY <2>4 DEF TypeOK
<1> SUFFICES ASSUME NonFinite = {}, ~CanCrash, ~LateWriters, ~StopTimesOut, faults' = 0,
                    TornIsWritten
             PROVE  TornIsWritten'
  BY <1>1 DEF SettledInv, SavesEnd
<1>2. StopsInOrder
  BY DEF CleanInv
<1>3. CASE \E w \in Writer : WriterStep(w)
  BY <1>3, SettledWriterStep
<1>4. CASE \E s \in Saver : SaveStep(s)
  BY <1>4, SettledSaveStep
<1>5. CASE PeriodicSave \/ FinalSave
  BY <1>2, <1>5, SettledEnterSave
<1>6. CASE Exit
  BY <1>2, <1>6, SettledExit
<1>7. CASE Start \/ Stop \/ TickerExit \/ UNCHANGED vars
  <2>1. UNCHANGED <<saver, dir, data>>
    BY <1>7 DEF Start, Stop, TickerExit, vars, disk
  <2> QED  BY <2>1 DEF TornIsWritten, BeingWritten
<1>8. ~Crash
  BY DEF Crash
<1> QED  BY <1>3, <1>4, <1>5, <1>6, <1>7, <1>8 DEF Next

(* However the savers of synchronous mode, which take no lock, truncate    *)
(* each other's tmp file, rename it or find it gone: once they are done    *)
(* the file decodes, unless a save was cut short.                          *)
(* (internal/repository/filestorage.go, saveToFile)                        *)
THEOREM SettledFileIsWhole == Spec => []SettledFileDecodes
<1>1. Init => SettledInv
  <2>1. ASSUME Init PROVE SettledInv
    <3>1. \A t \in Saver : saver[t].pc = "idle"
      BY <2>1 DEF Init, Idle
    <3>2. TornIsWritten
      BY <2>1, <3>1 DEF Init, TornIsWritten
    <3> QED  BY <3>2 DEF SettledInv
  <2> QED  BY <2>1
<1>2. TypeOK /\ CleanInv /\ SettledInv /\ [Next]_vars => SettledInv'
  BY SettledInvStep
<1>3. SettledInv => SettledFileDecodes
  <2>1. ASSUME TornIsWritten, Active = {}, MainExists PROVE Main.intact
    <3>1. \A t \in Saver : saver[t].pc = "idle"
      BY <2>1 DEF Active
    <3> QED  BY <2>1, <3>1 DEF TornIsWritten, BeingWritten, MainExists, Main
  <2> QED  BY <2>1 DEF SettledInv, SavesEnd, SettledFileDecodes
<1> QED  BY <1>1, <1>2, <1>3, TypeCorrect, CleanInvHolds, PTL DEF Spec

-----------------------------------------------------------------------------
(* An update that no other goroutine's update or save overlaps.            *)

(* While t has been alone, the tmp file is its own, and what it is to save *)
(* has its update.                                                         *)
AloneOK(t) ==
    saver[t].pc # "idle" /\ saver[t].alone =>
      /\ \A u \in Saver \ {t} : saver[u].pc = "idle"
      /\ saver[t].pc \in {"batch", "updated"} => saver[t].upd <= ver
      /\ saver[t].pc \in {"create", "write"} => /\ saver[t].snap.intact
                                                /\ saver[t].upd <= saver[t].snap.ver
      /\ saver[t].pc = "write" => saver[t].fd = dir.tmp /\ dir.tmp # NoInode
      /\ saver[t].pc = "rename" => /\ dir.tmp # NoInode /\ data[dir.tmp].intact
                                   /\ saver[t].upd <= data[dir.tmp].ver

AloneInv == \A t \in Saver : AloneOK(t)

(* Whoever enters is alone if nobody was active, and then nobody else is.  *)
LEMMA AloneEnter ==
    ASSUME TypeOK, NEW s \in Saver, NEW r \in SaverState, Enter(s, r),
           r.pc \in {"batch", "updated"} => r.upd <= ver',
           r.pc = "create" => r.snap.intact /\ r.upd <= r.snap.ver,
           r.pc \in {"batch", "updated", "create"}
    PROVE  AloneInv'
<1>1. saver' = [t \in Saver |->
                  IF t = s THEN [r EXCEPT !.alone = (Active = {})]
                  ELSE IF t \in Active THEN [saver[t] EXCEPT !.alone = FALSE]
                  ELSE saver[t]]
  BY DEF Enter
<1>2. saver'[s] = [r EXCEPT !.alone = (Active = {})]
  BY <1>1
<1>3. /\ saver'[s].pc = r.pc /\ saver'[s].snap = r.snap /\ saver'[s].upd = r.upd
      /\ saver'[s].alone => Active = {}
  BY <1>2 DEF SaverState
<1>4. ASSUME NEW t \in Saver \ {s}
      PROVE  saver'[t].pc = saver[t].pc /\ (t \in Active => ~saver'[t].alone)
  <2>1. CASE t \in Active
    <3>1. saver'[t] = [saver[t] EXCEPT !.alone = FALSE]
      BY <1>1, <2>1
    <3>2. saver[t] \in SaverState
      BY DEF TypeOK
    <3> QED  BY <3>1, <3>2 DEF SaverState
  <2>2. CASE t \notin Active
    BY <1>1, <2>2
  <2> QED  BY <2>1, <2>2
<1>5. AloneOK(s)'
  <2>1. Active = {} => \A u \in Saver \ {s} : saver'[u].pc = "idle"
    BY <1>4 DEF Active
  <2> QED  BY <1>3, <2>1 DEF AloneOK
<1>6. ASSUME NEW t \in Saver \ {s} PROVE AloneOK(t)'
  <2>1. saver[t].pc # "idle" => t \in Active
    BY DEF Active
  <2> QED  BY <1>4, <2>1 DEF AloneOK
<1> QED  BY <1>5, <1>6 DEF AloneInv

(* A step of one that is active leaves nobody else alone. *)
LEMMA AloneFrame ==
    ASSUME AloneInv, NEW s \in Saver, saver[s].pc # "idle", AloneOK(s)',
           \A t \in Saver \ {s} : saver'[t] = saver[t]
    PROVE  AloneInv'
<1>1. ASSUME NEW t \in Saver \ {s} PROVE AloneOK(t)'
  <2>1. ~(saver[t].pc # "idle" /\ saver[t].alone)
    BY DEF AloneInv, AloneOK
  <2> QED  BY <2>1 DEF AloneOK
<1> QED  BY <1>1 DEF AloneInv

(* An update, and the snapshot it then takes, has the version it made. *)
LEMMA AloneWriterStep ==
    ASSUME TypeOK, AloneInv, NEW w \in Writer, WriterStep(w)
    PROVE  AloneInv'
<1>1. w \in Saver /\ saver[w] \in SaverState /\ ver \in Nat /\ AloneOK(w)
  BY SaverNames DEF TypeOK, AloneInv
<1>2. CASE UpdateGauge(w) \/ UpdateCounter(w)
  <2>1. PICK ms : Update(w, ms)
    BY <1>2 DEF UpdateGauge, UpdateCounter
  <2>2. ver' = ver + 1 /\ UNCHANGED <<dir, data>>
    BY <2>1 DEF Update, disk
  <2>3. CASE SyncWrite
    <3> DEFINE r == [Idle EXCEPT !.pc = "updated", !.upd = ver + 1]
    <3>0. ver + 1 \in Nat
      BY <1>1
    <3>1. r \in SaverState
      BY <3>0, IdleType, UpdatedType
    <3>2. r.pc = "updated" /\ r.upd = ver + 1
      BY DEF Idle
    <3>3. Enter(w, r)
      BY <2>1, <2>3 DEF Update
    <3> HIDE DEF r
    <3>4. r.upd <= ver'
      BY <1>1, <2>2, <3>2
    <3> QED  BY <1>1, <3>1, <3>2, <3>3, <3>4, AloneEnter
  <2>4. CASE ~SyncWrite
    <3>1. UNCHANGED saver
      BY <2>1, <2>4 DEF Update
    <3>2. \A t \in Saver : saver[t].upd \in Nat
      BY DEF TypeOK, SaverState
    <3> QED  BY <1>1, <2>2, <3>1, <3>2 DEF AloneInv, AloneOK
  <2> QED  BY <2>3, <2>4
<1>3. CASE UpdateBatch(w)
  <2>1. PICK b \in Batch : Enter(w, [Idle EXCEPT !.pc = "batch", !.todo = b, !.upd = ver + 1])
    BY <1>3 DEF UpdateBatch
  <2> DEFINE r == [Idle EXCEPT !.pc = "batch", !.todo = b, !.upd = ver + 1]
  <2>2. ver + 1 \in Nat /\ b \in Seq(Metric)
    BY <1>1, FileAssumption
  <2>3. r \in SaverState
    BY <2>2, IdleType, BatchType
  <2>4. r.pc = "batch" /\ r.upd = ver + 1
    BY DEF Idle
  <2>5. Enter(w, r)
    BY <2>1
  <2> HIDE DEF r
  <2>6. r.upd <= ver'
    BY <1>1, <1>3, <2>4 DEF UpdateBatch
  <2> QED  BY <1>1, <2>3, <2>4, <2>5, <2>6, AloneEnter
<1>4. CASE BatchStep(w)
  <2>1. /\ saver'[w] = [saver[w] EXCEPT !.todo = Tail(@)]
        /\ \A t \in Saver \ {w} : saver'[t] = saver[t]
        /\ saver[w].pc = "batch" /\ UNCHANGED ver
    BY <1>1, <1>4 DEF BatchStep, TypeOK
  <2>2. /\ saver'[w].pc = "batch" /\ saver'[w].upd = saver[w].upd
        /\ saver'[w].alone = saver[w].alone
    BY <1>1, <2>1 DEF SaverState
  <2>3. AloneOK(w)'
    BY <1>1, <2>1, <2>2 DEF AloneOK
  <2> QED  BY <1>1, <2>1, <2>3, AloneFrame
<1>5. CASE BatchEnd(w)
  <2>1. saver[w].pc = "batch" /\ UNCHANGED ver
        /\ \A t \in Saver \ {w} : saver'[t] = saver[t]
    BY <1>1, <1>5 DEF BatchEnd, Goto, TypeOK
  <2>2. \/ saver'[w] = Idle
        \/ saver'[w] = [saver[w] EXCEPT !.pc = "updated"]
    BY <1>1, <1>5 DEF BatchEnd, Goto, TypeOK
  <2>3. \/ saver'[w].pc = "idle"
        \/ /\ saver'[w].pc = "updated" /\ saver'[w].upd = saver[w].upd
           /\ saver'[w].alone = saver[w].alone
    BY <1>1, <2>2 DEF SaverState, Idle
  <2>4. AloneOK(w)'
    BY <1>1, <2>1, <2>3 DEF AloneOK
  <2> QED  BY <1>1, <2>1, <2>4, AloneFrame
<1>6. CASE TakeSnapshot(w)
  <2>1. /\ saver'[w] = [saver[w] EXCEPT !.pc = "create", !.snap = Snapshot]
        /\ \A t \in Saver \ {w} : saver'[t] = saver[t]
        /\ saver[w].pc = "updated"
    BY <1>1, <1>6 DEF TakeSnapshot, TypeOK
  <2>2. Snapshot.intact /\ Snapshot.ver = ver
    BY DEF Snapshot
  <2> HIDE DEF Snapshot
  <2>3. /\ saver'[w].pc = "create" /\ saver'[w].upd = saver[w].upd
        /\ saver'[w].alone = saver[w].alone /\ saver'[w].snap = Snapshot
    BY <1>1, <2>1 DEF SaverState
  <2>4. AloneOK(w)'
    BY <1>1, <2>1, <2>2, <2>3 DEF AloneOK
  <2> QED  BY <1>1, <2>1, <2>4, AloneFrame
<1> QED  BY <1>2, <1>3, <1>4, <1>5, <1>6 DEF WriterStep

(* What s saves goes to the file it has opened, which is the tmp file. *)
LEMMA AloneSaveStep ==
    ASSUME TypeOK, AloneInv, NEW s \in Saver, SaveStep(s)
    PROVE  AloneInv'
<1>1. saver[s] \in SaverState /\ AloneOK(s)
  BY DEF TypeOK, AloneInv
<1>2. saver[s].pc \in {"create", "write", "rename"}
  BY DEF SaveStep, Create, Encode, EncodeFails, Rename, RenameFails, Fault
<1>3. CASE Create(s)
  <2>1. PICK i \in Inode :
          /\ dir' = [dir EXCEPT !.tmp = i]
          /\ data' = [data EXCEPT ![i] = Torn]
          /\ saver' = [saver EXCEPT ![s].pc = "write", ![s].fd = i]
    BY <1>3 DEF Create, Fresh, TypeOK
  <2>2. /\ saver'[s] = [saver[s] EXCEPT !.pc = "write", !.fd = i]
        /\ \A t \in Saver \ {s} : saver'[t] = saver[t]
        /\ dir'.tmp = i /\ i # NoInode
    BY <2>1, FileAssumption DEF TypeOK
  <2>3. /\ saver'[s].pc = "write" /\ saver'[s].fd = i /\ saver'[s].snap = saver[s].snap
        /\ saver'[s].upd = saver[s].upd /\ saver'[s].alone = saver[s].alone
    BY <1>1, <2>2 DEF SaverState
  <2>4. AloneOK(s)'
    BY <1>1, <1>3, <2>2, <2>3 DEF AloneOK, Create
  <2> QED  BY <1>2, <2>2, <2>4, AloneFrame
<1>4. CASE Encode(s)
  <2>1. /\ saver'[s] = [saver[s] EXCEPT !.pc = "rename", !.fd = NoInode]
        /\ \A t \in Saver \ {s} : saver'[t] = saver[t]
        /\ data' = [data EXCEPT ![saver[s].fd] = saver[s].snap]
        /\ dir' = dir /\ saver[s].pc = "write"
    BY <1>4 DEF Encode, TypeOK
  <2>2. /\ saver'[s].pc = "rename" /\ saver'[s].upd = saver[s].upd
        /\ saver'[s].alone = saver[s].alone
    BY <1>1, <2>1 DEF SaverState
  <2>3. saver[s].fd = dir.tmp /\ dir.tmp # NoInode => data'[dir'.tmp] = saver[s].snap
    BY <2>1 DEF TypeOK
  <2>4. AloneOK(s)'
    BY <1>1, <2>1, <2>2, <2>3 DEF AloneOK
  <2> QED  BY <1>2, <2>1, <2>4, AloneFrame
<1>5. CASE EncodeFails(s) \/ Rename(s) \/ RenameFails(s) \/ Fault(s)
  <2>1. PICK ok : Return(s, ok)
    BY <1>5 DEF EncodeFails, Rename, RenameFails, Fault
  <2>2. saver'[s].pc = "idle" /\ \A t \in Saver \ {s} : saver'[t] = saver[t]
    BY <2>1 DEF Return, TypeOK, Idle
  <2>3. AloneOK(s)'
    BY <2>2 DEF AloneOK
  <2> QED  BY <1>2, <2>2, <2>3, AloneFrame
<1> QED  BY <1>3, <1>4, <1>5 DEF SaveStep

(* Every step keeps the invariant. *)
LEMMA AloneInvStep ==
    ASSUME TypeOK, SnapshotInv, AloneInv, [Next]_vars
    PROVE  AloneInv'
<1>1. CASE \E w \in Writer : WriterStep(w)
  BY <1>1, AloneWriterStep
<1>2. CASE \E s \in Saver : SaveStep(s)
  BY <1>2, AloneSaveStep
<1>3. CASE PeriodicSave \/ FinalSave
  <2>1. PICK s \in Saver : Enter(s, [Idle EXCEPT !.pc = "create", !.snap = Snapshot])
    BY <1>3, SaverNames DEF PeriodicSave, FinalSave
  <2> DEFINE r == [Idle EXCEPT !.pc = "create", !.snap = Snapshot]
  <2>2. Snapshot.intact /\ Snapshot.ver \in Nat /\ Snapshot \in Content
    BY SnapshotType DEF Snapshot, TypeOK
  <2> HIDE DEF Snapshot
  <2>3. r \in SaverState
    BY <2>2, IdleType, CreateType
  <2>4. r.pc = "create" /\ r.upd = 0 /\ r.snap = Snapshot
    BY DEF Idle
  <2>5. Enter(s, r)
    BY <2>1
  <2> HIDE DEF r
  <2>6. r.upd <= r.snap.ver
    BY <2>2, <2>4
  <2> QED  BY <2>2, <2>3, <2>4, <2>5, <2>6, AloneEnter
<1>4. CASE Exit \/ Crash
  <2>1. \A t \in Saver : saver'[t].pc = "idle"
    BY <1>4 DEF Exit, Crash, Down, Idle
  <2> QED  BY <2>1 DEF AloneInv, AloneOK
<1>5. CASE Start
  <2>1. \A t \in Saver : saver[t] = Idle
    BY <1>5 DEF Start, SnapshotInv, Running
  <2>2. \A t \in Saver : saver'[t].pc = "idle"
    BY <1>5, <2>1 DEF Start, Idle
  <2> QED  BY <2>2 DEF AloneInv, AloneOK
<1>6. CASE Stop \/ TickerExit \/ UNCHANGED vars
  <2>1. UNCHANGED <<saver, dir, data, ver>>
    BY <1>6 DEF Stop, TickerExit, vars, disk
  <2> QED  BY <2>1 DEF AloneInv, AloneOK
<1> QED  BY <1>1, <1>2, <1>3, <1>4, <1>5, <1>6 DEF Next

(* The invariant holds in every state. *)
LEMMA AloneInvHolds == Spec => []AloneInv
<1>1. Init => AloneInv
  BY DEF Init, AloneInv, AloneOK, Idle
<1>2. TypeOK /\ SnapshotInv /\ AloneInv /\ [Next]_vars => AloneInv'
  BY AloneInvStep
<1> QED  BY <1>1, <1>2, TypeCorrect, SnapshotInvHolds, PTL DEF Spec

(* In synchronous mode no step of an update ends it. *)
LEMMA WriterGoesOn ==
    ASSUME TypeOK, SyncWrite, NEW v \in Writer, WriterStep(v),
           NEW t \in Saver, saver[t].pc # "idle"
    PROVE  saver'[t].pc # "idle"
<1>1. v \in Saver /\ saver[v] \in SaverState /\ ver + 1 \in Nat
  BY SaverNames DEF TypeOK
<1>2. CASE UpdateGauge(v) \/ UpdateCounter(v)
  <2>1. PICK ms : Update(v, ms)
    BY <1>2 DEF UpdateGauge, UpdateCounter
  <2> DEFINE r == [Idle EXCEPT !.pc = "updated", !.upd = ver + 1]
  <2>2. saver[v].pc = "idle" /\ Enter(v, r)
    BY <2>1 DEF Update
  <2> HIDE DEF r
  <2> QED  BY <1>1, <2>2, EnterOthers
<1>3. CASE UpdateBatch(v)
  BY <1>1, <1>3, EnterOthers DEF UpdateBatch
<1>4. CASE BatchStep(v) \/ BatchEnd(v) \/ TakeSnapshot(v)
  <2>1. ASSUME BatchStep(v) PROVE saver'[t].pc # "idle"
    <3>1. saver' = [saver EXCEPT ![v].todo = Tail(@)]
      BY <2>1 DEF BatchStep
    <3>2. saver'[t].pc = saver[t].pc
      BY <1>1, <3>1 DEF TypeOK, SaverState
    <3> QED  BY <3>2
  <2>2. ASSUME BatchEnd(v) PROVE saver'[t].pc # "idle"
    <3>1. saver' = [saver EXCEPT ![v].pc = "updated"]
      BY <2>2 DEF BatchEnd, Goto
    <3>2. saver'[t].pc \in {saver[t].pc, "updated"}
      BY <1>1, <3>1 DEF TypeOK, SaverState
    <3> QED  BY <3>2
  <2>3. ASSUME TakeSnapshot(v) PROVE saver'[t].pc # "idle"
    <3>1. saver' = [saver EXCEPT ![v].pc = "create", ![v].snap = Snapshot]
      BY <2>3 DEF TakeSnapshot
    <3> HIDE DEF Snapshot
    <3>2. saver'[t].pc \in {saver[t].pc, "create"}
      BY <1>1, <3>1 DEF TypeOK, SaverState
    <3> QED  BY <3>2
  <2> QED  BY <1>4, <2>1, <2>2, <2>3
<1> QED  BY <1>2, <1>3, <1>4 DEF WriterStep

(* An update that returns while it was alone, with nothing failing, has    *)
(* renamed its list.                                                       *)
LEMMA AloneReturns ==
    ASSUME TypeOK, AloneInv, [Next]_vars, NEW w \in Writer, SyncReturns(w), saver[w].alone,
           Encodable(saver[w].snap.list)
    PROVE  MainExists' /\ Main'.intact /\ Main'.ver >= saver[w].upd
<1>1. /\ SyncWrite /\ faults' = 0 /\ phase' # "down" /\ w \in Saver
      /\ saver[w].pc # "idle" /\ saver'[w].pc = "idle" /\ AloneOK(w)
  BY SaverNames DEF SyncReturns, AloneInv
<1>2. ~ \E v \in Writer : WriterStep(v)
  BY <1>1, WriterGoesOn
<1>3. ~(PeriodicSave \/ FinalSave)
  <2>1. ASSUME PeriodicSave \/ FinalSave PROVE FALSE
    <3>1. PICK s \in Saver : Enter(s, [Idle EXCEPT !.pc = "create", !.snap = Snapshot])
      BY <2>1, SaverNames DEF PeriodicSave, FinalSave
    <3> QED  BY <1>1, <3>1, EnterSaveEffect
  <2> QED  BY <2>1
<1>4. ~(Start \/ Stop \/ TickerExit \/ UNCHANGED vars)
  BY <1>1 DEF Start, Stop, TickerExit, vars
<1>5. ~(Exit \/ Crash)
  BY <1>1 DEF Exit, Crash, Down
<1>6. PICK s \in Saver : SaveStep(s)
  BY <1>2, <1>3, <1>4, <1>5 DEF Next
<1>7. s = w
  BY <1>1, <1>6
     DEF SaveStep, Create, Encode, EncodeFails, Rename, RenameFails, Fault, Return, TypeOK
<1>8. ~(Create(s) \/ Encode(s))
  <2>1. saver[s] \in SaverState
    BY DEF TypeOK
  <2>2. ~Create(s)
    <3>1. ASSUME Create(s) PROVE FALSE
      <4>1. PICK i : saver' = [saver EXCEPT ![s].pc = "write", ![s].fd = i]
        BY <3>1 DEF Create
      <4> QED  BY <1>1, <1>7, <2>1, <4>1 DEF TypeOK, SaverState
    <3> QED  BY <3>1
  <2>3. ~Encode(s)
    BY <1>1, <1>7, <2>1 DEF Encode, TypeOK, SaverState
  <2> QED  BY <2>2, <2>3
<1>9. ~(EncodeFails(s) \/ Fault(s))
  <2>1. faults' # faults + 1
    BY <1>1 DEF TypeOK
  <2> QED  BY <1>7, <2>1 DEF EncodeFails, Fault
<1>10. ~RenameFails(s)
  BY <1>1, <1>7 DEF RenameFails, AloneOK
<1>11. Rename(s)
  BY <1>6, <1>8, <1>9, <1>10 DEF SaveStep
<1>12. dir' = [main |-> dir.tmp, tmp |-> NoInode] /\ data' = data /\ saver[w].pc = "rename"
  BY <1>7, <1>11 DEF Rename
<1>13. dir'.main = dir.tmp
  BY <1>12
<1>14. saver[w].upd \in Nat /\ data[dir.tmp].ver \in Nat
  BY <1>1, <1>12 DEF AloneOK, TypeOK, SaverState, Content
<1> QED  BY <1>1, <1>12, <1>13, <1>14 DEF AloneOK, MainExists, Main

(* In synchronous mode an update that no other overlaps is in filePath,    *)
(* with all before it, when its call returns: truncating, writing and      *)
(* renaming a tmp file that any goroutine may open suffices as long as no  *)
(* other goroutine does.  (internal/repository/filestorage.go, saveToFile) *)
THEOREM AloneUpdateIsSaved == Spec => AloneUpdateOnDisk
<1>1. TypeOK /\ AloneInv /\ [Next]_vars =>
        \A w \in Writer :
          SyncReturns(w) /\ saver[w].alone /\ Encodable(saver[w].snap.list) =>
            MainExists' /\ Main'.intact /\ Main'.ver >= saver[w].upd
  BY AloneReturns
<1> QED  BY <1>1, TypeCorrect, AloneInvHolds, PTL DEF Spec, AloneUpdateOnDisk

-----------------------------------------------------------------------------
(* In periodic mode FileStorage implements DurableStore, for every value   *)
(* of its constants.                                                       *)

(* The list a saver is about to rename is the one it took.                 *)

(* What a step of the save of s does to the savers and to the tmp file.    *)
LEMMA CommitSaveStep ==
    ASSUME TypeOK, OneSaver, TmpIsPrivate, CommitInv, ~SyncWrite, ~StopTimesOut,
           NEW s \in Saver, SaveStep(s)
    PROVE  CommitInv'
<1>1. saver[s].pc \in {"create", "write", "rename"}
  BY DEF SaveStep, Create, Encode, EncodeFails, Rename, RenameFails, Fault
<1>2. \A t \in Saver : saver[t].pc = "rename" => t = s
  BY <1>1, OnlyOneSaver
<1>3. ASSUME NEW pc \in {"idle", "write", "rename"},
             \A t \in Saver : /\ t # s => saver'[t] = saver[t]
                              /\ t = s => saver'[t].pc = pc,
             pc = "rename" => data'[dir'.tmp] = saver'[s].snap
      PROVE  CommitInv'
  BY <1>2, <1>3 DEF CommitInv
<1>4. CASE Create(s)
  <2>1. \A t \in Saver : /\ t # s => saver'[t] = saver[t]
                         /\ t = s => saver'[t].pc = "write"
    BY <1>4 DEF Create, TypeOK, SaverState
  <2>2. QED
    BY <1>3, <2>1
<1>5. CASE Encode(s)
  <2>1. \A t \in Saver : /\ t # s => saver'[t] = saver[t]
                         /\ t = s => saver'[t].pc = "rename" /\ saver'[t].snap = saver[t].snap
    BY <1>5 DEF Encode, TypeOK, SaverState
  <2>2. data'[dir'.tmp] = saver[s].snap
    BY <1>5 DEF Encode, TmpIsPrivate, TypeOK
  <2>3. QED
    BY <1>3, <2>1, <2>2
<1>6. CASE EncodeFails(s) \/ Rename(s) \/ RenameFails(s) \/ Fault(s)
  <2>1. PICK ok : Return(s, ok)
    BY <1>6 DEF EncodeFails, Rename, RenameFails, Fault
  <2>2. \A t \in Saver : /\ t # s => saver'[t] = saver[t]
                         /\ t = s => saver'[t].pc = "idle"
    BY <2>1 DEF Return, TypeOK, Idle
  <2>3. QED
    BY <1>3, <2>2
<1>7. QED
  BY <1>4, <1>5, <1>6 DEF SaveStep

(* A step of an update leaves the files and the other goroutines alone. *)
LEMMA WriterFrame ==
    ASSUME TypeOK, OneSaver, ~SyncWrite, NEW w \in Writer, WriterStep(w)
    PROVE  /\ UNCHANGED <<dir, data, phase, ticker>>
           /\ \A t \in Saver \ {w} : saver'[t].pc = saver[t].pc /\ saver'[t].snap = saver[t].snap
<1>1. w \in Saver /\ saver[w].pc \in {"idle", "batch"}
  BY SaverNames DEF OneSaver
<1>2. CASE UpdateGauge(w) \/ UpdateCounter(w)
  <2>1. ASSUME NEW ms, Update(w, ms)
        PROVE  UNCHANGED <<saver, dir, data, phase, ticker>>
    BY <2>1 DEF Update, disk
  <2>2. QED
    BY <1>2, <2>1 DEF UpdateGauge, UpdateCounter
<1>3. CASE UpdateBatch(w)
  BY <1>1, <1>3, EnterOthers DEF UpdateBatch, disk
<1>4. CASE BatchStep(w) \/ BatchEnd(w) \/ TakeSnapshot(w)
  BY <1>1, <1>4 DEF BatchStep, BatchEnd, TakeSnapshot, Goto, disk, TypeOK
<1>5. QED
  BY <1>2, <1>3, <1>4 DEF WriterStep

(* Every step keeps the tmp file and the snapshot of its saver together. *)
LEMMA CommitInvStep ==
    ASSUME TypeOK, PeriodicInv, CommitInv, [Next]_vars
    PROVE  CommitInv'
<1> SUFFICES ASSUME ~SyncWrite, ~StopTimesOut
             PROVE  CommitInv'
  BY DEF CommitInv
<1>1. OneSaver /\ TmpIsPrivate
  BY DEF PeriodicInv
<1>2. CASE \E w \in Writer : WriterStep(w)
  <2>1. PICK w \in Writer : WriterStep(w)
    BY <1>2
  <2>2. saver'[w].pc \in {"idle", "batch"}
    BY PeriodicInvStep DEF PeriodicInv, OneSaver
  <2>3. UNCHANGED <<dir, data>>
        /\ \A t \in Saver \ {w} : saver'[t].pc = saver[t].pc /\ saver'[t].snap = saver[t].snap
    BY <1>1, <2>1, WriterFrame
  <2>4. QED
    BY <2>2, <2>3 DEF CommitInv
<1>3. CASE \E s \in Saver : SaveStep(s)
  BY <1>1, <1>3, CommitSaveStep
<1>4. CASE PeriodicSave \/ FinalSave
  <2>1. PICK s \in {Ticker, Stopper} :
          Enter(s, [Idle EXCEPT !.pc = "create", !.snap = Snapshot])
    BY <1>4 DEF PeriodicSave, FinalSave
  <2>2. \A t \in Saver :
           /\ t = s => saver'[t].pc = "create"
           /\ t # s => saver'[t].pc = saver[t].pc /\ saver'[t].snap = saver[t].snap
    BY <2>1, EnterSaveEffect, SaverNames
  <2>3. UNCHANGED <<dir, data>>
    BY <1>4 DEF PeriodicSave, FinalSave, disk
  <2>4. QED
    BY <2>2, <2>3 DEF CommitInv
<1>5. CASE Exit \/ Crash
  BY <1>5 DEF Exit, Crash, Down, Idle, CommitInv
<1>6. CASE Start \/ Stop \/ TickerExit \/ UNCHANGED vars
  BY <1>6 DEF Start, Stop, TickerExit, vars, disk, CommitInv
<1>7. QED
  BY <1>2, <1>3, <1>4, <1>5, <1>6 DEF Next

(* A finished tmp file holds the snapshot of its saver. *)
LEMMA CommitInvHolds == Spec => []CommitInv
<1>1. Init => CommitInv
  BY DEF Init, CommitInv, Idle
<1>2. TypeOK /\ PeriodicInv /\ CommitInv /\ [Next]_vars => CommitInv'
  BY CommitInvStep
<1>3. QED
  BY <1>1, <1>2, TypeCorrect, PeriodicInvHolds, PTL DEF Spec

-----------------------------------------------------------------------------
(* The states and steps of DurableStore.                                   *)

(* Everything known of a state of a run in periodic mode. *)
RefInv == TypeOK /\ PeriodicInv /\ SnapshotInv /\ CommitInv

(* During a save it is one list that is being saved, and otherwise none. *)
LEMMA BeingSavedByOne ==
    ASSUME RefInv, ~SyncWrite, ~StopTimesOut, NEW s \in Saver,
           saver[s].pc \in {"create", "write", "rename"}
    PROVE  BeingSaved = {saver[s].snap.list}
<1>1. s \in {Ticker, Stopper}
  BY OnlyOneSaver DEF RefInv, PeriodicInv
<1>2. \A t \in Active \ Writer : t = s
  BY OnlyOneSaver DEF Active, RefInv, PeriodicInv, CommitInv
<1>3. s \in Active \ Writer
  BY <1>1, SaverNames DEF Active
<1>4. QED
  BY <1>2, <1>3 DEF BeingSaved

(* A step that is none of the savers' moves leaves what is being saved. *)
LEMMA BeingSavedFrame ==
    ASSUME \A t \in Saver \ Writer : saver'[t].pc = saver[t].pc /\ saver'[t].snap = saver[t].snap
    PROVE  BeingSaved' = BeingSaved
<1>1. (Active \ Writer)' = Active \ Writer
  BY DEF Active
<1>2. \A t \in Active \ Writer : saver'[t].snap.list = saver[t].snap.list
  BY DEF Active
<1>3. QED
  BY <1>1, <1>2 DEF BeingSaved

(* Only a rename changes what is saved. *)
LEMMA SavedFrame ==
    ASSUME RefInv, PeriodicInv', ~SyncWrite, ~StopTimesOut, [Next]_vars,
           ~ \E s \in Saver : Rename(s)
    PROVE  Saved' = Saved
<1>1. dir'.main = dir.main /\ (MainExists => Main' = Main)
  BY MainFrame DEF RefInv
<1>2. QED
  BY <1>1 DEF Saved, MainExists

(* The initial states map to initial states. *)
LEMMA InitRefines ==
    ASSUME Init
    PROVE  Durable!Init
<1>1. \A s \in Saver : saver[s].pc = "idle"
  BY DEF Init, Idle
<1>2. QED
  BY <1>1 DEF Init, Durable!Init, Running, Saved, BeingSaved, Active, MainExists

(* An update is a write to the store, alone or between the two ends of a   *)
(* batch.                                                                  *)
LEMMA WriterStepRefines ==
    ASSUME RefInv, ~SyncWrite, ~StopTimesOut, Saved' = Saved,
           NEW w \in Writer, WriterStep(w)
    PROVE  Durable!Next \/ UNCHANGED Durable!vars
<1>1. OneSaver /\ TypeOK
  BY DEF RefInv, PeriodicInv
<1>2. BeingSaved' = BeingSaved /\ phase' = phase
  BY <1>1, WriterFrame, BeingSavedFrame, SaverNames
<1>3. Running /\ Running'
  <2>1. saver[w].pc # "idle" => Running
    BY SaverNames DEF RefInv, SnapshotInv, Idle
  <2>2. Running
    BY <2>1 DEF WriterStep, UpdateGauge, UpdateCounter, Update, UpdateBatch, BatchStep,
                BatchEnd, TakeSnapshot, Serving, Running
  <2>3. QED
    BY <1>2, <2>2 DEF Running
<1>4. CASE UpdateGauge(w)
  <2>1. PICK i \in Id, v \in Value : Update(w, SetGauge(mem, i, v))
    BY <1>4 DEF UpdateGauge
  <2>2. Gauge(i, v) \in Metric /\ ApplyMetric(mem, Gauge(i, v)) = SetGauge(mem, i, v)
    BY StoreAssumption DEF Gauge, Metric, ApplyMetric
  <2>3. mem' = SetGauge(mem, i, v) /\ mu' = mu
    BY <2>1 DEF Update
  <2>4. Durable!Write
    BY <1>2, <1>3, <2>2, <2>3 DEF Durable!Write
  <2>5. QED
    BY <2>4 DEF Durable!Next
<1>5. CASE UpdateCounter(w)
  <2>1. PICK i \in Id, d \in Delta : Update(w, AddCounter(mem, i, d))
    BY <1>5 DEF UpdateCounter
  <2>2. d \in Counter /\ d # Missing
    BY FileAssumption, StoreAssumption DEF Counter
  <2>3. Count(i, d) \in Metric /\ ApplyMetric(mem, Count(i, d)) = AddCounter(mem, i, d)
    BY <2>2 DEF Count, Metric, ApplyMetric
  <2>4. mem' = AddCounter(mem, i, d) /\ mu' = mu
    BY <2>1 DEF Update
  <2>5. Durable!Write
    BY <1>2, <1>3, <2>3, <2>4 DEF Durable!Write
  <2>6. QED
    BY <2>5 DEF Durable!Next
<1>6. CASE UpdateBatch(w)
  <2>1. mu = NoOne /\ mu' = w /\ w # NoOne /\ mem' = mem
    BY <1>6, FileAssumption, SaverNames DEF UpdateBatch, NoOne
  <2>2. Durable!Begin
    BY <1>2, <1>3, <2>1 DEF Durable!Begin
  <2>3. QED
    BY <2>2 DEF Durable!Next
<1>7. CASE BatchStep(w)
  <2>1. Head(saver[w].todo) \in Metric
    BY <1>1, <1>7, SaverNames DEF BatchStep, TypeOK, SaverState
  <2>2. mem' = ApplyMetric(mem, Head(saver[w].todo)) /\ mu' = mu
    BY <1>7 DEF BatchStep
  <2>3. Durable!Write
    BY <1>2, <1>3, <2>1, <2>2 DEF Durable!Write
  <2>4. QED
    BY <2>3 DEF Durable!Next
<1>8. CASE BatchEnd(w)
  <2>1. mu = w /\ w # NoOne
    BY <1>8, FileAssumption, SaverNames DEF BatchEnd, RefInv, SnapshotInv, NoOne
  <2>2. mu' = NoOne /\ mem' = mem
    BY <1>8 DEF BatchEnd
  <2>3. Durable!End
    BY <1>2, <1>3, <2>1, <2>2 DEF Durable!End
  <2>4. QED
    BY <2>3 DEF Durable!Next
<1>9. CASE TakeSnapshot(w)
  BY <1>1, <1>9, SaverNames DEF TakeSnapshot, OneSaver
<1>10. QED
  BY <1>4, <1>5, <1>6, <1>7, <1>8, <1>9 DEF WriterStep

(* A system call of a save commits its list, gives it up, or does not show.*)
LEMMA SaveStepRefines ==
    ASSUME RefInv, RefInv', ~SyncWrite, ~StopTimesOut, [Next]_vars,
           NEW s \in Saver, SaveStep(s)
    PROVE  Durable!Next \/ UNCHANGED Durable!vars
<1>1. saver[s].pc \in {"create", "write", "rename"}
  BY DEF SaveStep, Create, Encode, EncodeFails, Rename, RenameFails, Fault
<1>2. BeingSaved = {saver[s].snap.list}
  BY <1>1, BeingSavedByOne
<1>3. UNCHANGED <<mem, mu>>
  BY DEF SaveStep, Create, Encode, EncodeFails, Rename, RenameFails, Fault
<1>4. Running
  BY <1>1 DEF RefInv, SnapshotInv, Idle
<1>5. s \in {Ticker, Stopper} /\ \A t \in Active \ Writer : t = s
  BY <1>1, OnlyOneSaver DEF Active, RefInv, PeriodicInv, CommitInv
<1>6. CASE Create(s) \/ Encode(s)
  <2>1. ~ \E t \in Saver : Rename(t)
    <3>1. ~Rename(s)
      BY <1>6 DEF Create, Encode, Rename
    <3>2. QED
      BY <1>1, <3>1, OnlyOneSaver DEF Rename, RefInv, PeriodicInv
  <2>2. Saved' = Saved
    BY <2>1, SavedFrame DEF RefInv
  <2>3. saver'[s].pc \in {"create", "write", "rename"} /\ saver'[s].snap = saver[s].snap
    BY <1>6 DEF Create, Encode, RefInv, TypeOK, SaverState
  <2>4. BeingSaved' = {saver'[s].snap.list}
    <3>1. \A t \in Saver : t # s => saver'[t] = saver[t]
      BY <1>6 DEF Create, Encode, RefInv, TypeOK
    <3>2. (Active \ Writer)' = {s}
      BY <1>5, <2>3, <3>1, SaverNames DEF Active
    <3>3. QED
      BY <3>2 DEF BeingSaved
  <2>5. Running' = Running
    BY <1>6 DEF Create, Encode, Running
  <2>6. QED
    BY <1>2, <1>3, <2>2, <2>3, <2>4, <2>5 DEF Durable!vars
<1>7. CASE EncodeFails(s) \/ Rename(s) \/ RenameFails(s) \/ Fault(s)
  <2>1. PICK ok \in BOOLEAN : Return(s, ok)
    BY <1>7 DEF EncodeFails, Rename, RenameFails, Fault
  <2>2. \A t \in Saver : /\ t # s => saver'[t] = saver[t]
                         /\ t = s => saver'[t].pc = "idle"
    BY <2>1 DEF Return, RefInv, TypeOK, Idle
  <2>3. BeingSaved' = {}
    BY <1>5, <2>2 DEF BeingSaved, Active
  <2>4. Running'
    BY <1>4, <2>1 DEF Return, Running
  <2>5. CASE Rename(s)
    <3>1. dir'.main = dir.tmp /\ dir.tmp # NoInode /\ data' = data
      BY <2>5 DEF Rename, RefInv, TypeOK
    <3>2. data[dir.tmp] = saver[s].snap /\ data[dir.tmp].intact
      BY <2>5 DEF Rename, RefInv, CommitInv, PeriodicInv, TmpIsPrivate
    <3>3. Saved' = {saver[s].snap.list}
      BY <3>1, <3>2 DEF Saved, MainExists, Main
    <3>4. Durable!Commit
      BY <1>2, <1>3, <1>4, <2>3, <2>4, <3>3 DEF Durable!Commit
    <3>5. QED
      BY <3>4 DEF Durable!Next
  <2>6. CASE ~Rename(s)
    <3>1. ~ \E t \in Saver : Rename(t)
      BY <1>1, <2>6, OnlyOneSaver DEF Rename, RefInv, PeriodicInv
    <3>2. Saved' = Saved
      BY <3>1, SavedFrame DEF RefInv
    <3>3. Durable!Abandon
      BY <1>3, <1>4, <2>3, <2>4, <3>2 DEF Durable!Abandon
    <3>4. QED
      BY <3>3 DEF Durable!Next
  <2>7. QED
    BY <2>5, <2>6
<1>8. QED
  BY <1>6, <1>7 DEF SaveStep

(* A start finds no file, or a whole one and restores its list. *)
LEMMA StartRefines ==
    ASSUME RefInv, ~SyncWrite, ~StopTimesOut, Saved' = Saved, Start
    PROVE  Durable!Start
<1>1. ~Running /\ UNCHANGED <<mu, saver, dir, data>>
  BY DEF Start, Running, disk
<1>2. BeingSaved' = BeingSaved
  BY <1>1, BeingSavedFrame
<1>3. MainExists => Main.intact
  BY DEF RefInv, PeriodicInv, TmpIsPrivate
<1>4. Running'
  BY <1>3 DEF Start, Running
<1>5. Saved = IF MainExists THEN {Main.list} ELSE {}
  BY <1>3 DEF Saved
<1>6. mem' = IF Restore /\ Saved # {} THEN LoadList(CHOOSE list \in Saved : TRUE)
                                       ELSE NewMemStorage
  <2>1. CASE Restore /\ MainExists
    <3>1. mem' = LoadList(Main.list)
      BY <1>3, <2>1 DEF Start
    <3>2. Saved = {Main.list}
      BY <1>5, <2>1
    <3>3. (CHOOSE list \in Saved : TRUE) = Main.list
      BY <3>2
    <3>4. QED
      BY <2>1, <3>1, <3>2, <3>3
  <2>2. CASE ~(Restore /\ MainExists)
    BY <1>5, <2>2 DEF Start
  <2>3. QED
    BY <2>1, <2>2
<1>7. QED
  BY <1>1, <1>2, <1>4, <1>6 DEF Durable!Start

(* A saver that starts takes the list of the store between two writes. *)
LEMMA TakeRefines ==
    ASSUME RefInv, RefInv', ~SyncWrite, ~StopTimesOut, Saved' = Saved,
           PeriodicSave \/ FinalSave
    PROVE  Durable!Take
<1>1. PICK s \in {Ticker, Stopper} :
        /\ Enter(s, [Idle EXCEPT !.pc = "create", !.snap = Snapshot])
        /\ s = Ticker => PeriodicSave
        /\ s = Stopper => FinalSave
  BY SaverNames DEF PeriodicSave, FinalSave
<1>2. mu = NoOne /\ UNCHANGED <<mem, mu>> /\ Running /\ Running'
  BY DEF PeriodicSave, FinalSave, Running
<1>3. saver'[s].pc = "create" /\ saver'[s].snap = Snapshot
  BY <1>1, EnterSaveEffect, SaverNames DEF RefInv
<1>4. Active \ Writer = {}
  <2>1. saver[Ticker].pc = "idle" /\ saver[Stopper].pc = "idle"
    BY <1>1, SaverNames DEF PeriodicSave, FinalSave, RefInv, PeriodicInv, OneSaver
  <2>2. QED
    BY <2>1 DEF Active, Saver
<1>5. BeingSaved = {} /\ BeingSaved' = {GetAllMetrics(mem)}
  <2>1. \A t \in Saver : t # s => saver'[t].pc = saver[t].pc
    BY <1>1, EnterSaveEffect, SaverNames DEF RefInv
  <2>2. (Active \ Writer)' = {s}
    BY <1>1, <1>3, <1>4, <2>1, SaverNames DEF Active
  <2>3. saver'[s].snap.list = GetAllMetrics(mem)
    BY <1>3 DEF Snapshot
  <2>4. QED
    BY <1>4, <2>2, <2>3 DEF BeingSaved
<1>6. QED
  BY <1>2, <1>4, <1>5 DEF Durable!Take

(* The process ends. *)
LEMMA DownRefines ==
    ASSUME RefInv, Saved' = Saved, Running, Down
    PROVE  Durable!Stop
<1>1. BeingSaved' = {}
  BY DEF Down, Idle, BeingSaved, Active
<1>2. ~Running' /\ mu' = NoOne /\ mem' = mem
  BY DEF Down, Running
<1>3. QED
  BY <1>1, <1>2 DEF Durable!Stop

(* Every step maps to a step of DurableStore or to a stutter. *)
LEMMA StepRefines ==
    ASSUME RefInv, RefInv', ~SyncWrite, ~StopTimesOut, [Next]_vars
    PROVE  [Durable!Next]_Durable!vars
<1>1. ASSUME ~ \E s \in Saver : Rename(s)
      PROVE  Saved' = Saved
  BY <1>1, SavedFrame DEF RefInv
<1>2. ASSUME NEW s \in Saver, Rename(s)
      PROVE  SaveStep(s)
  BY <1>2 DEF SaveStep
<1>3. CASE \E s \in Saver : SaveStep(s)
  BY <1>3, SaveStepRefines
<1>4. CASE ~ \E s \in Saver : SaveStep(s)
  <2>1. Saved' = Saved
    BY <1>1, <1>2, <1>4
  <2>2. CASE \E w \in Writer : WriterStep(w)
    BY <2>1, <2>2, WriterStepRefines
  <2>3. CASE Start
    BY <2>1, <2>3, StartRefines DEF Durable!Next
  <2>4. CASE PeriodicSave \/ FinalSave
    BY <2>1, <2>4, TakeRefines DEF Durable!Next
  <2>5. CASE Exit \/ Crash
    BY <2>1, <2>5, DownRefines DEF Exit, Crash, Running, Durable!Next
  <2>6. CASE Stop \/ TickerExit \/ UNCHANGED vars
    <3>1. UNCHANGED <<mem, mu, saver>> /\ Running' = Running
      BY <2>6 DEF Stop, TickerExit, vars, Running
    <3>2. BeingSaved' = BeingSaved
      BY <3>1, BeingSavedFrame
    <3>3. QED
      BY <2>1, <3>1, <3>2 DEF Durable!vars
  <2>7. QED
    BY <1>4, <2>2, <2>3, <2>4, <2>5, <2>6 DEF Next
<1>5. QED
  BY <1>3, <1>4

(* In periodic mode, with a stop hook that waits for the saver, the store  *)
(* and its file implement the durable store: every rename commits one      *)
(* whole list, a save that fails leaves the old one, and a start restores  *)
(* the list, wherever the process was killed.                              *)
THEOREM PeriodicRefinement == ~SyncWrite /\ ~StopTimesOut /\ Spec => DurableSpec
<1> SUFFICES ASSUME ~SyncWrite, ~StopTimesOut
             PROVE  Spec => DurableSpec
  OBVIOUS
<1>1. Init => Durable!Init
  BY InitRefines
<1>2. RefInv /\ RefInv' /\ [Next]_vars => [Durable!Next]_Durable!vars
  BY StepRefines
<1>3. RefInv <=> TypeOK /\ PeriodicInv /\ SnapshotInv /\ CommitInv
  BY DEF RefInv
<1>4. QED
  BY <1>1, <1>2, <1>3, TypeCorrect, PeriodicInvHolds, SnapshotInvHolds, CommitInvHolds, PTL
     DEF Spec, DurableSpec, Durable!Spec
=============================================================================
