---------------------------- MODULE MetricsStore ----------------------------
(***************************************************************************)
(* The values the server keeps and the operations MemStorage offers on     *)
(* them (internal/repository/storage.go), as pure operators on a store.    *)
(*                                                                         *)
(* A store has two maps, gauges and counters.  A map that lacks a key is a *)
(* function whose value there is Missing, which is also the nil pointer of *)
(* a model.Metrics.  Counters are two's complement integers of 2 * Half    *)
(* values (Half is 2^63 in Go) and wrap around.                            *)
(***************************************************************************)
EXTENDS Integers

CONSTANTS
    Id,         \* the metric names
    Value,      \* the values a gauge may hold
    NonFinite,  \* those of them that encoding/json refuses: NaN and infinities
    Half,       \* a counter lies in -Half .. Half - 1
    Missing     \* no such key, or a nil pointer

ASSUME StoreAssumption ==
    /\ NonFinite \subseteq Value
    /\ Half \in Nat \ {0}
    /\ Missing \notin Value
    /\ Missing \notin Int

Counter == -Half .. Half - 1

Wrap(n) == ((n + Half) % (2 * Half)) - Half

Store == [gauges   : [Id -> Value \cup {Missing}],
          counters : [Id -> Counter \cup {Missing}]]

(* The struct model.Metrics: only the field its mtype names is meaningful. *)
Metric == [id    : Id,
           mtype : {"gauge", "counter"},
           value : Value \cup {Missing},
           delta : Counter \cup {Missing}]

Gauge(i, v)   == [id |-> i, mtype |-> "gauge", value |-> v, delta |-> Missing]
Count(i, d)   == [id |-> i, mtype |-> "counter", value |-> Missing, delta |-> d]

NewMemStorage == [gauges   |-> [i \in Id |-> Missing],
                  counters |-> [i \in Id |-> Missing]]

HasGauge(ms, i)   == ms.gauges[i] # Missing
HasCounter(ms, i) == ms.counters[i] # Missing

(* gauges[id] = value *)
SetGauge(ms, i, v) == [ms EXCEPT !.gauges[i] = v]

(* Mutant of AddCounter: the sum does not wrap around. *)
AddCounterUnwrapped(ms, i, d) ==
    [ms EXCEPT !.counters[i] = (IF HasCounter(ms, i) THEN @ ELSE 0) + d]

(* counters[id] += delta, where the zero value stands for a missing key *)
AddCounter(ms, i, d) ==
    [ms EXCEPT !.counters[i] = Wrap((IF HasCounter(ms, i) THEN @ ELSE 0) + d)]

(* One turn of UpdateBatch's loop: a metric with a nil pointer is skipped. *)
ApplyMetric(ms, m) ==
    CASE m.mtype = "gauge" /\ m.value # Missing   -> SetGauge(ms, m.id, m.value)
      [] m.mtype = "counter" /\ m.delta # Missing -> AddCounter(ms, m.id, m.delta)
      [] OTHER                                    -> ms

(* Mutant of GetAllMetrics: the gauges are written over the counters. *)
GaugesOverCounters(ms) ==
    {Gauge(i, ms.gauges[i]) : i \in {j \in Id : HasGauge(ms, j)}}
      \cup
    {Count(i, ms.counters[i]) : i \in {j \in Id : HasCounter(ms, j) /\ ~HasGauge(ms, j)}}

(* The map id -> Metrics of GetAllMetrics, as the set of its values: the   *)
(* counters are written after the gauges, over a gauge of the same name.   *)
GetAllMetrics(ms) ==
    {Count(i, ms.counters[i]) : i \in {j \in Id : HasCounter(ms, j)}}
      \cup
    {Gauge(i, ms.gauges[i]) : i \in {j \in Id : HasGauge(ms, j) /\ ~HasCounter(ms, j)}}

(* json.Encoder refuses a list that holds a gauge with no JSON form. *)
Encodable(list) == \A m \in list : m.value \notin NonFinite

(* loadFromFile's loop over a list that names every id at most once, run   *)
(* on the empty store of NewMemStorage.                                    *)
LoadList(list) ==
    LET Entry(i, t) == {m \in list : m.id = i /\ m.mtype = t}
    IN  [gauges   |-> [i \in Id |-> IF Entry(i, "gauge") = {} THEN Missing
                                    ELSE (CHOOSE m \in Entry(i, "gauge") : TRUE).value],
         counters |-> [i \in Id |-> IF Entry(i, "counter") = {} THEN Missing
                                    ELSE (CHOOSE m \in Entry(i, "counter") : TRUE).delta]]
=============================================================================
