--------------------------- MODULE MetricsServer ---------------------------
(***************************************************************************)
(* Requests of the metrics server over an in-memory storage: the HTTP      *)
(* handlers (internal/handler), the gRPC method (internal/grpcserver), the *)
(* service they share (internal/service), MemStorage and its lock          *)
(* (internal/repository/storage.go), and the audit of updates              *)
(* (internal/audit).                                                       *)
(*                                                                         *)
(* A request runs in a goroutine of its own.  What it does between two     *)
(* accesses to shared state is one step.  An update of the storage is two, *)
(* a load and a store under MemStorage.mu; a read under the read lock is   *)
(* one.  The goroutines Notify starts are pending deliveries.              *)
(***************************************************************************)
EXTENDS MetricsStore, Sequences, FiniteSets, FiniteSetsExt

CONSTANTS
    NoId,         \* the empty metric name
    Malformed,    \* a body that does not decode
    Input,        \* the requests clients may send
    Observer,     \* the audit observers that are configured
    MaxRequests   \* bound on the requests

Single == {"UpdateMetric", "UpdateMetricJSON"}
Batch  == {"UpdateBatchJSON", "UpdateMetrics"}
Get    == {"GetMetricValue", "GetMetricValueJSON", "ListAllMetricsHTML"}
JSON   == {"UpdateMetricJSON", "UpdateBatchJSON", "GetMetricValueJSON"}

(* A metric as a client may send it. *)
Item == [id    : Id \cup {NoId},
         mtype : {"gauge", "counter", "unknown"},
         value : Value \cup {Missing},
         delta : Counter \cup {Missing}]

ASSUME ServerAssumption ==
    /\ NoId \notin Id
    /\ \A in \in Input :
          /\ in.route \in Single \cup Batch \cup Get
          /\ in.items = Malformed \/ in.items \in Seq(Item)
          /\ in.items # Malformed /\ in.route \notin Batch => Len(in.items) = 1
          /\ in.items # Malformed /\ in.route \in JSON =>
               \A k \in DOMAIN in.items : in.items[k].value \notin NonFinite
    /\ MaxRequests \in Nat

VARIABLES
    store,    \* the maps of MemStorage
    mu,       \* the request that holds MemStorage.mu for writing, or 0
    req,      \* the requests: see Goroutine
    pending,  \* the deliveries under way: <<observer, request>>
    log,      \* what each observer has received: the requests, in order
    failed,   \* history: the deliveries that failed
    exited    \* the process has exited

vars  == <<store, mu, req, pending, log, failed, exited>>
audit == <<pending, log, failed>>

Number == 1 .. MaxRequests

(* A goroutine.  next: the item to be applied next; old: the counter as it *)
(* was loaded; status and reply: the answer.  History: before, the         *)
(* requests that had been answered when this one arrived.                  *)
NotArrived == [pc |-> "none", in |-> Missing, next |-> 1, old |-> Missing,
               status |-> "none", reply |-> Missing, before |-> {}]

TypeOK ==
    /\ store \in Store
    /\ mu \in Number \cup {0}
    /\ DOMAIN req = Number
    /\ \A n \in Number :
          /\ req[n].pc \in {"none", "run", "locked", "readback", "done"}
          /\ req[n].in \in Input \cup {Missing}
          /\ req[n].next \in Nat
          /\ req[n].old \in Counter \cup {Missing}
          /\ req[n].status \in {"none", "ok", "bad request", "not found", "internal"}
          /\ req[n].before \subseteq Number
    /\ pending \subseteq Observer \X Number
    /\ log \in [Observer -> Seq(Number)]
    /\ failed \subseteq Observer \X Number
    /\ exited \in BOOLEAN

Init ==
    /\ store = NewMemStorage
    /\ mu = 0
    /\ req = [n \in Number |-> NotArrived]
    /\ pending = {}
    /\ log = [o \in Observer |-> <<>>]
    /\ failed = {}
    /\ exited = FALSE

-----------------------------------------------------------------------------
Arrived == {n \in Number : req[n].pc # "none"}
Done    == {n \in Number : req[n].pc = "done"}

Items(n)  == req[n].in.items
Route(n)  == req[n].in.route
Current(n) == Items(n)[req[n].next]
AllApplied(n) == req[n].next > Len(Items(n))

(* UpdateBatch's checks of one metric; the single handlers make the same.  *)
Valid(item) ==
    /\ item.id # NoId
    /\ \/ item.mtype = "gauge" /\ item.value # Missing
       \/ item.mtype = "counter" /\ item.delta # Missing

(* What is checked before the storage is touched: the gRPC method looks at *)
(* the kinds of all metrics, the JSON batch at none.                       *)
Refused(in) ==
    \/ in.items = Malformed
    \/ in.route \in Single /\ ~Valid(in.items[1])
    \/ in.route = "UpdateMetrics" /\ \E k \in DOMAIN in.items : in.items[k].mtype = "unknown"
    \/ /\ in.route \in {"GetMetricValue", "GetMetricValueJSON"}
       /\ in.items[1].id = NoId \/ in.items[1].mtype = "unknown"

Answer(n, status, reply) ==
    req' = [req EXCEPT ![n].pc = "done", ![n].status = status, ![n].reply = reply]

Arrive(n) ==
    /\ ~exited
    /\ n = Cardinality(Arrived) + 1
    /\ \E in \in Input : req' = [req EXCEPT ![n].pc = "run", ![n].in = in, ![n].before = Done]
    /\ UNCHANGED <<store, mu, audit, exited>>

Refuse(n) ==
    /\ req[n].pc = "run"
    /\ Refused(req[n].in)
    /\ Answer(n, "bad request", Missing)
    /\ UNCHANGED <<store, mu, audit, exited>>

-----------------------------------------------------------------------------
(* Updates: item by item, the service never calls Storage.UpdateBatch.     *)

Updating(n) == req[n].pc = "run" /\ Route(n) \notin Get /\ ~Refused(req[n].in)

(* Mutant of Lock: mu is not taken. *)
LoadUnlocked(n) ==
    /\ Updating(n)
    /\ ~AllApplied(n) /\ Valid(Current(n))
    /\ req' = [req EXCEPT ![n].pc = "locked", ![n].old = store.counters[Current(n).id]]
    /\ UNCHANGED <<store, mu, audit, exited>>

(* UpdateGauge or UpdateCounter takes mu and loads the counter. *)
Lock(n) ==
    /\ Updating(n)
    /\ ~AllApplied(n) /\ Valid(Current(n))
    /\ mu = 0
    /\ mu' = n
    /\ req' = [req EXCEPT ![n].pc = "locked", ![n].old = store.counters[Current(n).id]]
    /\ UNCHANGED <<store, audit, exited>>

(* It stores the sum, or the gauge, and releases mu. *)
Apply(n) ==
    /\ req[n].pc = "locked"
    /\ LET item == Current(n)
       IN  store' = IF item.mtype = "gauge" THEN SetGauge(store, item.id, item.value)
                    ELSE AddCounter([store EXCEPT !.counters[item.id] = req[n].old],
                                    item.id, item.delta)
    /\ mu' = 0
    /\ req' = [req EXCEPT
          ![n].pc = IF Route(n) \in Single /\ Current(n).mtype = "counter" THEN "readback" ELSE "run",
          ![n].next = @ + 1]
    /\ UNCHANGED <<audit, exited>>

(* Mutant of StopAtInvalid: an invalid metric is left out of the batch. *)
SkipInvalid(n) ==
    /\ Updating(n)
    /\ ~AllApplied(n) /\ ~Valid(Current(n))
    /\ req' = [req EXCEPT ![n].next = @ + 1]
    /\ UNCHANGED <<store, mu, audit, exited>>

(* Mutant of StopAtInvalid: the batch is audited although it is refused. *)
AuditInvalid(n) ==
    /\ Updating(n)
    /\ ~AllApplied(n) /\ ~Valid(Current(n))
    /\ Answer(n, IF Route(n) = "UpdateMetrics" THEN "internal" ELSE "bad request", Missing)
    /\ pending' = pending \cup (Observer \X {n})
    /\ UNCHANGED <<store, mu, log, failed, exited>>

(* UpdateBatch ends at the first invalid metric; those before it stay. *)
StopAtInvalid(n) ==
    /\ Updating(n)
    /\ ~AllApplied(n) /\ ~Valid(Current(n))
    /\ Answer(n, IF Route(n) = "UpdateMetrics" THEN "internal" ELSE "bad request", Missing)
    /\ UNCHANGED <<store, mu, audit, exited>>

(* Mutant of ReadBack: the answer is the counter as it was loaded. *)
ReplyLoaded(n) ==
    /\ req[n].pc = "readback"
    /\ req' = [req EXCEPT ![n].pc = "run",
                          ![n].reply = IF req[n].old = Missing THEN 0 ELSE req[n].old]
    /\ UNCHANGED <<store, mu, audit, exited>>

(* UpdateCounter of the service reads the counter it has increased. *)
ReadBack(n) ==
    /\ req[n].pc = "readback"
    /\ mu = 0
    /\ req' = [req EXCEPT ![n].pc = "run", ![n].reply = store.counters[Items(n)[1].id]]
    /\ UNCHANGED <<store, mu, audit, exited>>

Audited(n) == Route(n) # "UpdateMetrics" /\ Items(n) # <<>>

(* Mutant of Finish: only single updates are audited. *)
FinishSilent(n) ==
    /\ Updating(n)
    /\ AllApplied(n)
    /\ Answer(n, "ok", req[n].reply)
    /\ pending' = IF Route(n) \in Single THEN pending \cup (Observer \X {n}) ELSE pending
    /\ UNCHANGED <<store, mu, log, failed, exited>>

(* Everything is applied: Notify, unless gRPC or nothing was sent; then OK.*)
Finish(n) ==
    /\ Updating(n)
    /\ AllApplied(n)
    /\ Answer(n, "ok", IF Route(n) \in Batch THEN Missing
                       ELSE IF Items(n)[1].mtype = "gauge" THEN Items(n)[1].value
                       ELSE req[n].reply)
    /\ pending' = IF Audited(n) THEN pending \cup (Observer \X {n}) ELSE pending
    /\ UNCHANGED <<store, mu, log, failed, exited>>

-----------------------------------------------------------------------------
(* Reads.                                                                  *)

GetMetricValue(n) ==
    /\ req[n].pc = "run"
    /\ Route(n) \in {"GetMetricValue", "GetMetricValueJSON"} /\ ~Refused(req[n].in)
    /\ mu = 0
    /\ LET q == Items(n)[1]
           v == IF q.mtype = "gauge" THEN store.gauges[q.id] ELSE store.counters[q.id]
       IN  IF v = Missing THEN Answer(n, "not found", Missing)
           \* the encoder's error is ignored: an empty body
           ELSE IF Route(n) = "GetMetricValueJSON" /\ q.mtype = "gauge" /\ v \in NonFinite
                THEN Answer(n, "ok", Missing)
           ELSE Answer(n, "ok", v)
    /\ UNCHANGED <<store, mu, audit, exited>>

ListAllMetricsHTML(n) ==
    /\ req[n].pc = "run"
    /\ Route(n) = "ListAllMetricsHTML"
    /\ mu = 0
    /\ Answer(n, "ok", GetAllMetrics(store))
    /\ UNCHANGED <<store, mu, audit, exited>>

-----------------------------------------------------------------------------
(* The goroutines of Notify.  An observer that fails logs the error; an    *)
(* HTTP observer may have received the event all the same.                 *)

Receive(o, n) == log' = [log EXCEPT ![o] = Append(@, n)]

Deliver(o, n) ==
    /\ <<o, n>> \in pending
    /\ pending' = pending \ {<<o, n>>}
    /\ Receive(o, n)
    /\ UNCHANGED <<store, mu, req, failed, exited>>

DeliverFails(o, n) ==
    /\ <<o, n>> \in pending
    /\ pending' = pending \ {<<o, n>>}
    /\ failed' = failed \cup {<<o, n>>}
    /\ Receive(o, n) \/ UNCHANGED log
    /\ UNCHANGED <<store, mu, req, exited>>

(* The servers have drained their requests; nobody waits for deliveries.   *)
Exit ==
    /\ ~exited
    /\ Arrived = Done
    /\ exited' = TRUE
    /\ pending' = {}
    /\ UNCHANGED <<store, mu, req, log, failed>>

-----------------------------------------------------------------------------
Handle(n) ==
    \/ Refuse(n)
    \/ Lock(n) \/ Apply(n) \/ StopAtInvalid(n) \/ ReadBack(n) \/ Finish(n)
    \/ GetMetricValue(n) \/ ListAllMetricsHTML(n)

Next ==
    \/ \E n \in Number : Arrive(n) \/ Handle(n)
    \/ \E o \in Observer, n \in Number : Deliver(o, n) \/ DeliverFails(o, n)
    \/ Exit

(* Goroutines run; the requests are finitely many, so nobody waits for the *)
(* mutex for ever.                                                         *)
Fairness ==
    /\ \A n \in Number : WF_vars(Handle(n))
    /\ \A o \in Observer, n \in Number : WF_vars(Deliver(o, n) \/ DeliverFails(o, n))

Spec     == Init /\ [][Next]_vars
FairSpec == Spec /\ Fairness

-----------------------------------------------------------------------------
(* The increments of counter i that request n, or the requests of R, have  *)
(* applied, as pairs of a request and the position of the item; and the    *)
(* sum of some of them.                                                    *)
Applied(n, i) ==
    {n} \X {k \in 1 .. (req[n].next - 1) :
               Items(n)[k].mtype = "counter" /\ Items(n)[k].id = i}
Increments(R, i) == UNION {Applied(n, i) : n \in R}
SumOf(S) == MapThenSumSet(LAMBDA x : Items(x[1])[x[2]].delta, S)

(* No increment is lost or counted twice, whatever updates of the same     *)
(* counter overlap, and one that an error stops halfway keeps those of its *)
(* increments that came before it: a counter is the sum, in two's          *)
(* complement, of all that were applied.                                   *)
CounterIsSum ==
    \A i \in Id :
       store.counters[i] = IF Increments(Number, i) = {} THEN Missing
                           ELSE Wrap(SumOf(Increments(Number, i)))

(* The request asked for counter i, by its update or a read, and was told; *)
(* or it was told them all.                                                *)
Sees(n, i) ==
    /\ Route(n) \in {"UpdateMetricJSON", "GetMetricValue", "GetMetricValueJSON"}
    /\ req[n].status = "ok" /\ Items(n)[1].mtype = "counter" /\ Items(n)[1].id = i

SeesAll(n) == Route(n) = "ListAllMetricsHTML" /\ req[n].status = "ok"

(* A client is answered with what the counter was after some increments,   *)
(* its own and those of every request answered before it sent this one     *)
(* among them, and none that was never applied: the read that follows the  *)
(* update in the service is not atomic with it, but it is never behind.  A *)
(* list answers so for each counter it has, and has every counter that was *)
(* increased by a request answered before, whatever gauges share its name. *)
Fresh(n, i, v) ==
    \E S \in SUBSET Increments(Number, i) :
       /\ S # {}
       /\ Increments(req[n].before \cup {n}, i) \subseteq S
       /\ v = Wrap(SumOf(S))

(* The entries of a list for counter i. *)
Entries(n, i) == {e \in req[n].reply : e.mtype = "counter" /\ e.id = i}

CounterReplyIsFresh ==
    \A i \in Id : \A n \in Done :
       /\ Sees(n, i) => Fresh(n, i, req[n].reply)
       /\ SeesAll(n) =>
             /\ \A e \in Entries(n, i) : Fresh(n, i, e.delta)
             /\ Increments(req[n].before, i) # {} => Entries(n, i) # {}

(* An update answered with OK has been applied in full; one that its route *)
(* refuses, not at all; and one that is refused halfway has been applied   *)
(* up to its first invalid metric, neither less nor more.                  *)
OkMeansApplied ==
    \A n \in Done : Route(n) \notin Get =>
       \/ /\ req[n].status = "ok" /\ ~Refused(req[n].in)
          /\ AllApplied(n) /\ \A k \in DOMAIN Items(n) : Valid(Items(n)[k])
       \/ req[n].status # "ok" /\ Refused(req[n].in) /\ req[n].next = 1
       \/ /\ req[n].status # "ok" /\ ~Refused(req[n].in)
          /\ ~AllApplied(n) /\ ~Valid(Current(n))
          /\ \A k \in 1 .. req[n].next - 1 : Valid(Items(n)[k])

(* An observer receives an event at most once, and only of an update, over *)
(* HTTP, that was answered with OK and applied in full.                    *)
AuditIsTrue ==
    \A o \in Observer : \A j, k \in DOMAIN log[o] :
       LET n == log[o][j]
       IN  /\ Route(n) \notin Get \cup {"UpdateMetrics"} /\ Items(n) # <<>>
           /\ req[n].status = "ok" /\ AllApplied(n)
           /\ n = log[o][k] => j = k

(* An accepted HTTP update reaches every observer, unless the delivery     *)
(* fails or the process exits first.                                       *)
AcceptedIsAudited ==
    \A n \in Number : \A o \in Observer :
       (req[n].pc = "done" /\ req[n].status = "ok" /\ Route(n) \notin Get /\ Audited(n))
         ~> \/ \E k \in DOMAIN log[o] : log[o][k] = n
            \/ <<o, n>> \in failed
            \/ exited
=============================================================================
