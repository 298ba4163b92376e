-------------------------- MODULE MCMetricsServer --------------------------
(* Values for the constants of MetricsServer in TLC's runs. *)
EXTENDS MetricsServer

CONSTANTS a, fin, nan, file

Inp(route, items) == [route |-> route, items |-> items]
Named(item, id)   == [item EXCEPT !.id = id]
Unknown           == [Count(a, 1) EXCEPT !.mtype = "unknown"]

(* Both kinds under one name; batches that are valid, stop at an invalid   *)
(* metric, are empty or do not decode; a gauge with no JSON form; counters *)
(* that wrap around.                                                       *)
MCInput ==
    {Inp("UpdateMetric", <<Gauge(a, nan)>>),
     Inp("UpdateMetricJSON", <<Count(a, 3)>>),
     Inp("UpdateBatchJSON", <<Count(a, 1), Gauge(a, fin)>>),
     Inp("UpdateBatchJSON", <<Count(a, 1), Count(a, Missing)>>),
     Inp("UpdateBatchJSON", <<>>),
     Inp("UpdateMetrics", <<Count(a, 1), Named(Count(a, 1), NoId)>>),
     Inp("UpdateMetrics", <<Count(a, 1), Unknown>>),
     Inp("GetMetricValueJSON", <<Gauge(a, Missing)>>),
     Inp("GetMetricValue", <<Count(a, Missing)>>),
     Inp("ListAllMetricsHTML", <<Unknown>>)}
=============================================================================
