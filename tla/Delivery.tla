------------------------------ MODULE Delivery ------------------------------
(***************************************************************************)
(* The delivery of reports: from the collector's snapshots, through the    *)
(* senders of the agent (internal/agent/client.go, grpc_client.go) and a   *)
(* network that loses and delays, to the handlers that apply them          *)
(* (internal/handler, internal/grpcserver, internal/service).              *)
(*                                                                         *)
(* SendBatch over HTTP makes Retries + 1 attempts, each with a timeout;    *)
(* over gRPC it makes one (Retries = 0).  A timeout ends the wait of the   *)
(* client and nothing else: the attempt may be on its way, or the handler, *)
(* which looks at no context, may be busy with it, and both go on.  The    *)
(* module Agent has the queue between the dispatcher and the senders in    *)
(* detail; here a report that waits in it is "taken".                      *)
(*                                                                         *)
(* A report is a gauge and the counter PollCount, which is cumulative: the *)
(* number of polls so far stands for both values.                          *)
(***************************************************************************)
EXTENDS Integers, FiniteSets, FiniteSetsExt

CONSTANTS
    Retries,     \* len(retrySchedule)
    Senders,     \* how many goroutines send reports, Shutdown's not counted
    MaxPolls,    \* bound on the polls
    MaxReports   \* bound on the reports

ASSUME DeliveryAssumption ==
    Retries \in Nat /\ Senders \in Nat \ {0} /\ MaxPolls \in Nat /\ MaxReports \in Nat

VARIABLES
    PollCount,  \* metricsCollector.PollCount
    report,     \* the reports: see NotTaken
    final,      \* the report Shutdown has taken, or 0
    attempt,    \* what has become of attempt k to send report n
    gauge,      \* the server's gauge: the report it comes from, or 0
    counter     \* the server's counter PollCount

vars == <<PollCount, report, final, attempt, gauge, counter>>

Report  == 1 .. MaxReports
Attempt == 1 .. Retries + 1
Half    == {"gauge", "counter"}

(* value: PollCount at the snapshot; first: the metric that comes first in *)
(* the batch, which has the order of a map; tries: the attempts made.      *)
(* History: before, the reports acknowledged when its SendBatch began.     *)
NotTaken == [pc |-> "none", value |-> 0, first |-> "gauge", tries |-> 0, before |-> {}]

TypeOK ==
    /\ PollCount \in 0 .. MaxPolls
    /\ report \in [Report -> [pc     : {"none", "taken", "waiting", "backoff", "acked", "failed"},
                              value  : 0 .. MaxPolls,
                              first  : Half,
                              tries  : 0 .. Retries + 1,
                              before : SUBSET Report]]
    /\ final \in Report \cup {0}
    /\ attempt \in [Report -> [Attempt -> {"none", "transit", "half", "applied", "refused",
                                           "lost"}]]
    /\ gauge \in Report \cup {0}
    /\ counter \in Nat

Init ==
    /\ PollCount = 0
    /\ report = [n \in Report |-> NotTaken]
    /\ final = 0
    /\ attempt = [n \in Report |-> [k \in Attempt |-> "none"]]
    /\ gauge = 0
    /\ counter = 0

-----------------------------------------------------------------------------
(* The agent.                                                              *)

Taken == {n \in Report : report[n].pc # "none"}
Acked == {n \in Report : report[n].pc = "acked"}
InSendBatch(n) == report[n].pc \in {"waiting", "backoff"}

CollectMetrics ==
    /\ PollCount < MaxPolls
    /\ PollCount' = PollCount + 1
    /\ UNCHANGED <<report, final, attempt, gauge, counter>>

(* The dispatcher, or at the end Shutdown, takes a snapshot. *)
Snapshot(n, last) ==
    /\ PollCount > 0
    /\ final = 0
    /\ n = Cardinality(Taken) + 1
    /\ \E h \in Half : report' = [report EXCEPT ![n].pc = "taken", ![n].first = h,
                                                ![n].value = PollCount]
    /\ final' = IF last THEN n ELSE 0
    /\ UNCHANGED <<PollCount, attempt, gauge, counter>>

StartAttempt(n) ==
    /\ report' = [report EXCEPT ![n].pc = "waiting", ![n].tries = @ + 1,
                                ![n].before = IF report[n].tries = 0 THEN Acked ELSE @]
    /\ attempt' = [attempt EXCEPT ![n][report[n].tries + 1] = "transit"]
    /\ UNCHANGED <<PollCount, final, gauge, counter>>

(* SendBatch begins.  The senders take the reports in order; Shutdown      *)
(* sends its own at once, past those in the queue.                         *)
SendBatch(n) ==
    /\ report[n].pc = "taken"
    /\ \/ n = final
       \/ /\ \A m \in 1 .. n - 1 : report[m].pc # "taken"
          /\ Cardinality({m \in Report \ {final} : InSendBatch(m)}) < Senders
    /\ StartAttempt(n)

(* The timer of the retry schedule has fired. *)
Retry(n) ==
    /\ report[n].pc = "backoff"
    /\ StartAttempt(n)

Becomes(n, pc) ==
    /\ report' = [report EXCEPT ![n].pc = pc]
    /\ UNCHANGED <<PollCount, final, attempt, gauge, counter>>

Last(n) == attempt[n][report[n].tries]

(* Mutant of Answered: the status is not looked at. *)
AnsweredAny(n) ==
    /\ report[n].pc = "waiting"
    /\ Last(n) \in {"applied", "refused"}
    /\ Becomes(n, "acked")

(* The answer is 200, or one that shouldRetryHTTP does not retry. *)
Answered(n) ==
    /\ report[n].pc = "waiting"
    /\ \/ Last(n) = "applied" /\ Becomes(n, "acked")
       \/ Last(n) = "refused" /\ Becomes(n, "failed")

(* Mutant of AttemptFails: a client with no timeout. *)
AttemptFailsIfLost(n) ==
    /\ report[n].pc = "waiting"
    /\ Last(n) = "lost"
    /\ Becomes(n, IF report[n].tries <= Retries THEN "backoff" ELSE "failed")

(* Mutant of AttemptFails: one attempt too many. *)
AttemptFailsOneMore(n) ==
    /\ report[n].pc = "waiting"
    /\ Becomes(n, IF report[n].tries <= Retries + 1 THEN "backoff" ELSE "failed")

(* An error, a timeout, a lost answer, a status of 500 or more. *)
AttemptFails(n) ==
    /\ report[n].pc = "waiting"
    /\ Becomes(n, IF report[n].tries <= Retries THEN "backoff" ELSE "failed")

-----------------------------------------------------------------------------
(* The network and the server.                                             *)

(* The request is lost, or answered with a 5xx in front of the handler. *)
Lose(n, k) ==
    /\ attempt[n][k] = "transit"
    /\ attempt' = [attempt EXCEPT ![n][k] = "lost"]
    /\ UNCHANGED <<PollCount, report, final, gauge, counter>>

(* An answer below 500: the trusted subnet, the hash or the key is wrong.  *)
Refuse(n, k) ==
    /\ attempt[n][k] = "transit"
    /\ attempt' = [attempt EXCEPT ![n][k] = "refused"]
    /\ UNCHANGED <<PollCount, report, final, gauge, counter>>

Apply(n, half) ==
    /\ gauge' = IF half = "gauge" THEN n ELSE gauge
    /\ counter' = IF half = "counter" THEN counter + report[n].value ELSE counter
    /\ UNCHANGED <<PollCount, report, final>>

(* Mutant of UpdateBatch: 200 is written before the batch is applied. *)
UpdateBatchAfterReply(n, k) ==
    \/ /\ attempt[n][k] = "transit"
       /\ attempt' = [attempt EXCEPT ![n][k] = "applied"]
       /\ Apply(n, report[n].first)
    \/ /\ attempt[n][k] = "applied"
       /\ attempt' = [attempt EXCEPT ![n][k] = "half"]
       /\ Apply(n, CHOOSE h \in Half : h # report[n].first)

(* UpdateBatch of the service: one metric, then the other. *)
UpdateBatch(n, k) ==
    \/ /\ attempt[n][k] = "transit"
       /\ attempt' = [attempt EXCEPT ![n][k] = "half"]
       /\ Apply(n, report[n].first)
    \/ /\ attempt[n][k] = "half"
       /\ attempt' = [attempt EXCEPT ![n][k] = "applied"]
       /\ Apply(n, CHOOSE h \in Half : h # report[n].first)

-----------------------------------------------------------------------------
Dispatch(n) == Snapshot(n, FALSE)
Shutdown(n) == Snapshot(n, TRUE)

Next ==
    \/ CollectMetrics
    \/ \E n \in Report :
          \/ Dispatch(n) \/ Shutdown(n)
          \/ SendBatch(n) \/ Retry(n) \/ Answered(n) \/ AttemptFails(n)
    \/ \E n \in Report, k \in Attempt : Lose(n, k) \/ Refuse(n, k) \/ UpdateBatch(n, k)

(* Timers fire.  Nothing is assumed of the network or the server. *)
Fairness == \A n \in Report : WF_vars(Retry(n)) /\ WF_vars(AttemptFails(n))

Spec     == Init /\ [][Next]_vars
FairSpec == Spec /\ Fairness

-----------------------------------------------------------------------------
(* The counter holds every acknowledged report at least once, and each     *)
(* report at most as often as the retry schedule allows: a report is never *)
(* acknowledged on the strength of a refusal or of half a batch, and an    *)
(* attempt whose answer is lost is never more than one too many.           *)
CounterInBounds ==
    /\ MapThenSumSet(LAMBDA n : report[n].value, Acked) <= counter
    /\ counter <= MapThenSumSet(LAMBDA n : report[n].tries * report[n].value, Taken)

(* SendBatch of report n was over, with one attempt, before report m's     *)
(* SendBatch began: n cannot overtake m, so once m is acknowledged the     *)
(* server's gauge is not n's.  Retries lose this: a timed out attempt may  *)
(* be applied after anything.  Nor does it hold for reports whose sending  *)
(* overlaps: several senders, or Shutdown and a sender.                    *)
NoOvertaking ==
    \A m \in Acked : \A n \in report[m].before :
       report[n].tries = 1 => gauge # n

(* SendBatch returns, whatever the network and the server do. *)
SendBatchReturns == \A n \in Report : InSendBatch(n) ~> ~InSendBatch(n)
=============================================================================
