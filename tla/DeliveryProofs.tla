--------------------------- MODULE DeliveryProofs ---------------------------
(***************************************************************************)
(* Theorems about Delivery, for any number of retries, senders, polls and  *)
(* reports.                                                                *)
(***************************************************************************)
EXTENDS Delivery, FoldProofs, FiniteSetTheorems, TLAPS

(* What the place of a report says of its attempts: none before SendBatch, *)
(* one more may be made in the backoff, and an acknowledged report is one  *)
(* whose last attempt has been applied.                                    *)
TriesInv ==
    \A n \in Report :
       /\ report[n].pc \in {"none", "taken"} => report[n].tries = 0
       /\ report[n].pc \in {"waiting", "acked", "failed"} => report[n].tries \in Attempt
       /\ report[n].pc = "backoff" => report[n].tries \in 1 .. Retries
       /\ \A k \in Attempt : k > report[n].tries => attempt[n][k] = "none"
       /\ report[n].pc = "acked" => attempt[n][report[n].tries] = "applied"

(* The reports that were acknowledged when another's SendBatch began. *)
BeforeInv ==
    \A m \in Report : \A n \in report[m].before : n # m /\ report[n].pc = "acked"

(* Attempt k of report m has written the gauge. *)
Wrote(m, k) ==
    \/ attempt[m][k] = "applied"
    \/ attempt[m][k] = "half" /\ report[m].first = "gauge"

(* While the gauge is still that of a report sent in one attempt, no       *)
(* attempt of a report sent after it has written the gauge.                *)
GaugeInv ==
    \A m \in Report : \A n \in report[m].before :
       report[n].tries = 1 /\ gauge = n => \A k \in Attempt : ~Wrote(m, k)

(* The reports are taken in order: the next one has not been taken. *)
TakenInv == \E c \in Nat : Taken = 1 .. c

DInv == TypeOK /\ TakenInv /\ TriesInv /\ BeforeInv /\ GaugeInv

-----------------------------------------------------------------------------
(* Types.                                                                  *)

ReportState == [pc     : {"none", "taken", "waiting", "backoff", "acked", "failed"},
                value  : 0 .. MaxPolls,
                first  : Half,
                tries  : 0 .. Retries + 1,
                before : SUBSET Report]

AttemptState == {"none", "transit", "half", "applied", "refused", "lost"}

(* One attempt changes. *)
LEMMA AttemptType ==
    ASSUME TypeOK, NEW n \in Report, NEW k \in Attempt, NEW a \in AttemptState,
           attempt' = [attempt EXCEPT ![n][k] = a]
    PROVE  attempt' \in [Report -> [Attempt -> AttemptState]]
<1>1. attempt \in [Report -> [Attempt -> AttemptState]]
  BY DEF TypeOK, AttemptState
<1>2. attempt[n] \in [Attempt -> AttemptState]
  BY <1>1
<1>3. [attempt[n] EXCEPT ![k] = a] \in [Attempt -> AttemptState]
  BY <1>2
<1>4. QED
  BY <1>1, <1>3

(* An attempt begins only where one is left, so tries stays in its range.  *)
LEMMA StartAttemptType ==
    ASSUME TypeOK, TriesInv, NEW n \in Report, report[n].pc \in {"taken", "backoff"},
           StartAttempt(n)
    PROVE  TypeOK'
<1>1. report[n].tries \in 0 .. Retries /\ report[n].tries + 1 \in Attempt
  BY DeliveryAssumption DEF TriesInv, Attempt
<1>2. report' \in [Report -> ReportState]
  <2> DEFINE b == IF report[n].tries = 0 THEN Acked ELSE report[n].before
             r == [report[n] EXCEPT !.pc = "waiting", !.tries = @ + 1, !.before = b]
  <2>1. report[n] \in ReportState
    BY DEF TypeOK, ReportState
  <2>2. b \in SUBSET Report
    <3>1. Acked \subseteq Report
      BY DEF Acked
    <3>2. QED
      BY <2>1, <3>1 DEF ReportState
  <2>3. r \in ReportState
    <3> HIDE DEF b
    <3>1. report[n].tries + 1 \in 0 .. Retries + 1
      BY <1>1, DeliveryAssumption DEF Attempt
    <3> HIDE DEF ReportState
    <3>2. \A q \in ReportState, t \in 0 .. Retries + 1, c \in SUBSET Report :
             [q EXCEPT !.pc = "waiting", !.tries = t, !.before = c] \in ReportState
      BY DEF ReportState
    <3>3. QED
      BY <2>1, <2>2, <3>1, <3>2
  <2>4. report' = [report EXCEPT ![n] = r]
    BY DEF StartAttempt
  <2>5. QED
    <3> HIDE DEF r
    <3>1. QED
      BY <2>3, <2>4 DEF TypeOK, ReportState
<1>3. attempt' \in [Report -> [Attempt -> AttemptState]]
  BY <1>1, AttemptType DEF StartAttempt, AttemptState
<1>4. QED
  BY <1>2, <1>3 DEF TypeOK, ReportState, AttemptState, StartAttempt

(* A change of a report's pc alone. *)
LEMMA BecomesType ==
    ASSUME TypeOK, NEW n \in Report,
           NEW pc \in {"none", "taken", "waiting", "backoff", "acked", "failed"},
           Becomes(n, pc)
    PROVE  TypeOK'
<1>1. report \in [Report -> ReportState]
  BY DEF TypeOK, ReportState
<1>2. [report[n] EXCEPT !.pc = pc] \in ReportState
  BY <1>1 DEF ReportState
<1>3. report' \in [Report -> ReportState]
  BY <1>1, <1>2 DEF Becomes
<1>4. QED
  BY <1>3 DEF TypeOK, Becomes, ReportState

(* A metric of a report is applied. *)
LEMMA ApplyType ==
    ASSUME TypeOK, NEW n \in Report, NEW h \in Half, Apply(n, h)
    PROVE  gauge' \in Report \cup {0} /\ counter' \in Nat
<1>1. report[n].value \in Nat
  BY DeliveryAssumption DEF TypeOK
<1>2. QED
  BY <1>1 DEF TypeOK, Apply, Half

(* The other metric of the batch. *)
LEMMA OtherHalf ==
    ASSUME NEW h \in Half
    PROVE  /\ (CHOOSE g \in Half : g # h) \in Half
           /\ (CHOOSE g \in Half : g # h) # h
<1>1. \E g \in Half : g # h
  BY DEF Half
<1>2. QED
  BY <1>1

(* A batch of the handler is a metric at a time. *)
LEMMA UpdateBatchType ==
    ASSUME TypeOK, NEW n \in Report, NEW k \in Attempt, UpdateBatch(n, k)
    PROVE  TypeOK'
<1>1. report[n].first \in Half /\ (CHOOSE h \in Half : h # report[n].first) \in Half
  BY OtherHalf DEF TypeOK
<1>2. \E h \in Half : Apply(n, h)
  BY <1>1 DEF UpdateBatch
<1>3. gauge' \in Report \cup {0} /\ counter' \in Nat
  BY <1>2, ApplyType DEF TypeOK
<1>4. UNCHANGED <<PollCount, report, final>>
  BY <1>2 DEF Apply
<1>5. attempt' \in [Report -> [Attempt -> AttemptState]]
  BY AttemptType DEF UpdateBatch, AttemptState
<1>6. QED
  BY <1>3, <1>4, <1>5 DEF TypeOK, AttemptState

(* Every step keeps the types. *)
LEMMA TypeStep ==
    ASSUME TypeOK, TriesInv, [Next]_vars
    PROVE  TypeOK'
<1>1. CASE CollectMetrics
  BY <1>1, DeliveryAssumption DEF CollectMetrics, TypeOK
<1>2. ASSUME NEW n \in Report, NEW last \in BOOLEAN, Snapshot(n, last)
      PROVE  TypeOK'
  <2>1. \A q \in ReportState, h \in Half :
           [q EXCEPT !.pc = "taken", !.first = h, !.value = PollCount] \in ReportState
    <3>1. \A q \in ReportState, h \in Half, v \in 0 .. MaxPolls :
             [q EXCEPT !.pc = "taken", !.first = h, !.value = v] \in ReportState
      BY DEF ReportState
    <3>2. QED
      BY <3>1 DEF TypeOK
  <2>2. PICK h \in Half :
           report' = [report EXCEPT ![n].pc = "taken", ![n].first = h, ![n].value = PollCount]
    BY <1>2 DEF Snapshot
  <2>3. report \in [Report -> ReportState]
    BY DEF TypeOK, ReportState
  <2>4. report' \in [Report -> ReportState]
    <3> DEFINE r == [report[n] EXCEPT !.pc = "taken", !.first = h, !.value = PollCount]
    <3>1. r \in ReportState
      BY <2>1, <2>3
    <3>2. report' = [report EXCEPT ![n] = r]
      BY <2>2, <2>3
    <3> HIDE DEF r
    <3>3. QED
      BY <2>3, <3>1, <3>2
  <2>5. final' \in Report \cup {0}
    BY <1>2 DEF Snapshot
  <2>6. QED
    BY <1>2, <2>4, <2>5 DEF Snapshot, TypeOK, ReportState
<1>3. CASE \E n \in Report : SendBatch(n) \/ Retry(n)
  BY <1>3, StartAttemptType DEF SendBatch, Retry
<1>4. CASE \E n \in Report : Answered(n) \/ AttemptFails(n)
  BY <1>4, BecomesType DEF Answered, AttemptFails
<1>5. CASE \E n \in Report, k \in Attempt : Lose(n, k) \/ Refuse(n, k)
  <2>1. attempt' \in [Report -> [Attempt -> AttemptState]]
    BY <1>5, AttemptType DEF Lose, Refuse, AttemptState
  <2>2. QED
    BY <1>5, <2>1 DEF Lose, Refuse, TypeOK, AttemptState
<1>6. CASE \E n \in Report, k \in Attempt : UpdateBatch(n, k)
  BY <1>6, UpdateBatchType
<1>7. CASE UNCHANGED vars
  BY <1>7 DEF vars, TypeOK
<1>8. QED
  BY <1>1, <1>2, <1>3, <1>4, <1>5, <1>6, <1>7 DEF Next, Dispatch, Shutdown

-----------------------------------------------------------------------------
(* What the steps change.                                                  *)

(* A report that is taken was not taken before, and has made no attempt. *)
LEMMA SnapshotEffect ==
    ASSUME TypeOK, TakenInv, NEW n \in Report, NEW last \in BOOLEAN, Snapshot(n, last)
    PROVE  /\ report[n].pc = "none" /\ report'[n].pc = "taken"
           /\ TakenInv'
           /\ \A m \in Report : /\ m # n => report'[m] = report[m]
                                /\ report'[m].tries = report[m].tries
                                /\ report'[m].before = report[m].before
           /\ UNCHANGED <<attempt, gauge>>
<1>1. PICK c \in Nat : Taken = 1 .. c
  BY DEF TakenInv
<1>2. n = c + 1
  BY <1>1, FS_Interval DEF Snapshot
<1>3. report[n].pc = "none"
  BY <1>1, <1>2 DEF Taken
<1>4. PICK h \in Half :
         report' = [report EXCEPT ![n].pc = "taken", ![n].first = h, ![n].value = PollCount]
  BY DEF Snapshot
<1>5. /\ report'[n].pc = "taken"
      /\ \A m \in Report : /\ m # n => report'[m] = report[m]
                           /\ report'[m].tries = report[m].tries
                           /\ report'[m].before = report[m].before
  BY <1>4 DEF TypeOK
<1>6. Taken' = Taken \cup {n}
  BY <1>5 DEF Taken
<1>7. TakenInv'
  <2>1. Taken' = 1 .. c + 1
    BY <1>1, <1>2, <1>6
  <2>2. QED
    BY <2>1 DEF TakenInv
<1>8. QED
  BY <1>3, <1>5, <1>7 DEF Snapshot

(* An attempt that begins is the next one of its report. *)
LEMMA StartAttemptEffect ==
    ASSUME TypeOK, TriesInv, NEW n \in Report, report[n].pc \in {"taken", "backoff"},
           StartAttempt(n)
    PROVE  /\ report[n].tries + 1 \in Attempt
           /\ report'[n].pc = "waiting"
           /\ report'[n].tries = report[n].tries + 1
           /\ report'[n].before = IF report[n].tries = 0 THEN Acked ELSE report[n].before
           /\ report'[n].first = report[n].first
           /\ attempt'[n][report[n].tries + 1] = "transit"
           /\ \A m \in Report \ {n} : report'[m] = report[m]
           /\ \A m \in Report, k \in Attempt :
                 m # n \/ k # report[n].tries + 1 => attempt'[m][k] = attempt[m][k]
           /\ gauge' = gauge
<1>1. report[n].tries + 1 \in Attempt
  BY DeliveryAssumption DEF TriesInv, Attempt
<1>2. attempt'[n][report[n].tries + 1] = "transit"
  BY <1>1 DEF StartAttempt, TypeOK
<1>3. \A m \in Report, k \in Attempt :
         m # n \/ k # report[n].tries + 1 => attempt'[m][k] = attempt[m][k]
  BY <1>1 DEF StartAttempt, TypeOK
<1>4. QED
  BY <1>1, <1>2, <1>3 DEF StartAttempt, TypeOK

(* The client's view of the answer changes a report's pc and nothing else. *)
LEMMA BecomesEffect ==
    ASSUME TypeOK, NEW n \in Report, NEW pc, Becomes(n, pc)
    PROVE  /\ report'[n].pc = pc
           /\ \A m \in Report \ {n} : report'[m].pc = report[m].pc
           /\ \A m \in Report : /\ report'[m].tries = report[m].tries
                                /\ report'[m].before = report[m].before
                                /\ report'[m].first = report[m].first
           /\ UNCHANGED <<attempt, gauge>>
  BY DEF TypeOK, Becomes

(* Attempt k of report n goes on to a. *)
Moves(n, k, a) == attempt' = [attempt EXCEPT ![n][k] = a]

(* A step on one attempt leaves the others alone. *)
LEMMA AttemptEffect ==
    ASSUME TypeOK, NEW n \in Report, NEW k \in Attempt, NEW a, Moves(n, k, a)
    PROVE  /\ attempt'[n][k] = a
           /\ \A m \in Report, j \in Attempt :
                 m # n \/ j # k => attempt'[m][j] = attempt[m][j]
<1>1. attempt'[n] = [attempt[n] EXCEPT ![k] = a]
  BY DEF TypeOK, Moves
<1>2. \A m \in Report \ {n} : attempt'[m] = attempt[m]
  BY DEF TypeOK, Moves
<1>3. attempt[n] \in [Attempt -> AttemptState]
  BY DEF TypeOK, AttemptState
<1>4. attempt'[n][k] = a /\ \A j \in Attempt \ {k} : attempt'[n][j] = attempt[n][j]
  BY <1>1, <1>3
<1>5. QED
  BY <1>2, <1>4

(* The network and the server change one attempt, which is on its way. *)
ServerStep(n, k) == Lose(n, k) \/ Refuse(n, k) \/ UpdateBatch(n, k)

(* An attempt that writes the gauge makes the gauge its report's. *)
LEMMA ServerEffect ==
    ASSUME TypeOK, NEW n \in Report, NEW k \in Attempt, ServerStep(n, k)
    PROVE  /\ attempt[n][k] \in {"transit", "half"}
           /\ attempt'[n][k] # "none"
           /\ \A m \in Report, j \in Attempt :
                 m # n \/ j # k => attempt'[m][j] = attempt[m][j]
           /\ report' = report
           /\ gauge' \in {gauge, n}
           /\ gauge' # n => (Wrote(n, k)' => Wrote(n, k))
<1>1. report[n].first \in Half /\ (CHOOSE h \in Half : h # report[n].first) \in Half
      /\ (CHOOSE h \in Half : h # report[n].first) # report[n].first
  BY OtherHalf DEF TypeOK
<1>2. CASE Lose(n, k) \/ Refuse(n, k)
  <2>1. Moves(n, k, "lost") \/ Moves(n, k, "refused")
    BY <1>2 DEF Lose, Refuse, Moves
  <2>2. /\ attempt'[n][k] \in {"lost", "refused"}
        /\ \A m \in Report, j \in Attempt : m # n \/ j # k => attempt'[m][j] = attempt[m][j]
    BY <2>1, AttemptEffect
  <2>3. QED
    BY <1>2, <2>2 DEF Lose, Refuse, Wrote
<1>3. CASE UpdateBatch(n, k)
  <2>1. CASE /\ attempt[n][k] = "transit"
             /\ attempt' = [attempt EXCEPT ![n][k] = "half"]
             /\ Apply(n, report[n].first)
    <3>0. Moves(n, k, "half")
      BY <2>1 DEF Moves
    <3>1. /\ attempt'[n][k] = "half"
          /\ \A m \in Report, j \in Attempt :
                m # n \/ j # k => attempt'[m][j] = attempt[m][j]
      BY <3>0, AttemptEffect
    <3>2. report' = report /\ gauge' \in {gauge, n}
      BY <2>1 DEF Apply
    <3>3. (gauge' # n => report[n].first # "gauge") /\ attempt[n][k] = "transit"
      BY <2>1 DEF Apply
    <3>4. gauge' # n => ~Wrote(n, k)'
      BY <3>1, <3>2, <3>3 DEF Wrote
    <3>5. QED
      BY <3>1, <3>2, <3>3, <3>4
  <2>2. CASE /\ attempt[n][k] = "half"
             /\ attempt' = [attempt EXCEPT ![n][k] = "applied"]
             /\ Apply(n, CHOOSE h \in Half : h # report[n].first)
    <3>0. Moves(n, k, "applied")
      BY <2>2 DEF Moves
    <3>1. /\ attempt'[n][k] = "applied"
          /\ \A m \in Report, j \in Attempt :
                m # n \/ j # k => attempt'[m][j] = attempt[m][j]
      BY <3>0, AttemptEffect
    <3>2. gauge' # n => report[n].first = "gauge"
      BY <1>1, <2>2 DEF Apply, Half
    <3>3. report' = report /\ gauge' \in {gauge, n} /\ attempt[n][k] = "half"
      BY <2>2 DEF Apply
    <3>4. gauge' # n => ~Wrote(n, k)' \/ Wrote(n, k)
      BY <3>2, <3>3 DEF Wrote
    <3>5. QED
      BY <3>1, <3>3, <3>4
  <2>3. QED
    BY <1>3, <2>1, <2>2 DEF UpdateBatch
<1>4. QED
  BY <1>2, <1>3 DEF ServerStep
-----------------------------------------------------------------------------
(* The invariant.                                                          *)

(* The initial states. *)
LEMMA InitInv == Init => DInv
<1> SUFFICES ASSUME Init PROVE DInv
  OBVIOUS
<1>1. \A n \in Report : report[n] = NotTaken
  BY DEF Init
<1>2. TypeOK
  <2>1. NotTaken \in ReportState
    BY DeliveryAssumption DEF NotTaken, ReportState, Half
  <2>2. QED
    BY <2>1, DeliveryAssumption DEF Init, TypeOK, ReportState
<1>3. TakenInv
  <2>1. Taken = 1 .. 0
    BY <1>1 DEF Taken, NotTaken
  <2>2. QED
    BY <2>1 DEF TakenInv
<1>4. TriesInv
  BY <1>1 DEF Init, TriesInv, NotTaken
<1>5. BeforeInv /\ GaugeInv
  BY <1>1 DEF BeforeInv, GaugeInv, NotTaken
<1>6. QED
  BY <1>2, <1>3, <1>4, <1>5 DEF DInv

(* Only the dispatcher and Shutdown take reports. *)
LEMMA TakenFrame ==
    ASSUME TakenInv, \A n \in Report : (report'[n].pc = "none") <=> (report[n].pc = "none")
    PROVE  TakenInv'
<1>1. Taken' = Taken
  BY DEF Taken
<1>2. QED
  BY <1>1 DEF TakenInv

(* A snapshot. *)
LEMMA SnapshotInv ==
    ASSUME DInv, NEW n \in Report, NEW last \in BOOLEAN, Snapshot(n, last)
    PROVE  TakenInv' /\ TriesInv' /\ BeforeInv' /\ GaugeInv'
<1>1. /\ report[n].pc = "none" /\ report'[n].pc = "taken"
      /\ TakenInv'
      /\ \A m \in Report : /\ m # n => report'[m] = report[m]
                           /\ report'[m].tries = report[m].tries
                           /\ report'[m].before = report[m].before
      /\ UNCHANGED <<attempt, gauge>>
  BY SnapshotEffect DEF DInv
<1>2. TriesInv'
  BY <1>1 DEF DInv, TriesInv
<1>3. BeforeInv'
  <2>1. \A m \in Report : report[m].before \subseteq Report
    BY DEF DInv, TypeOK
  <2>2. QED
    BY <1>1, <2>1 DEF DInv, BeforeInv
<1>4. GaugeInv'
  <2>1. \A m \in Report : \A k \in Attempt : Wrote(m, k)' => Wrote(m, k)
    BY <1>1 DEF DInv, TriesInv, Wrote, Attempt
  <2>2. \A m \in Report : report[m].before \subseteq Report
    BY DEF DInv, TypeOK
  <2>3. QED
    BY <1>1, <2>1, <2>2 DEF DInv, GaugeInv
<1>5. QED
  BY <1>1, <1>2, <1>3, <1>4

(* SendBatch begins, or makes another attempt. *)
LEMMA StartAttemptInv ==
    ASSUME DInv, NEW n \in Report, report[n].pc \in {"taken", "backoff"}, StartAttempt(n)
    PROVE  TakenInv' /\ TriesInv' /\ BeforeInv' /\ GaugeInv'
<1> DEFINE k0 == report[n].tries + 1
<1>1. /\ k0 \in Attempt
      /\ report'[n].pc = "waiting"
      /\ report'[n].tries = k0
      /\ report'[n].before = IF report[n].tries = 0 THEN Acked ELSE report[n].before
      /\ report'[n].first = report[n].first
      /\ attempt'[n][k0] = "transit"
      /\ \A m \in Report \ {n} : report'[m] = report[m]
      /\ \A m \in Report, k \in Attempt : m # n \/ k # k0 => attempt'[m][k] = attempt[m][k]
      /\ gauge' = gauge
  BY StartAttemptEffect DEF DInv
<1>2. TakenInv'
  BY <1>1, TakenFrame DEF DInv
<1>3. TriesInv'
  <2>1. report[n].tries \in Nat
    BY DEF DInv, TypeOK
  <2>2. \A k \in Attempt : k > k0 => attempt'[n][k] = "none"
    BY <1>1, <2>1 DEF DInv, TriesInv, Attempt
  <2>3. \A m \in Report \ {n}, k \in Attempt : attempt'[m][k] = attempt[m][k]
    BY <1>1
  <2>4. ASSUME NEW m \in Report \ {n}
        PROVE  report'[m] = report[m] /\ (report[m].pc = "acked" => report[m].tries \in Attempt)
    BY <1>1 DEF DInv, TriesInv
  <2>5. QED
    <3> HIDE DEF k0
    <3>1. QED
      BY <1>1, <2>2, <2>3, <2>4 DEF DInv, TriesInv
<1>4. BeforeInv'
  <2>1. \A m \in Report : report[m].before \subseteq Report
    BY DEF DInv, TypeOK
  <2>2. Acked \subseteq Report \ {n} /\ \A m \in Acked : report[m].pc = "acked"
    BY DEF Acked
  <2>3. QED
    BY <1>1, <2>1, <2>2 DEF DInv, BeforeInv
<1>5. GaugeInv'
  <2>1. \A m \in Report, k \in Attempt : Wrote(m, k)' => Wrote(m, k)
    BY <1>1 DEF Wrote
  <2>2. ASSUME NEW m \in Report, NEW j \in report'[m].before,
               report'[j].tries = 1, gauge' = j, NEW k \in Attempt
        PROVE  ~Wrote(m, k)'
    <3>1. j \in Report /\ j # n /\ report[j].pc = "acked" /\ report'[j] = report[j]
      BY <1>1, <1>4 DEF BeforeInv, DInv, TypeOK, Acked
    <3>2. CASE m = n /\ report[n].tries = 0
      <4>1. attempt[n][k] = "none"
        BY <3>2 DEF DInv, TriesInv, Attempt
      <4>2. QED
        BY <2>1, <3>2, <4>1 DEF Wrote
    <3>3. CASE ~(m = n /\ report[n].tries = 0)
      <4>1. j \in report[m].before
        BY <1>1, <3>3
      <4>2. QED
        BY <1>1, <2>1, <2>2, <3>1, <4>1 DEF DInv, GaugeInv
    <3>4. QED
      BY <3>2, <3>3
  <2>3. QED
    BY <2>2 DEF GaugeInv
<1>6. QED
  BY <1>2, <1>3, <1>4, <1>5
(* SendBatch learns an answer, or stops waiting for one. *)
LEMMA BecomesInv ==
    ASSUME DInv, NEW n \in Report, Answered(n) \/ AttemptFails(n)
    PROVE  TakenInv' /\ TriesInv' /\ BeforeInv' /\ GaugeInv'
<1>1. PICK pc : /\ Becomes(n, pc)
                /\ pc \in {"acked", "failed", "backoff"}
                /\ pc = "acked" => attempt[n][report[n].tries] = "applied"
                /\ pc = "backoff" => report[n].tries <= Retries
  BY DEF Answered, AttemptFails, Last
<1>2. /\ report'[n].pc = pc
      /\ \A m \in Report \ {n} : report'[m].pc = report[m].pc
      /\ \A m \in Report : /\ report'[m].tries = report[m].tries
                           /\ report'[m].before = report[m].before
                           /\ report'[m].first = report[m].first
      /\ UNCHANGED <<attempt, gauge>>
  BY <1>1, BecomesEffect DEF DInv
<1>3. report[n].pc = "waiting" /\ report[n].tries \in Attempt
  BY DEF Answered, AttemptFails, DInv, TriesInv
<1>4. TakenInv'
  BY <1>1, <1>2, <1>3, TakenFrame DEF DInv
<1>5. TriesInv'
  <2>1. pc = "backoff" => report[n].tries \in 1 .. Retries
    BY <1>1, <1>3, DeliveryAssumption DEF Attempt
  <2>2. QED
    BY <1>1, <1>2, <1>3, <2>1 DEF DInv, TriesInv
<1>6. BeforeInv'
  <2>1. \A m \in Report : report[m].before \subseteq Report
    BY DEF DInv, TypeOK
  <2>2. \A m \in Report : report[m].pc = "acked" => m # n
    BY <1>3
  <2>3. QED
    BY <1>2, <2>1, <2>2 DEF DInv, BeforeInv
<1>7. GaugeInv'
  <2>1. \A m \in Report, k \in Attempt : Wrote(m, k)' => Wrote(m, k)
    BY <1>2 DEF Wrote
  <2>2. \A m \in Report : report[m].before \subseteq Report
    BY DEF DInv, TypeOK
  <2>3. QED
    BY <1>2, <2>1, <2>2 DEF DInv, GaugeInv
<1>8. QED
  BY <1>4, <1>5, <1>6, <1>7

(* The network or the server does something with an attempt.  It cannot be *)
(* an attempt of a report acknowledged after one attempt: that one is done *)
(* with, and there is no other.                                            *)
LEMMA ServerInv ==
    ASSUME DInv, NEW n \in Report, NEW k0 \in Attempt, ServerStep(n, k0)
    PROVE  TakenInv' /\ TriesInv' /\ BeforeInv' /\ GaugeInv'
<1>1. /\ attempt[n][k0] \in {"transit", "half"}
      /\ attempt'[n][k0] # "none"
      /\ \A m \in Report, j \in Attempt : m # n \/ j # k0 => attempt'[m][j] = attempt[m][j]
      /\ report' = report
      /\ gauge' \in {gauge, n}
      /\ gauge' # n => (Wrote(n, k0)' => Wrote(n, k0))
  BY ServerEffect DEF DInv
<1>2. TakenInv' /\ BeforeInv'
  BY <1>1, TakenFrame DEF DInv, BeforeInv
<1>3. TriesInv'
  <2>1. ~(k0 > report[n].tries)
    BY <1>1 DEF DInv, TriesInv
  <2>2. report[n].pc = "acked" => k0 # report[n].tries
    BY <1>1 DEF DInv, TriesInv
  <2>3. QED
    BY <1>1, <2>1, <2>2 DEF DInv, TriesInv
<1>4. GaugeInv'
  <2> SUFFICES ASSUME NEW m \in Report, NEW j \in report[m].before,
                      report[j].tries = 1, gauge' = j, NEW k \in Attempt
               PROVE  ~Wrote(m, k)'
    BY <1>1 DEF GaugeInv
  <2>1. j \in Report /\ j # m /\ report[j].pc = "acked"
    BY DEF DInv, TypeOK, BeforeInv
  <2>2. j # n
    <3>1. \A i \in Attempt : attempt[j][i] \notin {"transit", "half"}
      BY <2>1 DEF DInv, TriesInv, Attempt
    <3>2. QED
      BY <1>1, <3>1
  <2>3. gauge = j /\ gauge' # n
    BY <1>1, <2>2
  <2>4. ~Wrote(m, k)
    BY <2>3 DEF DInv, GaugeInv
  <2>5. Wrote(m, k)' => Wrote(m, k)
    <3>1. CASE m = n /\ k = k0
      BY <1>1, <2>3, <3>1
    <3>2. CASE m # n \/ k # k0
      BY <1>1, <3>2 DEF Wrote
    <3>3. QED
      BY <3>1, <3>2
  <2>6. QED
    BY <2>4, <2>5
<1>5. QED
  BY <1>2, <1>3, <1>4

(* Every step keeps the invariant. *)
LEMMA StepInv ==
    ASSUME DInv, [Next]_vars
    PROVE  DInv'
<1>1. TypeOK'
  BY TypeStep DEF DInv
<1>2. CASE \E n \in Report : Dispatch(n) \/ Shutdown(n)
  BY <1>1, <1>2, SnapshotInv DEF Dispatch, Shutdown, DInv
<1>3. CASE \E n \in Report : SendBatch(n) \/ Retry(n)
  BY <1>1, <1>3, StartAttemptInv DEF SendBatch, Retry, DInv
<1>4. CASE \E n \in Report : Answered(n) \/ AttemptFails(n)
  BY <1>1, <1>4, BecomesInv DEF DInv
<1>5. CASE \E n \in Report, k \in Attempt : Lose(n, k) \/ Refuse(n, k) \/ UpdateBatch(n, k)
  BY <1>1, <1>5, ServerInv DEF ServerStep, DInv
<1>6. CASE CollectMetrics \/ UNCHANGED vars
  <2>1. UNCHANGED <<report, attempt, gauge>>
    BY <1>6 DEF CollectMetrics, vars
  <2>2. QED
    BY <1>1, <2>1 DEF DInv, TakenInv, Taken, TriesInv, BeforeInv, GaugeInv, Wrote
<1>7. QED
  BY <1>2, <1>3, <1>4, <1>5, <1>6 DEF Next

(* The strengthened invariant gives NoOvertaking: an acknowledged report   *)
(* has an attempt that wrote the gauge.                                    *)
LEMMA InvNoOvertaking == DInv => NoOvertaking
<1> SUFFICES ASSUME DInv, NEW m \in Acked, NEW n \in report[m].before,
                    report[n].tries = 1, gauge = n
             PROVE  FALSE
  BY DEF NoOvertaking
<1>1. m \in Report /\ report[m].pc = "acked"
  BY DEF Acked
<1>2. report[m].tries \in Attempt /\ Wrote(m, report[m].tries)
  BY <1>1 DEF DInv, TriesInv, Wrote
<1>3. QED
  BY <1>1, <1>2 DEF DInv, GaugeInv

-----------------------------------------------------------------------------
(* The counter.                                                            *)

(* Attempt k of report n has increased the counter. *)
Counted(n, k) ==
    \/ attempt[n][k] = "applied"
    \/ attempt[n][k] = "half" /\ report[n].first = "counter"

(* How many attempts of report n have, what it therefore adds to the       *)
(* counter, and that the counter is the sum of that.                       *)
Times(n) == Cardinality({k \in Attempt : Counted(n, k)})

Held == [n \in Report |-> Times(n) * report[n].value]

CounterInv == counter = SumOver(Held, Report)

(* There are finitely many reports and attempts. *)
LEMMA AttemptFinite == IsFiniteSet(Attempt) /\ IsFiniteSet(Report)
  BY FS_Interval, DeliveryAssumption DEF Attempt, Report

(* The terms of the sum are natural numbers. *)
LEMMA TimesType ==
    ASSUME TypeOK, NEW n \in Report
    PROVE  /\ Times(n) \in Nat
           /\ Held[n] = Times(n) * report[n].value
           /\ Held[n] \in Nat
           /\ report[n].value \in Nat /\ report[n].tries \in Nat
<1>1. Times(n) \in Nat
  <2> DEFINE K == {k \in Attempt : Counted(n, k)}
  <2>1. IsFiniteSet(K)
    BY AttemptFinite, FS_Subset
  <2> HIDE DEF K
  <2>2. Cardinality(K) \in Nat
    BY <2>1, FS_CardinalityType
  <2> QED
    BY <2>2 DEF Times, K
<1>2. report[n].value \in Nat /\ report[n].tries \in Nat
  BY DeliveryAssumption DEF TypeOK
<1>3. \A a, b \in Nat : a * b \in Nat
  OBVIOUS
<1> QED
  BY <1>1, <1>2, <1>3 DEF Held

(* The counter has an acknowledged report once at least, and no report     *)
(* more often than it was sent.                                            *)
LEMMA TimesBounds ==
    ASSUME TypeOK, TriesInv, NEW n \in Report
    PROVE  /\ Times(n) <= report[n].tries
           /\ report[n].pc = "acked" => Times(n) >= 1
           /\ report[n].tries = 0 => Times(n) = 0
<1> DEFINE K == {k \in Attempt : Counted(n, k)}
           T == 1 .. report[n].tries
<1>1. report[n].tries \in Nat
  BY TimesType
<1>2. IsFiniteSet(T) /\ Cardinality(T) = report[n].tries
  <2>1. \A t \in Nat : IsFiniteSet(1 .. t) /\ Cardinality(1 .. t) = t
    BY FS_Interval
  <2> QED
    BY <1>1, <2>1
<1>3. K \in SUBSET T
  BY <1>1, DeliveryAssumption DEF TriesInv, Counted, Attempt
<1>4. report[n].pc = "acked" => report[n].tries \in K
  BY DEF TriesInv, Counted
<1>5. Times(n) = Cardinality(K)
  BY DEF Times
<1> HIDE DEF K, T
<1>6. IsFiniteSet(K) /\ Cardinality(K) <= report[n].tries /\ Cardinality(K) \in Nat
  BY <1>2, <1>3, FS_Subset, FS_CardinalityType
<1>7. K # {} => Cardinality(K) >= 1
  BY <1>6, FS_EmptySet
<1> QED
  BY <1>1, <1>4, <1>5, <1>6, <1>7

(* The sums of CounterInBounds. *)
ValueOf == [n \in Report |-> report[n].value]
SentOf  == [n \in Report |-> report[n].tries * report[n].value]

(* The recursion that MapThenSumSet is sums the function ValueOf, *)
LEMMA AckedSum ==
    ASSUME TypeOK
    PROVE  MapThenSumSet(LAMBDA n : report[n].value, Acked) = SumOver(ValueOf, Acked)
<1>1. Acked \in SUBSET Report /\ IsFiniteSet(Acked)
  BY AttemptFinite, FS_Subset DEF Acked
<1>2. \A n \in Report : ValueOf[n] \in Int /\ ValueOf[n] = report[n].value
  BY TimesType DEF ValueOf
<1> DEFINE IsIt(h) == h = [s \in SUBSET Acked |->
                             IF s = {} THEN 0
                             ELSE report[CHOOSE x \in s : TRUE].value
                                    + h[s \ {CHOOSE x \in s : TRUE}]]
<1>3. \A s \in SUBSET Acked : s # {} => (CHOOSE x \in s : TRUE) \in Report
  BY <1>1
<1>4. \A h : IsIt(h) <=> IsSum(h, ValueOf, Acked)
  BY <1>2, <1>3 DEF IsSum
<1> HIDE DEF IsIt
<1>5. \E h : IsIt(h)
  BY <1>1, <1>2, <1>4, SumExists
<1> DEFINE m == MapThenSumSet(LAMBDA n : report[n].value, Acked)
<1>6. PICK h : IsIt(h) /\ m = h[Acked]
  BY <1>5 DEF IsIt, MapThenSumSet, MapThenFoldSet
<1> HIDE DEF m
<1>7. m = SumOver(ValueOf, Acked)
  BY <1>1, <1>2, <1>4, <1>6, SumOverIs
<1> QED
  BY <1>7 DEF m

(* and SentOf. *)
LEMMA TakenSum ==
    ASSUME TypeOK
    PROVE  MapThenSumSet(LAMBDA n : report[n].tries * report[n].value, Taken)
             = SumOver(SentOf, Taken)
<1>1. Taken \in SUBSET Report /\ IsFiniteSet(Taken)
  BY AttemptFinite, FS_Subset DEF Taken
<1>2. \A n \in Report : SentOf[n] \in Int /\ SentOf[n] = report[n].tries * report[n].value
  <2>1. \A a, b \in Nat : a * b \in Int
    OBVIOUS
  <2> QED
    BY <2>1, TimesType DEF SentOf
<1> DEFINE IsIt(h) == h = [s \in SUBSET Taken |->
                             IF s = {} THEN 0
                             ELSE report[CHOOSE x \in s : TRUE].tries
                                      * report[CHOOSE x \in s : TRUE].value
                                    + h[s \ {CHOOSE x \in s : TRUE}]]
<1>3. \A s \in SUBSET Taken : s # {} => (CHOOSE x \in s : TRUE) \in Report
  BY <1>1
<1>4. \A h : IsIt(h) <=> IsSum(h, SentOf, Taken)
  BY <1>2, <1>3 DEF IsSum
<1> HIDE DEF IsIt
<1>5. \E h : IsIt(h)
  BY <1>1, <1>2, <1>4, SumExists
<1> DEFINE m == MapThenSumSet(LAMBDA n : report[n].tries * report[n].value, Taken)
<1>6. PICK h : IsIt(h) /\ m = h[Taken]
  BY <1>5 DEF IsIt, MapThenSumSet, MapThenFoldSet
<1> HIDE DEF m
<1>7. m = SumOver(SentOf, Taken)
  BY <1>1, <1>2, <1>4, <1>6, SumOverIs
<1> QED
  BY <1>7 DEF m

(* Term by term, an acknowledged report is held at least once and a report *)
(* that was taken at most as often as it was sent.                         *)
LEMMA InvCounterInBounds ==
    ASSUME DInv, CounterInv
    PROVE  CounterInBounds
<1> USE DEF DInv
<1>1. Acked \in SUBSET Report /\ Taken \in SUBSET Report /\ IsFiniteSet(Report)
      /\ IsFiniteSet(Acked) /\ IsFiniteSet(Taken)
  BY AttemptFinite, FS_Subset DEF Acked, Taken
<1>2. \A n \in Report : /\ Held[n] \in Nat /\ ValueOf[n] \in Nat /\ SentOf[n] \in Nat
                        /\ Held[n] <= SentOf[n]
                        /\ n \in Acked => ValueOf[n] <= Held[n]
                        /\ n \notin Taken => SentOf[n] = 0 /\ Held[n] = 0
  <2> TAKE n \in Report
  <2> DEFINE v == report[n].value
             t == report[n].tries
             c == Times(n)
  <2>1. c \in Nat /\ v \in Nat /\ t \in Nat /\ c <= t /\ (n \in Acked => c >= 1)
        /\ (n \notin Taken => t = 0 /\ c = 0)
    BY TimesType, TimesBounds DEF Acked, Taken, TriesInv
  <2>2. Held[n] = c * v /\ ValueOf[n] = v /\ SentOf[n] = t * v
    BY DEF Held, ValueOf, SentOf
  <2> HIDE DEF v, t, c
  <2>3. c * v \in Nat /\ t * v \in Nat /\ c * v <= t * v /\ (c >= 1 => v <= c * v)
    BY <2>1
  <2> QED
    BY <2>1, <2>2, <2>3
<1>3. /\ SumOver(ValueOf, Acked) <= SumOver(Held, Acked)
      /\ SumOver(Held, Acked) <= SumOver(Held, Report)
  <2>1. SumOver(ValueOf, Acked) <= SumOver(Held, Acked)
    BY <1>1, <1>2, SumMonotone
  <2>2. SumOver(Held, Acked) <= SumOver(Held, Report)
    BY <1>1, <1>2, SumSubset
  <2> QED
    BY <2>1, <2>2
<1>4. SumOver(Held, Report) <= SumOver(SentOf, Report)
  BY <1>1, <1>2, SumMonotone
<1>5. SumOver(SentOf, Report) = SumOver(SentOf, Taken)
  BY <1>1, <1>2, SumSupport
<1>6. /\ SumOver(ValueOf, Acked) \in Int /\ SumOver(Held, Acked) \in Int
      /\ SumOver(Held, Report) \in Int /\ SumOver(SentOf, Taken) \in Int
  BY <1>1, <1>2, SumType
<1> QED
  <2>1. MapThenSumSet(LAMBDA n : report[n].value, Acked) = SumOver(ValueOf, Acked)
    BY AckedSum
  <2>2. MapThenSumSet(LAMBDA n : report[n].tries * report[n].value, Taken) = SumOver(SentOf, Taken)
    BY TakenSum
  <2>3. SumOver(ValueOf, Acked) <= counter /\ counter <= SumOver(SentOf, Taken)
    BY <1>3, <1>4, <1>5, <1>6 DEF CounterInv
  <2> QED
    BY <2>1, <2>2, <2>3 DEF CounterInBounds

(* The initial states: nothing is counted. *)
LEMMA InitCounter ==
    ASSUME DInv, Init
    PROVE  CounterInv
<1>1. \A n \in Report : Held[n] = 0
  <2> TAKE n \in Report
  <2>1. report[n].value = 0 /\ Times(n) \in Nat /\ Held[n] = Times(n) * report[n].value
    BY TimesType DEF Init, NotTaken, DInv
  <2> QED
    BY <2>1
<1>2. SumOver(Held, Report) = 0
  BY <1>1, AttemptFinite, SumZero
<1> QED
  BY <1>2 DEF CounterInv, Init

(* The terms of the sum before and after a step. *)
HeldNat == \A n \in Report : Held[n] \in Nat /\ report[n].value \in Nat

(* They are natural numbers. *)
LEMMA HeldType == TypeOK /\ TypeOK' => HeldNat /\ HeldNat'
<1>1. TypeOK => HeldNat
  BY TimesType DEF HeldNat
<1> QED
  BY <1>1, PTL

(* Attempts that count stay counted, and others do not begin to. *)
LEMMA CounterFrame ==
    ASSUME TypeOK, TypeOK', CounterInv, counter' = counter,
           \A n \in Report, k \in Attempt : Counted(n, k)' <=> Counted(n, k),
           \A n \in Report : report'[n].value # report[n].value => Times(n) = 0
    PROVE  CounterInv'
<1>1. ASSUME NEW n \in Report PROVE Times(n)' = Times(n)
  <2>1. {k \in Attempt : Counted(n, k)}' = {k \in Attempt : Counted(n, k)}
    OBVIOUS
  <2> QED
    BY <2>1 DEF Times
<1>2. ASSUME NEW n \in Report PROVE Held'[n] = Held[n] /\ Held[n] \in Int
  <2>1. /\ Held[n] = Times(n) * report[n].value /\ report[n].value \in Nat
        /\ Times(n) \in Nat /\ Held[n] \in Nat
    BY TimesType
  <2>2. Held'[n] = Times(n)' * report'[n].value /\ report'[n].value \in Nat
    BY HeldType DEF Held, HeldNat
  <2> QED
    BY <1>1, <2>1, <2>2
<1>3. SumOver(Held', Report) = SumOver(Held, Report)
  BY <1>2, AttemptFinite, SumSame
<1> QED
  BY <1>3 DEF CounterInv

(* The counter of a batch is applied: its report counts once more. *)
LEMMA CounterGrows ==
    ASSUME TypeOK, TypeOK', CounterInv, NEW n \in Report, NEW k \in Attempt,
           counter' = counter + report[n].value, report' = report,
           ~Counted(n, k), Counted(n, k)',
           \A m \in Report, j \in Attempt :
              m # n \/ j # k => (Counted(m, j)' <=> Counted(m, j))
    PROVE  CounterInv'
<1>1. ASSUME NEW m \in Report, m # n PROVE Times(m)' = Times(m)
  <2>1. {j \in Attempt : Counted(m, j)}' = {j \in Attempt : Counted(m, j)}
    BY <1>1
  <2> QED
    BY <2>1 DEF Times
<1>2. Times(n)' = Times(n) + 1
  <2> DEFINE K == {j \in Attempt : Counted(n, j)}
  <2>1. K' = K \cup {k} /\ k \notin K
    OBVIOUS
  <2>2. IsFiniteSet(K)
    BY AttemptFinite, FS_Subset
  <2>3. Times(n) = Cardinality(K) /\ Times(n)' = Cardinality(K')
    BY DEF Times
  <2> HIDE DEF K
  <2>4. Cardinality(K \cup {k}) = Cardinality(K) + 1
    BY <2>1, <2>2, FS_AddElement
  <2> QED
    BY <2>1, <2>3, <2>4
<1>3. \A m \in Report : Held[m] \in Int /\ Held'[m] \in Int
  BY HeldType DEF HeldNat
<1>4. \A m \in Report \ {n} : Held'[m] = Held[m]
  BY <1>1 DEF Held
<1>5. Held'[n] = Held[n] + report[n].value
  <2>1. Times(n) \in Nat /\ report[n].value \in Nat /\ Held[n] = Times(n) * report[n].value
    BY TimesType
  <2>2. Held'[n] = (Times(n) + 1) * report[n].value
    BY <1>2 DEF Held
  <2> DEFINE t == Times(n)
             v == report[n].value
  <2>3. t \in Nat /\ v \in Nat
    BY <2>1
  <2> HIDE DEF t, v
  <2>4. (t + 1) * v = t * v + v
    BY <2>3
  <2> QED
    BY <2>1, <2>2, <2>4 DEF t, v
<1>6. SumOver(Held', Report) = SumOver(Held, Report) - Held[n] + Held'[n]
  BY <1>3, <1>4, AttemptFinite, SumChange
<1>7. SumOver(Held, Report) \in Int /\ report[n].value \in Int
  BY <1>3, AttemptFinite, SumType, TimesType
<1> QED
  BY <1>3, <1>5, <1>6, <1>7 DEF CounterInv

(* A step of the network or the server: the second metric of a batch, or   *)
(* the first, is the counter.                                              *)
LEMMA ServerCounter ==
    ASSUME DInv, TypeOK', CounterInv, NEW n \in Report, NEW k \in Attempt, ServerStep(n, k)
    PROVE  CounterInv'
<1> USE DEF DInv
<1>1. report[n].first \in Half /\ (CHOOSE h \in Half : h # report[n].first) \in Half
      /\ (CHOOSE h \in Half : h # report[n].first) # report[n].first
  BY OtherHalf DEF TypeOK
<1>2. /\ report' = report
      /\ \A m \in Report, j \in Attempt : m # n \/ j # k => (Counted(m, j)' <=> Counted(m, j))
  BY ServerEffect DEF Counted
<1>3. CASE counter' = counter /\ (Counted(n, k)' <=> Counted(n, k))
  <2>1. \A m \in Report, j \in Attempt : Counted(m, j)' <=> Counted(m, j)
    BY <1>2, <1>3
  <2> QED
    BY <1>2, <1>3, <2>1, CounterFrame
<1>4. CASE counter' = counter + report[n].value /\ ~Counted(n, k) /\ Counted(n, k)'
  BY <1>2, <1>4, CounterGrows
<1>5. CASE Lose(n, k) \/ Refuse(n, k)
  <2>1. Moves(n, k, "lost") \/ Moves(n, k, "refused")
    BY <1>5 DEF Lose, Refuse, Moves
  <2>2. attempt'[n][k] \in {"lost", "refused"}
    BY <2>1, AttemptEffect
  <2>3. attempt[n][k] = "transit" /\ counter' = counter
    BY <1>5 DEF Lose, Refuse
  <2> QED
    BY <1>3, <2>2, <2>3 DEF Counted
<1>6. CASE /\ attempt[n][k] = "transit"
           /\ attempt' = [attempt EXCEPT ![n][k] = "half"]
           /\ Apply(n, report[n].first)
  <2>0. TypeOK /\ attempt' = [attempt EXCEPT ![n][k] = "half"]
    BY <1>6
  <2>1. attempt'[n][k] = "half"
    BY <2>0 DEF TypeOK
  <2> QED
    BY <1>1, <1>2, <1>3, <1>4, <1>6, <2>1 DEF Apply, Counted, Half
<1>7. CASE /\ attempt[n][k] = "half"
           /\ attempt' = [attempt EXCEPT ![n][k] = "applied"]
           /\ Apply(n, CHOOSE h \in Half : h # report[n].first)
  <2>0. TypeOK /\ attempt' = [attempt EXCEPT ![n][k] = "applied"]
    BY <1>7
  <2>1. attempt'[n][k] = "applied"
    BY <2>0 DEF TypeOK
  <2> QED
    BY <1>1, <1>2, <1>3, <1>4, <1>7, <2>1 DEF Apply, Counted, Half
<1> QED
  BY <1>5, <1>6, <1>7 DEF ServerStep, UpdateBatch

(* Every step keeps the counter the sum of what was applied. *)
LEMMA StepCounter ==
    ASSUME DInv, DInv', CounterInv, [Next]_vars
    PROVE  CounterInv'
<1> USE DEF DInv
<1>1. ASSUME NEW n \in Report, NEW last \in BOOLEAN, Snapshot(n, last) PROVE CounterInv'
  <2>1. report[n].pc = "none" /\ \A m \in Report \ {n} : report'[m] = report[m]
    BY <1>1, SnapshotEffect
  <2>2. report[n].tries = 0 /\ \A k \in Attempt : attempt[n][k] = "none"
    BY <2>1, DeliveryAssumption DEF TriesInv, Attempt
  <2>3. Times(n) = 0
    BY <2>2, TimesBounds
  <2>4. attempt' = attempt /\ counter' = counter
    BY <1>1 DEF Snapshot
  <2>5. \A m \in Report, k \in Attempt : Counted(m, k)' <=> Counted(m, k)
    BY <2>1, <2>2, <2>4 DEF Counted
  <2> QED
    BY <2>1, <2>3, <2>4, <2>5, CounterFrame
<1>2. ASSUME NEW n \in Report, report[n].pc \in {"taken", "backoff"}, StartAttempt(n)
      PROVE  CounterInv'
  <2> DEFINE t == report[n].tries + 1
  <2>1. /\ t \in Attempt /\ attempt'[n][t] = "transit" /\ attempt[n][t] = "none"
        /\ report'[n].first = report[n].first
        /\ \A m \in Report \ {n} : report'[m] = report[m]
        /\ \A m \in Report, k \in Attempt : m # n \/ k # t => attempt'[m][k] = attempt[m][k]
    BY <1>2, StartAttemptEffect, TimesType DEF TriesInv
  <2>2. counter' = counter /\ report'[n].value = report[n].value
    BY <1>2 DEF StartAttempt, TypeOK
  <2> HIDE DEF t
  <2>3. \A m \in Report, k \in Attempt : Counted(m, k)' <=> Counted(m, k)
    BY <2>1 DEF Counted
  <2> QED
    BY <2>1, <2>2, <2>3, CounterFrame
<1>3. ASSUME NEW n \in Report, NEW pc, Becomes(n, pc) PROVE CounterInv'
  <2>1. /\ attempt' = attempt /\ counter' = counter
        /\ \A m \in Report : /\ report'[m].first = report[m].first
                             /\ report'[m].value = report[m].value
    BY <1>3 DEF Becomes, TypeOK
  <2>2. \A m \in Report, k \in Attempt : Counted(m, k)' <=> Counted(m, k)
    BY <2>1 DEF Counted
  <2> QED
    BY <2>1, <2>2, CounterFrame
<1>4. CASE CollectMetrics \/ UNCHANGED vars
  <2>1. UNCHANGED <<report, attempt, counter>>
    BY <1>4 DEF CollectMetrics, vars
  <2>2. \A m \in Report, k \in Attempt : Counted(m, k)' <=> Counted(m, k)
    BY <2>1 DEF Counted
  <2> QED
    BY <2>1, <2>2, CounterFrame
<1>5. CASE \E n \in Report : Dispatch(n) \/ Shutdown(n)
  BY <1>1, <1>5 DEF Dispatch, Shutdown
<1>6. CASE \E n \in Report : SendBatch(n) \/ Retry(n)
  BY <1>2, <1>6 DEF SendBatch, Retry
<1>7. CASE \E n \in Report : Answered(n) \/ AttemptFails(n)
  BY <1>3, <1>7 DEF Answered, AttemptFails
<1>8. CASE \E n \in Report, k \in Attempt : Lose(n, k) \/ Refuse(n, k) \/ UpdateBatch(n, k)
  BY <1>8, ServerCounter DEF ServerStep
<1> QED
  BY <1>4, <1>5, <1>6, <1>7, <1>8 DEF Next

-----------------------------------------------------------------------------
(* The senders' state is well typed; among other things, SendBatch makes   *)
(* no more attempts than the retry schedule has, plus the first.           *)
THEOREM TypeCorrect == Spec => []TypeOK
<1>1. DInv => TypeOK
  BY DEF DInv
<1>2. QED
  BY <1>1, InitInv, StepInv, PTL DEF Spec

(* A report acknowledged after one attempt cannot replace, on the server,  *)
(* one whose SendBatch began after that and is acknowledged.               *)
THEOREM NeverOvertaken == Spec => []NoOvertaking
  BY InitInv, StepInv, InvNoOvertaking, PTL DEF Spec

(* The counter on the server holds every acknowledged report once at       *)
(* least, and none more often than its SendBatch made attempts, whatever   *)
(* the network loses and however late an attempt is applied.               *)
THEOREM CounterStaysInBounds == Spec => []CounterInBounds
<1>1. Init => DInv /\ CounterInv
  BY InitInv, InitCounter
<1>2. DInv /\ CounterInv /\ [Next]_vars => (DInv /\ CounterInv)'
  BY StepInv, StepCounter
<1>3. DInv /\ CounterInv => CounterInBounds
  BY InvCounterInBounds
<1> QED
  BY <1>1, <1>2, <1>3, PTL DEF Spec
=============================================================================
