-------------------------- MODULE PostgresStorage --------------------------
(***************************************************************************)
(* The storage in PostgreSQL (internal/repository/pgstorage.go): the calls *)
(* of request goroutines, the retry loop around each, the bounded pool of  *)
(* connections, and the database as the code uses it.                      *)
(*                                                                         *)
(* Each attempt of a call that writes is a session of the database: a      *)
(* statement that commits by itself, or the transaction of UpdateBatch,    *)
(* whose statements lock their rows until it ends.  The caller may lose a  *)
(* connection at any time and goes on without knowing what becomes of the  *)
(* session: what was sent may still be committed.  The error it then sees  *)
(* may be one that isPGConnException retries, or not.                      *)
(*                                                                         *)
(* GetGauge and GetCounter are a query of one row in the same loop; only   *)
(* GetAllMetrics is modelled of the reads.                                 *)
(***************************************************************************)
EXTENDS MetricsStore, FiniteSets, SequencesExt

CONSTANTS
    Caller,     \* the goroutines that call the storage, once each
    Retries,    \* len(retrySchedule)
    MaxConns,   \* db.SetMaxOpenConns
    Op,         \* the calls each may make: see PostgresAssumption
    MaxFaults   \* bound on the connections and transactions that fail by themselves

Try       == 1 .. Retries + 1
Session   == Caller \X Try
NoSession == <<>>
Row       == Id \X {"gauge", "counter"}   \* PRIMARY KEY (id, mtype)

ASSUME PostgresAssumption ==
    /\ Retries \in Nat /\ MaxConns \in Nat \ {0} /\ MaxFaults \in Nat
    /\ IsFiniteSet(Caller) /\ DOMAIN Op = Caller
    /\ \A c \in Caller : \A op \in Op[c] :
          /\ op.kind \in {"update", "batch", "list"}
          /\ op.list \in Seq(Metric)
          /\ op.kind = "update" => Len(op.list) = 1

VARIABLES
    table,    \* the committed rows
    session,  \* what has become of each attempt
    owner,    \* the session that has locked a row, or NoSession
    call,     \* the callers: see NotCalled
    conns,    \* the callers that hold a connection of the pool
    faults    \* how many connections and transactions have failed by themselves

vars == <<table, session, owner, call, conns, faults>>

(* pos: the metrics UpdateBatch has executed; rows: those GetAllMetrics    *)
(* has still to scan; out: its map, as the set of the values.  History:    *)
(* lost, the attempts that were repeated without knowing their outcome.    *)
NotCalled == [pc |-> "idle", op |-> [kind |-> "list", list |-> <<>>], tries |-> 0,
              pos |-> 0, rows |-> {}, out |-> {}, lost |-> 0]

TypeOK ==
    /\ table \in Store
    /\ session \in [Session -> {"none", "open", "sent", "committed", "retriable", "fatal"}]
    /\ owner \in [Row -> Session \cup {NoSession}]
    /\ DOMAIN call = Caller
    /\ \A c \in Caller :
          /\ call[c].pc \in {"idle", "begin", "exec", "wait", "scan", "backoff",
                             "ok", "error", "void"}
          /\ call[c].op \in Op[c] \cup {NotCalled.op}
          /\ call[c].tries \in 0 .. Retries + 1
          /\ call[c].pos \in 0 .. Len(call[c].op.list)
          /\ call[c].rows \cup call[c].out \subseteq Metric
          /\ call[c].lost \in 0 .. Retries
    /\ conns \subseteq Caller /\ Cardinality(conns) <= MaxConns
    /\ faults \in 0 .. MaxFaults

Init ==
    /\ table = NewMemStorage
    /\ session = [s \in Session |-> "none"]
    /\ owner = [r \in Row |-> NoSession]
    /\ call = [c \in Caller |-> NotCalled]
    /\ conns = {}
    /\ faults = 0

-----------------------------------------------------------------------------
(* The database.                                                           *)

RowOf(m) == <<m.id, m.mtype>>

(* UpdateBatch passes over metrics with a nil pointer. *)
Skipped(m) == IF m.mtype = "gauge" THEN m.value = Missing ELSE m.delta = Missing

(* A counter without a row counts as 0. *)
ValueOf(ms, i) == IF HasCounter(ms, i) THEN ms.counters[i] ELSE 0

(* A BIGINT does not wrap: the statement fails. *)
OutOfRange(ms, m) ==
    /\ m.mtype = "counter" /\ ~Skipped(m)
    /\ ValueOf(ms, m.id) + m.delta \notin Counter

Upserts(ms, list) == FoldLeft(ApplyMetric, ms, list)

OpOf(s) == call[s[1]].op

Unlocked(s) == [r \in Row |-> IF owner[r] = s THEN NoSession ELSE owner[r]]

Ends(s, outcome) ==
    /\ session' = [session EXCEPT ![s] = outcome]
    /\ owner' = Unlocked(s)
    /\ UNCHANGED <<call, conns>>

(* A statement that commits by itself waits for the lock of its row. *)
CommitUpdate(s) ==
    LET m == OpOf(s).list[1]
    IN  /\ session[s] = "sent" /\ OpOf(s).kind = "update"
        /\ owner[RowOf(m)] = NoSession
        /\ IF OutOfRange(table, m) THEN Ends(s, "fatal") /\ UNCHANGED table
                                   ELSE Ends(s, "committed") /\ table' = ApplyMetric(table, m)

CommitBatch(s) ==
    /\ session[s] = "sent" /\ OpOf(s).kind = "batch"
    /\ Ends(s, "committed")
    /\ table' = Upserts(table, OpOf(s).list)

Commit(s) == (CommitUpdate(s) \/ CommitBatch(s)) /\ UNCHANGED faults

Current(c) == call[c].op.list[call[c].pos + 1]
AtMetric(c) == call[c].pc = "exec" /\ call[c].pos < Len(call[c].op.list)

(* The session that session s waits for. *)
Waits(s, t) ==
    /\ session[s] = "open"
    /\ AtMetric(s[1]) /\ s[2] = call[s[1]].tries
    /\ ~Skipped(Current(s[1]))
    /\ owner[RowOf(Current(s[1]))] = t /\ t # s

Deadlocked(s) ==
    \E S \in SUBSET {t \in Session : session[t] = "open"} :
       s \in S /\ \A t \in S : \E u \in S : Waits(t, u)

(* Nobody waits for the session's outcome. *)
Abandoned(s) ==
    \/ s[2] < call[s[1]].tries
    \/ call[s[1]].pc \notin {"exec", "wait"}

Resolvable(s) == Abandoned(s) \/ Deadlocked(s)

(* The session is rolled back: its client has done so or is gone, it is    *)
(* the victim of a deadlock, or it fails (a conflict, a shutdown).         *)
Abort(s) ==
    /\ session[s] \in {"open", "sent"}
    /\ Ends(s, "retriable")
    /\ IF Resolvable(s) THEN UNCHANGED faults
                        ELSE faults < MaxFaults /\ faults' = faults + 1
    /\ UNCHANGED table

-----------------------------------------------------------------------------
(* The calls.                                                              *)

Call(c) ==
    /\ call[c].pc = "idle"
    /\ \E op \in Op[c] :
          call' = [call EXCEPT ![c].op = op,
                               ![c].pc = IF op.kind = "batch" /\ op.list = <<>> THEN "ok"
                                                                               ELSE "begin"]
    /\ UNCHANGED <<table, session, owner, conns, faults>>

(* The pool has a connection to give.  A transaction begins, a statement   *)
(* is sent, a query is about to be.                                        *)
Connect(c) ==
    /\ call[c].pc = "begin"
    /\ Cardinality(conns) < MaxConns
    /\ conns' = conns \cup {c}
    /\ call' = [call EXCEPT ![c].tries = @ + 1, ![c].pos = 0,
                            ![c].pc = IF call[c].op.kind = "update" THEN "wait" ELSE "exec"]
    /\ session' = [session EXCEPT ![<<c, call[c].tries + 1>>] =
                      CASE call[c].op.kind = "update" -> "sent"
                        [] call[c].op.kind = "batch"  -> "open"
                        [] OTHER                      -> "none"]
    /\ UNCHANGED <<table, owner, faults>>

At(c) == <<c, call[c].tries>>

(* Mutant of Exec: the statement is executed outside the transaction. *)
ExecOutsideTx(c) ==
    /\ AtMetric(c) /\ session[At(c)] = "open"
    /\ owner[RowOf(Current(c))] = NoSession
    /\ ~OutOfRange(table, Current(c))
    /\ table' = ApplyMetric(table, Current(c))
    /\ call' = [call EXCEPT ![c].pos = @ + 1]
    /\ UNCHANGED <<session, owner, conns, faults>>

(* A statement of the transaction locks its row, which nobody else has. *)
Exec(c) ==
    /\ AtMetric(c) /\ session[At(c)] = "open"
    /\ LET m    == Current(c)
           seen == Upserts(table, SubSeq(call[c].op.list, 1, call[c].pos))
       IN  \/ /\ Skipped(m)
              /\ call' = [call EXCEPT ![c].pos = @ + 1]
              /\ UNCHANGED <<session, owner>>
           \/ /\ ~Skipped(m) /\ owner[RowOf(m)] \in {NoSession, At(c)}
              /\ ~OutOfRange(seen, m)
              /\ owner' = [owner EXCEPT ![RowOf(m)] = At(c)]
              /\ call' = [call EXCEPT ![c].pos = @ + 1]
              /\ UNCHANGED session
           \/ /\ ~Skipped(m) /\ owner[RowOf(m)] \in {NoSession, At(c)}
              /\ OutOfRange(seen, m)
              /\ session' = [session EXCEPT ![At(c)] = "fatal"]
              /\ owner' = Unlocked(At(c))
              /\ UNCHANGED call
    /\ UNCHANGED <<table, conns, faults>>

SendCommit(c) ==
    /\ call[c].pc = "exec" /\ call[c].op.kind = "batch"
    /\ call[c].pos = Len(call[c].op.list)
    /\ session[At(c)] = "open"
    /\ session' = [session EXCEPT ![At(c)] = "sent"]
    /\ call' = [call EXCEPT ![c].pc = "wait"]
    /\ UNCHANGED <<table, owner, conns, faults>>

(* The attempt is over and gives its connection back (Exec returns, the    *)
(* deferred tx.Rollback, rows.Close).                                      *)
Release(c, pc, lost) ==
    /\ call' = [call EXCEPT ![c].pc = pc, ![c].lost = @ + lost,
                            ![c].rows = {}, ![c].out = IF pc = "ok" THEN @ ELSE {}]
    /\ conns' = conns \ {c}
    /\ UNCHANGED <<table, session, owner>>

Returned(c, ok) == IF call[c].op.kind = "update" THEN "void" ELSE IF ok THEN "ok" ELSE "error"

(* Mutant of After: one attempt too many. *)
AfterOneMore(c, retry) ==
    IF retry /\ call[c].tries <= Retries + 1 THEN "backoff" ELSE Returned(c, FALSE)

(* What follows a failed attempt. *)
After(c, retry) ==
    IF retry /\ call[c].tries <= Retries THEN "backoff" ELSE Returned(c, FALSE)

(* Mutant of Answered: the loop of retryPG goes on after a success. *)
AnsweredGoesOn(c) ==
    /\ call[c].pc = "wait" /\ session[At(c)] = "committed"
    /\ Release(c, After(c, TRUE), 0)
    /\ UNCHANGED faults

Answered(c) ==
    /\ call[c].pc = "wait" /\ session[At(c)] = "committed"
    /\ Release(c, Returned(c, TRUE), 0)
    /\ UNCHANGED faults

(* The database reports an error: code 40..., or another. *)
Refused(c) ==
    /\ call[c].pc \in {"exec", "wait"} /\ session[At(c)] \in {"retriable", "fatal"}
    /\ Release(c, After(c, session[At(c)] = "retriable"), 0)
    /\ UNCHANGED faults

Fault == faults < MaxFaults /\ faults' = faults + 1

(* Mutant of Lost: without the deferred tx.Rollback. *)
LostKeepsConn(c) ==
    /\ call[c].pc \in {"exec", "wait"} /\ Fault
    /\ \E retry \in BOOLEAN : call' = [call EXCEPT ![c].pc = After(c, retry)]
    /\ UNCHANGED <<table, session, owner, conns>>

(* The connection fails, with an error that is retried or one that is not. *)
Lost(c) ==
    /\ call[c].pc \in {"exec", "wait"} /\ Fault
    /\ \E retry \in BOOLEAN :
          LET pc == After(c, retry) IN Release(c, pc, IF pc = "backoff" THEN 1 ELSE 0)

Timer(c) ==
    /\ call[c].pc = "backoff"
    /\ call' = [call EXCEPT ![c].pc = "begin"]
    /\ UNCHANGED <<table, session, owner, conns, faults>>

(* The query sees the rows of one moment. *)
Query(c) ==
    /\ call[c].pc = "exec" /\ call[c].op.kind = "list"
    /\ call' = [call EXCEPT ![c].pc = "scan",
                   ![c].rows = {Gauge(i, table.gauges[i]) : i \in {j \in Id : HasGauge(table, j)}}
                                 \cup
                               {Count(i, table.counters[i]) : i \in {j \in Id : HasCounter(table, j)}}]
    /\ UNCHANGED <<table, session, owner, conns, faults>>

(* out[id] = m, in whatever order the rows come. *)
ScanRow(c) ==
    /\ call[c].pc = "scan"
    /\ \E m \in call[c].rows :
          call' = [call EXCEPT ![c].rows = @ \ {m},
                               ![c].out = {o \in @ : o.id # m.id} \cup {m}]
    /\ UNCHANGED <<table, session, owner, conns, faults>>

(* Mutant of ScanEnds: without the deferred rows.Close. *)
ScanEndsUnclosed(c) ==
    /\ call[c].pc = "scan" /\ call[c].rows = {}
    /\ call' = [call EXCEPT ![c].pc = "ok"]
    /\ UNCHANGED <<table, session, owner, conns, faults>>

(* Mutant of ScanFails: rows.Err is not looked at. *)
ScanFailsUnchecked(c) ==
    /\ call[c].pc = "scan" /\ Fault
    /\ Release(c, "ok", 0)

(* The iteration fails, which is not retried. *)
ScanFails(c) ==
    /\ call[c].pc = "scan" /\ Fault
    /\ Release(c, "error", 0)

(* All rows are read. *)
ScanEnds(c) ==
    /\ call[c].pc = "scan"
    /\ call[c].rows = {}
    /\ Release(c, "ok", 0)
    /\ UNCHANGED faults

-----------------------------------------------------------------------------
Step(c) == \/ Connect(c) \/ Exec(c) \/ SendCommit(c) \/ Answered(c) \/ Refused(c)
           \/ Timer(c) \/ Query(c) \/ ScanRow(c) \/ ScanEnds(c)

Next ==
    \/ \E c \in Caller : Call(c) \/ Step(c) \/ Lost(c) \/ ScanFails(c)
    \/ \E s \in Session : Commit(s) \/ Abort(s)

(* Goroutines run and timers fire; the database works, resolves deadlocks  *)
(* and gives up transactions whose client is gone.                         *)
Fairness ==
    /\ \A c \in Caller : WF_vars(Step(c))
    /\ \A s \in Session : /\ WF_vars(Commit(s))
                          /\ WF_vars(Resolvable(s) /\ Abort(s))

Spec     == Init /\ [][Next]_vars
FairSpec == Spec /\ Fairness

-----------------------------------------------------------------------------
Commits(c) == Cardinality({k \in Try : session[<<c, k>>] = "committed"})

(* What call c adds to counter i when it is committed once. *)
Counts(m, i) == m.mtype = "counter" /\ m.id = i /\ ~Skipped(m)
Adds(c, i) ==
    LET list == call[c].op.list
    IN  MapThenSumSet(LAMBDA k : list[k].delta, {k \in DOMAIN list : Counts(list[k], i)})

(* The counters of a table when each call has been committed f[c] times. *)
CounterOf(f, i) == MapThenSumSet(LAMBDA c : f[c] * Adds(c, i), Caller)
Counters(f)     == [i \in Id |-> CounterOf(f, i)]

(* What others see is whole calls, each as often as it was committed: no   *)
(* part of a batch that failed, and no counter that has wrapped around.    *)
TableIsWholeCalls ==
    LET sums == Counters([c \in Caller |-> Commits(c)])
    IN  \A i \in Id : ValueOf(table, i) = sums[i]

(* retryPG never repeats a call that it knows to be committed, and repeats *)
(* one that may be only as often as the outcome was unknown: nil means at  *)
(* least once, and a counter is counted twice only if an answer was lost.  *)
CountedOnceUnlessLost ==
    \A c \in Caller :
       /\ Commits(c) <= 1 + call[c].lost
       /\ call[c].op.kind = "batch" /\ call[c].op.list # <<>> /\ call[c].pc = "ok"
            => Commits(c) >= 1

(* A list that GetAllMetrics returns without an error shows every name and *)
(* the counters of some moment, never half of a batch.                     *)
ListIsOfOneMoment ==
    \A c \in Caller : call[c].op.kind = "list" /\ call[c].pc = "ok" =>
       \E f \in [Caller -> 0 .. Retries + 1] :
          /\ \A d \in Caller : f[d] <= Commits(d)
          /\ \A i \in Id :
                \/ \E m \in call[c].out : m.id = i /\ (m.mtype = "gauge" \/ m.delta = Counters(f)[i])
                \/ Counters(f)[i] = 0 /\ \A m \in call[c].out : m.id # i

(* A caller that waits between attempts or has returned holds no           *)
(* connection, whatever failed.                                            *)
NoConnLeak == \A c \in conns : call[c].pc \in {"exec", "wait", "scan"}

(* Every call returns: no caller waits for ever for a row that another has *)
(* locked or for a connection.                                             *)
CallReturns == \A c \in Caller : call[c].pc = "begin" ~> call[c].pc \in {"ok", "error", "void"}
=============================================================================
