------------------------------- MODULE Agent -------------------------------
(***************************************************************************)
(* The metrics agent (internal/agent/agent.go): the Run loop that polls    *)
(* the collector, the loop that samples the system, the dispatcher that    *)
(* hands snapshots (reports) to a bounded channel, the workers that send   *)
(* them, and the stop hook that cancels the context and runs Shutdown.     *)
(*                                                                         *)
(* The sections under Agent.mx do not block, so each is one step.  A       *)
(* channel operation is a step, with Go's rules: a select with several     *)
(* ready cases takes any of them, a goroutine parked in a select is woken  *)
(* by the first case to become ready, a closed channel yields what is      *)
(* buffered and then its end, and sending on it panics.  A tick may come   *)
(* at any time.  SendBatch begins and ends at separate steps and may fail; *)
(* its client bounds it by timeouts.                                       *)
(*                                                                         *)
(* Shutdown reads Agent.jobs with no synchronisation.  The pointer is      *)
(* visible to it at the latest when the next atomic instruction of Run     *)
(* (WaitGroup.Add) is, so a late read of nil is one ahead of RunStart.     *)
(***************************************************************************)
EXTENDS Integers, Sequences, FiniteSets

CONSTANTS
    MaxWorkers,   \* bound on the configured rate limit
    MaxReports    \* bound on the snapshots the dispatcher takes

ASSUME AgentAssumption == MaxWorkers \in Nat /\ MaxReports \in Nat

VARIABLES
    rateLimit,  \* Agent.rateLimit; worker w exists if w <= rateLimit
    empty,      \* len(currentMetrics) == 0
    reports,    \* history: how many snapshots the dispatcher has taken
    cancelled,  \* ctx.Done() is closed
    jobs,       \* Agent.jobs: not made yet, open or closed, and its buffer
    wg,         \* workersWG: the workers added to it that are not done
    run,        \* where the goroutine of Run is
    sys,        \* where the goroutine of collectSystemLoop is
    disp,       \* where the goroutine of dispatchLoop is, and the report it holds
    worker,     \* where each worker is, and the report it sends
    shut,       \* where the goroutine of Shutdown is
    stop,       \* the stop hook: "no", "waiting", "returned", "timedout"
    sent,       \* history: the reports whose SendBatch has returned
    dropped,    \* history: the reports the dispatcher gave up
    panicked    \* a goroutine has sent on the closed channel

collector == <<rateLimit, empty, run, sys>>
shutdown  == <<cancelled, shut, stop>>
queueing  == <<reports, jobs, disp>>
workers   == <<wg, worker>>
history   == <<sent, dropped, panicked>>
vars == <<collector, shutdown, queueing, workers, history>>

Worker == 1 .. MaxWorkers
Report == 1 .. MaxReports
None   == 0     \* no report

TypeOK ==
    /\ rateLimit \in 0 .. MaxWorkers
    /\ reports \in 0 .. MaxReports
    /\ {empty, cancelled, panicked} \subseteq BOOLEAN
    /\ jobs \in [state : {"nil", "open", "closed"}, queue : Seq(Report)]
    /\ Len(jobs.queue) <= rateLimit
    /\ wg \subseteq Worker
    /\ run \in {"off", "starting", "first", "loop", "done"}
    /\ sys \in {"off", "loop", "cpu", "done"}
    /\ disp \in [pc : {"off", "loop", "select", "parked", "sending", "done"},
                 report : Report \cup {None}]
    /\ worker \in [Worker -> [pc : {"off", "select", "sending", "done"},
                              report : Report \cup {None}]]
    /\ shut \in {"off", "snapshot", "sending", "close", "wait", "done"}
    /\ stop \in {"no", "waiting", "returned", "timedout"}
    /\ sent \subseteq Report
    /\ dropped \subseteq Report

(* NewAgent that keeps a negative rate limit. *)
NewAgentUnclamped(limit) == rateLimit = limit

(* NewAgent: a negative rate limit counts as 0. *)
NewAgent(limit) == rateLimit = (IF limit < 0 THEN 0 ELSE limit)

Init ==
    /\ \E limit \in -1 .. MaxWorkers : NewAgent(limit)
    /\ empty = TRUE
    /\ reports = 0
    /\ cancelled = FALSE
    /\ jobs = [state |-> "nil", queue |-> <<>>]
    /\ wg = {}
    /\ run = "off"
    /\ sys = "off"
    /\ disp = [pc |-> "off", report |-> None]
    /\ worker = [w \in Worker |-> [pc |-> "off", report |-> None]]
    /\ shut = "off"
    /\ stop = "no"
    /\ sent = {}
    /\ dropped = {}
    /\ panicked = FALSE

-----------------------------------------------------------------------------
(* Run, startWorkers and collect.                                          *)

Configured == 1 .. rateLimit
Started    == {w \in Worker : worker[w].pc # "off"}

(* startWorkers makes the channel, if the rate is limited. *)
RunStart ==
    /\ run = "off"
    /\ run' = "starting"
    /\ jobs' = IF rateLimit > 0 THEN [jobs EXCEPT !.state = "open"] ELSE jobs
    /\ UNCHANGED <<rateLimit, empty, sys, reports, disp, shutdown, workers, history>>

(* workersWG.Add(1) and the go statement of one worker. *)
StartWorker(w) ==
    /\ run = "starting"
    /\ w \in Configured \ Started
    /\ wg' = wg \cup {w}
    /\ worker' = [worker EXCEPT ![w].pc = "select"]
    /\ UNCHANGED <<collector, shutdown, queueing, history>>

RunLoops ==
    /\ run = "starting"
    /\ Configured \subseteq Started
    /\ run' = "first"
    /\ disp' = [disp EXCEPT !.pc = "loop"]
    /\ sys' = "loop"
    /\ UNCHANGED <<rateLimit, empty, reports, jobs, shutdown, workers, history>>

(* collect, once before the loop and then at each tick. *)
Collect ==
    /\ run \in {"first", "loop"}
    /\ run' = "loop"
    /\ empty' = FALSE
    /\ UNCHANGED <<rateLimit, sys, shutdown, queueing, workers, history>>

RunExit ==
    /\ run = "loop"
    /\ cancelled
    /\ run' = "done"
    /\ UNCHANGED <<rateLimit, empty, sys, shutdown, queueing, workers, history>>

-----------------------------------------------------------------------------
(* collectSystemLoop: the memory figures, unless reading them fails, and   *)
(* then the CPU figures under a second lock, unless reading them fails.    *)

SampleMemory ==
    /\ sys = "loop"
    /\ sys' = "cpu"
    /\ empty' \in {empty, FALSE}
    /\ UNCHANGED <<rateLimit, run, shutdown, queueing, workers, history>>

SampleCPU ==
    /\ sys = "cpu"
    /\ sys' = "loop"
    /\ empty' \in {empty, FALSE}
    /\ UNCHANGED <<rateLimit, run, shutdown, queueing, workers, history>>

SysExit ==
    /\ sys = "loop"
    /\ cancelled
    /\ sys' = "done"
    /\ UNCHANGED <<rateLimit, empty, run, shutdown, queueing, workers, history>>

-----------------------------------------------------------------------------
(* dispatchLoop and dispatchMetrics.                                       *)

DispatchTo(pc) == disp' = [pc |-> pc, report |-> None]

(* A tick: a snapshot under the read lock, for the dispatcher itself to    *)
(* send if there is no channel.  Nothing happens if there are no metrics.  *)
Dispatch ==
    /\ disp.pc = "loop"
    /\ ~empty
    /\ reports < MaxReports
    /\ reports' = reports + 1
    /\ disp' = [pc     |-> IF rateLimit = 0 \/ jobs.state = "nil" THEN "sending" ELSE "select",
                report |-> reports + 1]
    /\ UNCHANGED <<jobs, collector, shutdown, workers, history>>

DispatchSent ==
    /\ disp.pc = "sending"
    /\ sent' = sent \cup {disp.report}
    /\ DispatchTo("loop")
    /\ UNCHANGED <<reports, jobs, dropped, panicked, collector, shutdown, workers>>

Full == Len(jobs.queue) = rateLimit

(* Enqueue that falls through and sends the same report again. *)
EnqueueTwice ==
    /\ disp.pc = "select"
    /\ jobs.state = "open" /\ ~Full
    /\ jobs' = [jobs EXCEPT !.queue = Append(@, disp.report)]
    /\ UNCHANGED <<reports, disp, collector, shutdown, workers, history>>

(* The select of dispatchMetrics takes the channel. *)
Enqueue ==
    /\ disp.pc = "select"
    /\ jobs.state = "open" /\ ~Full
    /\ jobs' = [jobs EXCEPT !.queue = Append(@, disp.report)]
    /\ DispatchTo("loop")
    /\ UNCHANGED <<reports, collector, shutdown, workers, history>>

SendOnClosed ==
    /\ disp.pc = "select"
    /\ jobs.state = "closed"
    /\ panicked' = TRUE
    /\ UNCHANGED <<sent, dropped, collector, shutdown, queueing, workers>>

(* The select takes ctx.Done. *)
GiveUp ==
    /\ disp.pc = "select"
    /\ cancelled
    /\ dropped' = dropped \cup {disp.report}
    /\ DispatchTo("loop")
    /\ UNCHANGED <<reports, jobs, sent, panicked, collector, shutdown, workers>>

(* No case is ready. *)
Park ==
    /\ disp.pc = "select"
    /\ ~cancelled
    /\ jobs.state = "open" /\ Full
    /\ disp' = [disp EXCEPT !.pc = "parked"]
    /\ UNCHANGED <<reports, jobs, collector, shutdown, workers, history>>

DispatchExit ==
    /\ disp.pc = "loop"
    /\ cancelled
    /\ DispatchTo("done")
    /\ UNCHANGED <<reports, jobs, collector, shutdown, workers, history>>

-----------------------------------------------------------------------------
(* The workers.                                                            *)

(* A receive from a full channel lets a parked dispatcher's report in. *)
WorkerTake(w) ==
    /\ worker[w].pc = "select"
    /\ jobs.queue # <<>>
    /\ worker' = [worker EXCEPT ![w] = [pc |-> "sending", report |-> Head(jobs.queue)]]
    /\ IF disp.pc = "parked"
         THEN /\ jobs' = [jobs EXCEPT !.queue = Append(Tail(@), disp.report)]
              /\ DispatchTo("loop")
         ELSE /\ jobs' = [jobs EXCEPT !.queue = Tail(@)]
              /\ UNCHANGED disp
    /\ UNCHANGED <<reports, wg, collector, shutdown, history>>

(* WorkerSent that ends the worker when SendBatch fails. *)
WorkerQuitsOnError(w) ==
    /\ worker[w].pc = "sending"
    /\ sent' = sent \cup {worker[w].report}
    /\ \/ worker' = [worker EXCEPT ![w] = [pc |-> "select", report |-> None]] /\ UNCHANGED wg
       \/ worker' = [worker EXCEPT ![w] = [pc |-> "done", report |-> None]] /\ wg' = wg \ {w}
    /\ UNCHANGED <<dropped, panicked, collector, shutdown, queueing>>

(* SendBatch returns; an error is only logged. *)
WorkerSent(w) ==
    /\ worker[w].pc = "sending"
    /\ sent' = sent \cup {worker[w].report}
    /\ worker' = [worker EXCEPT ![w] = [pc |-> "select", report |-> None]]
    /\ UNCHANGED <<wg, dropped, panicked, collector, shutdown, queueing>>

(* WorkerExit with workersWG.Done only on the path of the closed channel. *)
WorkerExitNotDone(w) ==
    /\ worker[w].pc = "select"
    /\ cancelled \/ (jobs.state = "closed" /\ jobs.queue = <<>>)
    /\ worker' = [worker EXCEPT ![w].pc = "done"]
    /\ wg' = IF jobs.state = "closed" THEN wg \ {w} ELSE wg
    /\ UNCHANGED <<collector, shutdown, queueing, history>>

(* ctx.Done, or the end of the closed channel; the deferred workersWG.Done. *)
WorkerExit(w) ==
    /\ worker[w].pc = "select"
    /\ cancelled \/ (jobs.state = "closed" /\ jobs.queue = <<>>)
    /\ worker' = [worker EXCEPT ![w].pc = "done"]
    /\ wg' = wg \ {w}
    /\ UNCHANGED <<collector, shutdown, queueing, history>>

-----------------------------------------------------------------------------
(* The stop hook and Shutdown.                                             *)

(* OnStop without the call of cancel. *)
OnStopNoCancel ==
    /\ stop = "no"
    /\ stop' = "waiting"
    /\ shut' = "snapshot"
    /\ UNCHANGED <<cancelled, collector, queueing, workers, history>>

(* cancel() wakes a dispatcher parked in its select; Shutdown starts.      *)
OnStop ==
    /\ stop = "no"
    /\ stop' = "waiting"
    /\ cancelled' = TRUE
    /\ shut' = "snapshot"
    /\ IF disp.pc = "parked"
         THEN DispatchTo("loop") /\ dropped' = dropped \cup {disp.report}
         ELSE UNCHANGED <<disp, dropped>>
    /\ UNCHANGED <<reports, jobs, sent, panicked, collector, workers>>

ShutdownStep(from, to) ==
    /\ shut = from
    /\ shut' = to
    /\ UNCHANGED <<cancelled, stop, reports, disp, collector, workers, history>>

ShutdownSnapshot ==
    /\ ShutdownStep("snapshot", IF empty THEN "close" ELSE "sending")
    /\ UNCHANGED jobs

ShutdownSent == ShutdownStep("sending", "close") /\ UNCHANGED jobs

ShutdownClose ==
    IF rateLimit > 0 /\ jobs.state # "nil"
      THEN ShutdownStep("close", "wait") /\ jobs' = [jobs EXCEPT !.state = "closed"]
      ELSE ShutdownStep("close", "done") /\ UNCHANGED jobs

(* ShutdownWaited that does not wait. *)
ShutdownNotWaited == ShutdownStep("wait", "done") /\ UNCHANGED jobs

(* workersWG.Wait returns; then the gRPC connection is closed. *)
ShutdownWaited == wg = {} /\ ShutdownStep("wait", "done") /\ UNCHANGED jobs

(* The hook returns when Shutdown does, or at the end of its 5 seconds. *)
OnStopReturn ==
    /\ stop = "waiting"
    /\ \/ shut = "done" /\ stop' = "returned"
       \/ stop' = "timedout"
    /\ UNCHANGED <<cancelled, shut, collector, queueing, workers, history>>

-----------------------------------------------------------------------------
DispatchSelect == Enqueue \/ SendOnClosed \/ GiveUp \/ Park

ShutdownNext == ShutdownSnapshot \/ ShutdownSent \/ ShutdownClose \/ ShutdownWaited

Work(w) == StartWorker(w) \/ WorkerTake(w) \/ WorkerSent(w)

(* A panic ends the process. *)
Next ==
    /\ ~panicked
    /\ \/ RunStart \/ RunLoops \/ Collect \/ RunExit
       \/ SampleMemory \/ SampleCPU \/ SysExit
       \/ Dispatch \/ DispatchSent \/ DispatchSelect \/ DispatchExit
       \/ \E w \in Worker : Work(w) \/ WorkerExit(w)
       \/ OnStop \/ ShutdownNext \/ OnStopReturn

(* Runnable goroutines run, and SendBatch returns because its client has   *)
(* timeouts.  A select among ready cases is random, so a worker that finds *)
(* its channel ready again and again takes ctx.Done in the end.            *)
Fairness ==
    /\ WF_vars(~panicked /\ (RunStart \/ RunLoops))
    /\ WF_vars(~panicked /\ (DispatchSent \/ DispatchSelect))
    /\ \A w \in Worker : /\ WF_vars(~panicked /\ Work(w))
                         /\ SF_vars(~panicked /\ WorkerExit(w))
    /\ WF_vars(~panicked /\ ShutdownNext)

Spec     == Init /\ [][Next]_vars
FairSpec == Spec /\ Fairness

-----------------------------------------------------------------------------
(* Every snapshot the dispatcher took is in one place and there once: in   *)
(* its hand, in the channel, with one worker, sent, or given up; the       *)
(* wake-ups of a parked dispatcher neither lose nor repeat one.            *)
Places(r) ==
    {<<"worker", w>> : w \in {w \in Worker : worker[w].report = r}}
    \cup {<<"channel", i>> : i \in {i \in DOMAIN jobs.queue : jobs.queue[i] = r}}
    \cup (IF disp.report = r THEN {<<"dispatcher", 0>>} ELSE {})
    \cup (IF r \in sent THEN {<<"sent", 0>>} ELSE {})
    \cup (IF r \in dropped THEN {<<"dropped", 0>>} ELSE {})
EachReportOnce == \A r \in 1 .. reports : \E p \in Places(r) : Places(r) = {p}

(* An agent that is not being stopped neither closes the channel nor       *)
(* panics on it.                                                           *)
NoPanicWhileRunning == jobs.state = "closed" \/ panicked => cancelled

(* When a Shutdown that closed the channel is done, no worker is sending,  *)
(* or will: what is then in the channel stays there.  This holds even if   *)
(* the stop hook ran while startWorkers was still starting them.  Of a     *)
(* Shutdown that read Agent.jobs before Run made the channel, and so       *)
(* closes nothing, it says nothing: workers may be started after it.       *)
(* (internal/agent/agent.go:151)                                           *)
QuietAfterShutdown ==
    shut = "done" /\ jobs.state = "closed"
      => \A w \in Worker : worker[w].pc # "sending"

(* A report in the channel is sent, unless the agent is stopped.           *)
InChannel(r) == \E i \in DOMAIN jobs.queue : jobs.queue[i] = r
QueuedReportIsSent ==
    \A r \in Report : InChannel(r) ~> r \in sent \/ cancelled

(* Shutdown ends: it never waits for ever for the workers.                 *)
ShutdownEnds == cancelled ~> shut = "done" \/ panicked

(* A graceful shutdown does not panic ("Shutdown performs the graceful     *)
(* shutdown of the agent", agent.go:132).                                  *)
NoPanic == ~panicked

=============================================================================
