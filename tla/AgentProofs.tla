---------------------------- MODULE AgentProofs ----------------------------
(***************************************************************************)
(* Theorems about the agent, for every rate limit and number of reports.   *)
(***************************************************************************)
EXTENDS Agent, TLAPS

-----------------------------------------------------------------------------
(* Types.                                                                  *)

DispState   == [pc : {"off", "loop", "select", "parked", "sending", "done"},
                report : Report \cup {None}]
WorkerState == [pc : {"off", "select", "sending", "done"}, report : Report \cup {None}]
Jobs        == [state : {"nil", "open", "closed"}, queue : Seq(Report)]

(* The dispatcher has a report in its hand when it selects, is parked or   *)
(* sends, and a worker when it sends.                                      *)
HandInv ==
    /\ disp.pc \in {"select", "parked", "sending"} => disp.report \in Report
    /\ \A w \in Worker : worker[w].pc = "sending" => worker[w].report \in Report

TypeInv == TypeOK /\ HandInv

(* A new place of one worker leaves the others well typed. *)
LEMMA WorkerType ==
    ASSUME NEW f \in [Worker -> WorkerState], NEW w \in Worker,
           NEW pc \in {"off", "select", "sending", "done"}, NEW r \in Report \cup {None}
    PROVE  /\ [f EXCEPT ![w] = [pc |-> pc, report |-> r]] \in [Worker -> WorkerState]
           /\ [f EXCEPT ![w].pc = pc] \in [Worker -> WorkerState]
  BY DEF WorkerState

(* Sending to and receiving from the channel. *)
LEMMA QueueType ==
    ASSUME NEW q \in Seq(Report), NEW r \in Report
    PROVE  /\ Append(q, r) \in Seq(Report)
           /\ Len(Append(q, r)) = Len(q) + 1
           /\ q # <<>> => /\ Head(q) \in Report
                          /\ Tail(q) \in Seq(Report)
                          /\ Len(Tail(q)) = Len(q) - 1
                          /\ Len(q) > 0
  OBVIOUS

(* The state of a process that has not started is well typed. *)
LEMMA InitType == Init => TypeInv
  <1> SUFFICES ASSUME Init PROVE TypeInv
    OBVIOUS
  <1>1. PICK limit \in -1 .. MaxWorkers : NewAgent(limit)
    BY DEF Init
  <1>2. rateLimit \in 0 .. MaxWorkers
    BY <1>1, AgentAssumption DEF NewAgent
  <1>3. <<>> \in Seq(Report) /\ Len(<<>>) = 0
    OBVIOUS
  <1>4. jobs \in Jobs /\ Len(jobs.queue) <= rateLimit
    BY <1>2, <1>3 DEF Init, Jobs
  <1>5. worker \in [Worker -> WorkerState] /\ disp \in DispState
    BY DEF Init, WorkerState, DispState, None
  <1>6. reports \in 0 .. MaxReports
    BY AgentAssumption DEF Init
  <1> QED
    BY <1>2, <1>4, <1>5, <1>6 DEF Init, TypeInv, TypeOK, HandInv, Jobs, WorkerState, DispState

(* Every step of the agent keeps the types. *)
LEMMA StepType == TypeInv /\ [Next]_vars => TypeInv'
  <1> SUFFICES ASSUME TypeInv, [Next]_vars PROVE TypeInv'
    OBVIOUS
  <1> USE DEF TypeInv
  <1>t. /\ jobs \in Jobs /\ worker \in [Worker -> WorkerState] /\ disp \in DispState
        /\ rateLimit \in Nat /\ reports \in Nat /\ jobs.queue \in Seq(Report)
    BY AgentAssumption DEF TypeOK, Jobs, WorkerState, DispState
  <1>u. CASE UNCHANGED vars
    BY <1>u DEF vars, collector, shutdown, queueing, workers, history, TypeOK, HandInv
  <1>1. CASE RunStart
    <2>1. jobs' \in Jobs /\ jobs'.queue = jobs.queue
      BY <1>1, <1>t DEF RunStart, Jobs
    <2> QED
      BY <1>1, <2>1 DEF RunStart, shutdown, workers, history, TypeOK, HandInv, Jobs
  <1>2. CASE RunLoops
    <2>1. disp' \in DispState /\ disp'.pc = "loop"
      BY <1>2, <1>t DEF RunLoops, DispState
    <2> QED
      BY <1>2, <2>1 DEF RunLoops, shutdown, workers, history, TypeOK, HandInv, DispState
  <1>3. CASE Collect
    <2>1. /\ run' = "loop" /\ empty' = FALSE
          /\ UNCHANGED <<rateLimit, sys, shutdown, queueing, workers, history>>
      BY <1>3 DEF Collect
    <2>2. UNCHANGED <<cancelled, shut, stop, reports, jobs, disp, wg, worker, sent, dropped, panicked>>
      BY <2>1 DEF shutdown, queueing, workers, history
    <2>3. TypeOK'
      <3>1. {empty', cancelled', panicked'} \subseteq BOOLEAN
        BY <2>1, <2>2, Zenon DEF TypeOK
      <3>2. run' \in {"off", "starting", "first", "loop", "done"}
        BY <2>1
      <3> QED
        BY <2>2, <2>1, <3>1, <3>2 DEF TypeOK
    <2>4. HandInv'
      BY <2>2 DEF HandInv
    <2> QED
      BY <2>3, <2>4
  <1>4. CASE RunExit
    BY <1>4 DEF RunExit, shutdown, queueing, workers, history, TypeOK, HandInv
  <1>5. CASE SampleMemory \/ SampleCPU \/ SysExit
    <2>1. empty' \in BOOLEAN
      BY <1>5, Zenon DEF SampleMemory, SampleCPU, SysExit, TypeOK
    <2>2. /\ sys' \in {"loop", "cpu", "done"}
          /\ UNCHANGED <<rateLimit, run, shutdown, queueing, workers, history>>
      BY <1>5 DEF SampleMemory, SampleCPU, SysExit
    <2> QED
      BY <2>1, <2>2 DEF shutdown, queueing, workers, history, TypeOK, HandInv
  <1>6. CASE Dispatch
    <2>1. reports + 1 \in Report /\ reports' \in 0 .. MaxReports
      BY <1>6, <1>t, AgentAssumption DEF Dispatch, Report, TypeOK
    <2>2. disp' \in DispState /\ disp'.report = reports + 1
      BY <1>6, <2>1 DEF Dispatch, DispState
    <2> QED
      BY <1>6, <2>1, <2>2 DEF Dispatch, collector, shutdown, workers, history, TypeOK, HandInv, DispState
  <1>7. CASE DispatchSent
    <2>1. disp' \in DispState /\ disp'.pc = "loop"
      BY <1>7 DEF DispatchSent, DispatchTo, DispState
    <2>2. disp.report \in Report
      BY <1>7 DEF DispatchSent, HandInv
    <2> QED
      BY <1>7, <2>1, <2>2 DEF DispatchSent, collector, shutdown, workers, TypeOK, HandInv, DispState
  <1>8. CASE Enqueue
    <2>1. disp' \in DispState /\ disp'.pc = "loop"
      BY <1>8 DEF Enqueue, DispatchTo, DispState
    <2>2. disp.report \in Report
      BY <1>8 DEF Enqueue, HandInv
    <2>3. /\ Append(jobs.queue, disp.report) \in Seq(Report)
          /\ Len(Append(jobs.queue, disp.report)) = Len(jobs.queue) + 1
      BY <1>t, <2>2, QueueType
    <2>4. jobs' = [jobs EXCEPT !.queue = Append(jobs.queue, disp.report)]
      BY <1>8 DEF Enqueue
    <2>5. jobs' \in Jobs /\ jobs'.queue = Append(jobs.queue, disp.report)
      BY <1>t, <2>3, <2>4 DEF Jobs
    <2>6. Len(jobs.queue) \in Nat /\ Len(jobs.queue) # rateLimit /\ Len(jobs.queue) <= rateLimit
      BY <1>8, <1>t DEF Enqueue, Full, TypeOK
    <2>7. Len(jobs'.queue) <= rateLimit
      BY <1>t, <2>3, <2>5, <2>6
    <2> QED
      BY <1>8, <2>1, <2>5, <2>7 DEF Enqueue, collector, shutdown, workers, history, TypeOK, HandInv, DispState, Jobs
  <1>9. CASE SendOnClosed
    BY <1>9 DEF SendOnClosed, collector, shutdown, queueing, workers, TypeOK, HandInv
  <1>10. CASE GiveUp
    <2>1. disp' \in DispState /\ disp'.pc = "loop"
      BY <1>10 DEF GiveUp, DispatchTo, DispState
    <2>2. disp.report \in Report
      BY <1>10 DEF GiveUp, HandInv
    <2> QED
      BY <1>10, <2>1, <2>2 DEF GiveUp, collector, shutdown, workers, TypeOK, HandInv, DispState
  <1>11. CASE Park
    <2>1. disp' \in DispState /\ disp'.report = disp.report
      BY <1>11, <1>t DEF Park, DispState
    <2>2. disp.report \in Report
      BY <1>11 DEF Park, HandInv
    <2> QED
      BY <1>11, <2>1, <2>2 DEF Park, collector, shutdown, workers, history, TypeOK, HandInv, DispState
  <1>12. CASE DispatchExit
    <2>1. disp' \in DispState /\ disp'.pc = "done"
      BY <1>12 DEF DispatchExit, DispatchTo, DispState
    <2> QED
      BY <1>12, <2>1 DEF DispatchExit, collector, shutdown, workers, history, TypeOK, HandInv, DispState
  <1>13. ASSUME NEW w \in Worker, StartWorker(w) PROVE TypeInv'
    <2>1. worker' \in [Worker -> WorkerState]
      BY <1>13, <1>t, WorkerType DEF StartWorker, None
    <2> QED
      BY <1>13, <2>1 DEF StartWorker, collector, shutdown, queueing, history, TypeOK, HandInv, WorkerState
  <1>14. ASSUME NEW w \in Worker, WorkerTake(w) PROVE TypeInv'
    <2>1. /\ Head(jobs.queue) \in Report /\ Tail(jobs.queue) \in Seq(Report)
          /\ Len(Tail(jobs.queue)) = Len(jobs.queue) - 1 /\ Len(jobs.queue) \in Nat
      BY <1>14, <1>t DEF WorkerTake
    <2>2. worker' \in [Worker -> WorkerState]
      BY <1>14, <1>t, <2>1, WorkerType DEF WorkerTake
    <2>3. CASE disp.pc = "parked"
      <3>1. disp' \in DispState /\ disp'.pc = "loop"
        BY <1>14, <2>3 DEF WorkerTake, DispatchTo, DispState
      <3>2. disp.report \in Report
        BY <2>3 DEF HandInv
      <3>3. /\ Append(Tail(jobs.queue), disp.report) \in Seq(Report)
            /\ Len(Append(Tail(jobs.queue), disp.report)) = Len(jobs.queue)
        BY <2>1, <3>2
      <3>4. jobs' = [jobs EXCEPT !.queue = Append(Tail(jobs.queue), disp.report)]
        BY <1>14, <2>3 DEF WorkerTake
      <3>5. jobs' \in Jobs /\ jobs'.queue = Append(Tail(jobs.queue), disp.report)
        BY <1>t, <3>3, <3>4 DEF Jobs
      <3> QED
        BY <1>14, <2>2, <3>1, <3>3, <3>5 DEF WorkerTake, collector, shutdown, history, TypeOK, HandInv, DispState, Jobs, WorkerState
    <2>4. CASE disp.pc # "parked"
      <3>1. jobs' = [jobs EXCEPT !.queue = Tail(jobs.queue)] /\ UNCHANGED disp
        BY <1>14, <2>4 DEF WorkerTake
      <3>2. jobs' \in Jobs /\ jobs'.queue = Tail(jobs.queue)
        BY <1>t, <2>1, <3>1 DEF Jobs
      <3>3. Len(jobs'.queue) <= rateLimit
        BY <1>t, <2>1, <3>2 DEF TypeOK
      <3> QED
        BY <1>14, <2>2, <3>1, <3>2, <3>3 DEF WorkerTake, collector, shutdown, history, TypeOK, HandInv, Jobs, WorkerState
    <2> QED
      BY <2>3, <2>4
  <1>15. ASSUME NEW w \in Worker, WorkerSent(w) PROVE TypeInv'
    <2>1. worker' \in [Worker -> WorkerState]
      BY <1>15, <1>t, WorkerType DEF WorkerSent, None
    <2>2. worker[w].report \in Report
      BY <1>15 DEF WorkerSent, HandInv
    <2>3. \A v \in Worker : worker'[v].pc = "sending" => worker'[v].report \in Report
      BY <1>15, <1>t DEF WorkerSent, HandInv
    <2> QED
      BY <1>15, <2>1, <2>2, <2>3 DEF WorkerSent, collector, shutdown, queueing, TypeOK, HandInv, WorkerState
  <1>16. ASSUME NEW w \in Worker, WorkerExit(w) PROVE TypeInv'
    <2>1. worker' \in [Worker -> WorkerState]
      BY <1>16, <1>t, WorkerType DEF WorkerExit, None
    <2> QED
      BY <1>16, <2>1 DEF WorkerExit, collector, shutdown, queueing, history, TypeOK, HandInv, WorkerState
  <1>17. CASE OnStop
    <2>1. CASE disp.pc = "parked"
      <3>1. disp' \in DispState /\ disp'.pc = "loop"
        BY <1>17, <2>1 DEF OnStop, DispatchTo, DispState
      <3>2. disp.report \in Report
        BY <2>1 DEF HandInv
      <3> QED
        BY <1>17, <2>1, <3>1, <3>2 DEF OnStop, collector, workers, TypeOK, HandInv, DispState
    <2>2. CASE disp.pc # "parked"
      BY <1>17, <2>2 DEF OnStop, collector, workers, TypeOK, HandInv
    <2> QED
      BY <2>1, <2>2
  <1>18. CASE ShutdownSnapshot \/ ShutdownSent \/ ShutdownWaited
    BY <1>18 DEF ShutdownSnapshot, ShutdownSent, ShutdownWaited, ShutdownStep, collector, workers, history, TypeOK, HandInv
  <1>19. CASE ShutdownClose
    <2>1. jobs' \in Jobs /\ jobs'.queue = jobs.queue
      BY <1>19, <1>t DEF ShutdownClose, Jobs
    <2> QED
      BY <1>19, <2>1 DEF ShutdownClose, ShutdownStep, collector, workers, history, TypeOK, HandInv, Jobs
  <1>20. CASE OnStopReturn
    BY <1>20 DEF OnStopReturn, collector, queueing, workers, history, TypeOK, HandInv
  <1> QED
    BY <1>u, <1>1, <1>2, <1>3, <1>4, <1>5, <1>6, <1>7, <1>8, <1>9, <1>10, <1>11, <1>12, <1>13, <1>14,
       <1>15, <1>16, <1>17, <1>18, <1>19, <1>20
       DEF Next, DispatchSelect, Work, ShutdownNext

(* The agent's state is well typed; among other things, the channel never  *)
(* holds more reports than its capacity, the rate limit.                   *)
THEOREM TypeCorrect == Spec => []TypeOK
<1>1. TypeInv => TypeOK
  BY DEF TypeInv
<1>2. QED
  BY <1>1, InitType, StepType, PTL DEF Spec

-----------------------------------------------------------------------------
(* The stop of the agent.                                                  *)

(* The context is cancelled before Shutdown begins; only Shutdown closes   *)
(* the channel, which startWorkers has made; a dispatcher cannot stay      *)
(* parked once the context is cancelled.                                   *)
CancelInv ==
    /\ shut # "off" => cancelled
    /\ stop = "no" => shut = "off"
    /\ jobs.state = "closed" => shut \in {"wait", "done"}
    /\ jobs.state # "nil" => run # "off"
    /\ panicked => cancelled
    /\ cancelled => disp.pc # "parked"

(* A worker selects or sends just when the WaitGroup counts it, and the    *)
(* dispatcher, the only one to fill the channel, starts after all workers. *)
StartInv ==
    /\ \A w \in Worker : worker[w].pc \in {"select", "sending"} <=> w \in wg
    /\ run \in {"off", "starting"} => disp.pc = "off" /\ jobs.queue = <<>>

(* After a Shutdown that closed the channel either nothing is left in it   *)
(* or all workers have ended and none is to be started: this is what makes *)
(* QuietAfterShutdown inductive.                                           *)
QuietInv ==
    shut = "done" /\ jobs.state = "closed" =>
       /\ \A w \in Worker : worker[w].pc # "sending"
       /\ jobs.queue = <<>> \/ (wg = {} /\ run \notin {"off", "starting"})

(* It holds before the agent runs. *)
LEMMA InitStop == Init => CancelInv /\ StartInv /\ QuietInv
  BY DEF Init, CancelInv, StartInv, QuietInv

(* Every step keeps the order of cancelling, closing and stopping. *)
LEMMA CancelStep == TypeInv /\ CancelInv /\ [Next]_vars => CancelInv'
  <1> SUFFICES ASSUME TypeInv, CancelInv, [Next]_vars PROVE CancelInv'
    OBVIOUS
  <1>t. jobs \in Jobs /\ disp \in DispState
    BY DEF TypeInv, TypeOK, Jobs, DispState
  <1>u. CASE UNCHANGED vars
    BY <1>u DEF vars, collector, shutdown, queueing, workers, history, CancelInv
  <1>1. CASE RunStart
    BY <1>1, <1>t DEF RunStart, shutdown, workers, history, CancelInv, Jobs
  <1>2. CASE RunLoops
    BY <1>2, <1>t DEF RunLoops, shutdown, workers, history, CancelInv, DispState
  <1>3. CASE Collect \/ RunExit
    BY <1>3 DEF Collect, RunExit, shutdown, queueing, workers, history, CancelInv
  <1>4. CASE SampleMemory \/ SampleCPU \/ SysExit
    <2>1. UNCHANGED <<run, jobs, disp, cancelled, shut, stop, panicked>>
      BY <1>4 DEF SampleMemory, SampleCPU, SysExit, shutdown, queueing, history
    <2> QED
      BY <2>1 DEF CancelInv
  <1>5. CASE Dispatch \/ DispatchSent \/ GiveUp \/ Park \/ DispatchExit
    <2>1. UNCHANGED <<jobs, cancelled, shut, stop, run, panicked>>
      BY <1>5 DEF Dispatch, DispatchSent, GiveUp, Park, DispatchExit,
         collector, shutdown, workers, history
    <2>2. disp'.pc = "parked" => ~cancelled
      BY <1>5, <1>t DEF Dispatch, DispatchSent, GiveUp, Park, DispatchExit, DispatchTo, DispState
    <2> QED
      BY <2>1, <2>2 DEF CancelInv
  <1>6. CASE Enqueue
    BY <1>6, <1>t DEF Enqueue, DispatchTo, collector, shutdown, workers, history, CancelInv, Jobs
  <1>7. CASE SendOnClosed
    BY <1>7, Zenon DEF SendOnClosed, collector, shutdown, queueing, workers, CancelInv
  <1>8. ASSUME NEW w \in Worker, StartWorker(w) \/ WorkerSent(w) \/ WorkerExit(w)
        PROVE  CancelInv'
    BY <1>8 DEF StartWorker, WorkerSent, WorkerExit, collector, shutdown, queueing, history, CancelInv
  <1>9. ASSUME NEW w \in Worker, WorkerTake(w) PROVE CancelInv'
    <2>1. jobs'.state = jobs.state /\ (disp' = disp \/ disp'.pc = "loop")
      BY <1>9, <1>t DEF WorkerTake, DispatchTo, Jobs
    <2> QED
      BY <1>9, <2>1 DEF WorkerTake, collector, shutdown, history, CancelInv
  <1>10. CASE OnStop
    <2>1. disp'.pc # "parked"
      BY <1>10 DEF OnStop, DispatchTo
    <2>2. UNCHANGED <<jobs, panicked, run>> /\ cancelled' = TRUE
          /\ stop' = "waiting" /\ jobs.state # "closed"
      BY <1>10 DEF OnStop, collector, workers, CancelInv
    <2> QED
      BY <2>1, <2>2 DEF CancelInv
  <1>11. CASE ShutdownSnapshot \/ ShutdownSent \/ ShutdownWaited
    BY <1>11 DEF ShutdownSnapshot, ShutdownSent, ShutdownWaited, ShutdownStep,
       collector, workers, history, CancelInv
  <1>12. CASE ShutdownClose
    BY <1>12, <1>t DEF ShutdownClose, ShutdownStep, collector, workers, history, CancelInv, Jobs
  <1>13. CASE OnStopReturn
    BY <1>13 DEF OnStopReturn, collector, queueing, workers, history, CancelInv
  <1> QED
    BY <1>u, <1>1, <1>2, <1>3, <1>4, <1>5, <1>6, <1>7, <1>8, <1>9, <1>10, <1>11, <1>12, <1>13
       DEF Next, DispatchSelect, Work, ShutdownNext

(* Workers are counted, and the channel is empty until they have started. *)
LEMMA StartStep == TypeInv /\ CancelInv /\ StartInv /\ [Next]_vars => StartInv'
  <1> SUFFICES ASSUME TypeInv, CancelInv, StartInv, [Next]_vars PROVE StartInv'
    OBVIOUS
  <1>t. jobs \in Jobs /\ disp \in DispState /\ worker \in [Worker -> WorkerState] /\ wg \subseteq Worker
    BY DEF TypeInv, TypeOK, Jobs, DispState, WorkerState
  <1>1. CASE UNCHANGED <<worker, wg, run, disp, jobs>>
    BY <1>1 DEF StartInv
  <1>2. CASE UNCHANGED <<worker, wg>> /\ run' \notin {"off", "starting"}
    BY <1>2 DEF StartInv
  <1>3. CASE RunStart
    <2>1. UNCHANGED <<worker, wg, disp>> /\ jobs'.queue = jobs.queue /\ run = "off"
      BY <1>3, <1>t DEF RunStart, workers, Jobs
    <2> QED
      BY <2>1 DEF StartInv
  <1>4. ASSUME NEW w \in Worker, StartWorker(w) PROVE StartInv'
    <2>1. UNCHANGED <<run, disp, jobs>>
      BY <1>4 DEF StartWorker, collector, queueing
    <2>2. worker'[w].pc = "select" /\ \A v \in Worker \ {w} : worker'[v] = worker[v]
      BY <1>4, <1>t DEF StartWorker, WorkerState
    <2>3. wg' = wg \cup {w}
      BY <1>4 DEF StartWorker
    <2> QED
      BY <2>1, <2>2, <2>3 DEF StartInv
  <1>5. ASSUME NEW w \in Worker, WorkerTake(w) PROVE StartInv'
    <2>1. UNCHANGED <<run, wg>> /\ jobs.queue # <<>> /\ worker[w].pc = "select"
      BY <1>5 DEF WorkerTake, collector
    <2>2. worker'[w].pc = "sending" /\ \A v \in Worker \ {w} : worker'[v] = worker[v]
      BY <1>5, <1>t DEF WorkerTake, WorkerState
    <2> QED
      BY <2>1, <2>2 DEF StartInv
  <1>6. ASSUME NEW w \in Worker, WorkerSent(w) PROVE StartInv'
    <2>1. UNCHANGED <<run, wg, disp, jobs>> /\ worker[w].pc = "sending"
      BY <1>6 DEF WorkerSent, collector, queueing
    <2>2. worker'[w].pc = "select" /\ \A v \in Worker \ {w} : worker'[v] = worker[v]
      BY <1>6, <1>t DEF WorkerSent, WorkerState
    <2> QED
      BY <2>1, <2>2 DEF StartInv
  <1>7. ASSUME NEW w \in Worker, WorkerExit(w) PROVE StartInv'
    <2>1. UNCHANGED <<run, disp, jobs>> /\ wg' = wg \ {w}
      BY <1>7 DEF WorkerExit, collector, queueing
    <2>2. worker'[w].pc = "done" /\ \A v \in Worker \ {w} : worker'[v] = worker[v]
      BY <1>7, <1>t DEF WorkerExit, WorkerState
    <2> QED
      BY <2>1, <2>2 DEF StartInv
  <1>8. CASE OnStop
    <2>1. UNCHANGED <<worker, wg, run, jobs>> /\ (disp.pc = "off" => disp' = disp)
      BY <1>8 DEF OnStop, workers, collector
    <2> QED
      BY <2>1 DEF StartInv
  <1>9. CASE ShutdownClose
    <2>1. UNCHANGED <<worker, wg, run, disp>> /\ jobs'.queue = jobs.queue
      BY <1>9, <1>t DEF ShutdownClose, ShutdownStep, workers, collector, Jobs
    <2> QED
      BY <2>1 DEF StartInv
  <1>10. ASSUME disp.pc # "off", UNCHANGED <<worker, wg, run>> PROVE StartInv'
    BY <1>10 DEF StartInv
  <1>11. CASE Dispatch \/ DispatchSent \/ DispatchSelect \/ DispatchExit
    <2>1. disp.pc # "off" /\ UNCHANGED <<worker, wg, run>>
      BY <1>11 DEF Dispatch, DispatchSent, DispatchSelect, DispatchExit, Enqueue, SendOnClosed,
         GiveUp, Park, workers, collector
    <2> QED
      BY <2>1, <1>10
  <1>12. CASE RunLoops \/ Collect \/ RunExit
    BY <1>12, <1>2 DEF RunLoops, Collect, RunExit, workers
  <1>13. CASE \/ SampleMemory \/ SampleCPU \/ SysExit \/ ShutdownSnapshot \/ ShutdownSent
              \/ ShutdownWaited \/ OnStopReturn \/ UNCHANGED vars
    BY <1>13, <1>1 DEF SampleMemory, SampleCPU, SysExit, ShutdownSnapshot, ShutdownSent,
       ShutdownWaited, ShutdownStep, OnStopReturn, workers, collector, queueing, vars
  <1> QED
    BY <1>3, <1>4, <1>5, <1>6, <1>7, <1>8, <1>9, <1>11, <1>12, <1>13 DEF Next, Work, ShutdownNext

(* After a Shutdown that closed the channel nothing starts to send. *)
LEMMA QuietStep == TypeInv /\ CancelInv /\ StartInv /\ QuietInv /\ [Next]_vars => QuietInv'
  <1> SUFFICES ASSUME TypeInv, CancelInv, StartInv, QuietInv, [Next]_vars,
                      shut' = "done", jobs'.state = "closed"
               PROVE  /\ \A w \in Worker : worker'[w].pc # "sending"
                      /\ jobs'.queue = <<>> \/ (wg' = {} /\ run' \notin {"off", "starting"})
    BY DEF QuietInv
  <1>t. jobs \in Jobs /\ worker \in [Worker -> WorkerState]
    BY DEF TypeInv, TypeOK, Jobs, WorkerState
  <1>1. CASE shut = "done" /\ jobs.state = "closed"
    <2> USE <1>1
    <2>1. /\ \A w \in Worker : worker[w].pc # "sending"
          /\ jobs.queue = <<>> \/ (wg = {} /\ run \notin {"off", "starting"})
      BY DEF QuietInv
    <2>2. cancelled /\ disp.pc # "parked"
      BY DEF CancelInv
    <2>3. CASE UNCHANGED <<worker, wg, jobs>> /\ (run' = run \/ run' \notin {"off", "starting"})
      BY <2>1, <2>3
    <2>4. CASE RunStart
      BY <2>4 DEF RunStart, CancelInv
    <2>5. ASSUME NEW w \in Worker, StartWorker(w) PROVE QuietInv'
      <3>1. UNCHANGED <<run, jobs>> /\ jobs.queue = <<>>
        BY <2>5 DEF StartWorker, collector, queueing, StartInv
      <3>2. worker'[w].pc = "select" /\ \A v \in Worker \ {w} : worker'[v] = worker[v]
        BY <2>5, <1>t DEF StartWorker, WorkerState
      <3> QED
        BY <2>1, <3>1, <3>2 DEF QuietInv
    <2>6. ASSUME NEW w \in Worker, WorkerTake(w) PROVE FALSE
      <3>1. w \in wg /\ jobs.queue # <<>>
        BY <2>6 DEF WorkerTake, StartInv
      <3> QED
        BY <2>1, <3>1
    <2>7. ASSUME NEW w \in Worker, WorkerSent(w) PROVE FALSE
      BY <2>1, <2>7 DEF WorkerSent
    <2>8. ASSUME NEW w \in Worker, WorkerExit(w) PROVE QuietInv'
      <3>1. UNCHANGED <<run, jobs>> /\ wg' = wg \ {w}
        BY <2>8 DEF WorkerExit, collector, queueing
      <3>2. worker'[w].pc = "done" /\ \A v \in Worker \ {w} : worker'[v] = worker[v]
        BY <2>8, <1>t DEF WorkerExit, WorkerState
      <3> QED
        BY <2>1, <3>1, <3>2 DEF QuietInv
    <2>9. CASE Enqueue \/ ShutdownClose \/ ShutdownSnapshot \/ ShutdownSent \/ ShutdownWaited \/ OnStop
      BY <2>9 DEF Enqueue, ShutdownClose, ShutdownSnapshot, ShutdownSent, ShutdownWaited,
         ShutdownStep, OnStop, CancelInv
    <2>10. CASE Dispatch \/ DispatchSent \/ SendOnClosed \/ GiveUp \/ Park \/ DispatchExit
      BY <2>3, <2>10 DEF Dispatch, DispatchSent, SendOnClosed, GiveUp, Park, DispatchExit,
         workers, collector, queueing
    <2>11. CASE \/ RunLoops \/ Collect \/ RunExit \/ SampleMemory \/ SampleCPU \/ SysExit
                \/ OnStopReturn \/ UNCHANGED vars
      BY <2>3, <2>11 DEF RunLoops, Collect, RunExit, SampleMemory, SampleCPU, SysExit,
         OnStopReturn, workers, collector, queueing, vars
    <2> QED
      BY <2>4, <2>5, <2>6, <2>7, <2>8, <2>9, <2>10, <2>11
         DEF Next, DispatchSelect, Work, ShutdownNext, QuietInv
  <1>2. CASE shut # "done"
    <2>1. CASE ShutdownWaited
      BY <2>1 DEF ShutdownWaited, ShutdownStep, workers, collector, StartInv
    <2>2. CASE ShutdownClose
      BY <1>2, <2>2 DEF ShutdownClose, ShutdownStep, CancelInv
    <2>3. ~ShutdownWaited /\ ~ShutdownClose => shut' # "done"
      BY <1>2 DEF Next, vars, shutdown, RunStart, RunLoops, Collect, RunExit, SampleMemory,
         SampleCPU, SysExit, Dispatch, DispatchSent, DispatchSelect, Enqueue, SendOnClosed,
         GiveUp, Park, DispatchExit, Work, StartWorker, WorkerTake, WorkerSent, WorkerExit,
         OnStop, ShutdownNext, ShutdownSnapshot, ShutdownSent, ShutdownStep, OnStopReturn
    <2> QED
      BY <2>1, <2>2, <2>3
  <1>3. CASE shut = "done" /\ jobs.state # "closed"
    <2>1. ShutdownClose => FALSE
      BY <1>3 DEF ShutdownClose, ShutdownStep
    <2>2. jobs'.state = "closed" => ShutdownClose
      BY <1>3, <1>t DEF Next, vars, queueing, RunStart, RunLoops, Collect, RunExit, SampleMemory,
         SampleCPU, SysExit, Dispatch, DispatchSent, DispatchSelect, Enqueue, SendOnClosed,
         GiveUp, Park, DispatchExit, Work, StartWorker, WorkerTake, WorkerSent, WorkerExit,
         OnStop, ShutdownNext, ShutdownSnapshot, ShutdownSent, ShutdownWaited, ShutdownStep,
         OnStopReturn, Jobs
    <2> QED
      BY <2>1, <2>2
  <1> QED
    BY <1>1, <1>2, <1>3

(* The four invariants hold together. *)
LEMMA StopInvHolds == Spec => [](TypeInv /\ CancelInv /\ StartInv /\ QuietInv)
  BY InitType, InitStop, StepType, CancelStep, StartStep, QuietStep, PTL DEF Spec

(* When a Shutdown that closed the channel is done, no worker sends or     *)
(* will, for any rate limit and however the stop interleaves with the      *)
(* start of the workers.  One that found no channel, because Run had not   *)
(* made it yet, is not covered: workers started after it may send.         *)
(* (internal/agent/agent.go:151)                                           *)
THEOREM NothingSentAfterShutdown == Spec => []QuietAfterShutdown
<1>1. QuietInv => QuietAfterShutdown
  BY DEF QuietInv, QuietAfterShutdown
<1>2. QED
  BY <1>1, StopInvHolds, PTL

(* The channel is closed, and a send on it panics, only once the agent is  *)
(* being stopped.                                                          *)
THEOREM RunningAgentDoesNotPanic == Spec => []NoPanicWhileRunning
<1>1. CancelInv => NoPanicWhileRunning
  BY DEF CancelInv, NoPanicWhileRunning
<1>2. QED
  BY <1>1, StopInvHolds, PTL

-----------------------------------------------------------------------------
(* Every report is in one place.                                           *)

In(q, r)    == \E i \in DOMAIN q : q[i] = r
Distinct(q) == \A i, j \in DOMAIN q : q[i] = q[j] => i = j
OnWorker(r) == \E w \in Worker : worker[w].report = r

(* A report is in at most one kind of place, and in one if it was taken. *)
PlaceOf(r) ==
    /\ OnWorker(r) => ~In(jobs.queue, r) /\ disp.report # r /\ r \notin sent /\ r \notin dropped
    /\ In(jobs.queue, r) => disp.report # r /\ r \notin sent /\ r \notin dropped
    /\ disp.report = r => r \notin sent /\ r \notin dropped
    /\ r \in sent => r \notin dropped
    /\ r <= reports <=> \/ OnWorker(r) \/ In(jobs.queue, r) \/ disp.report = r
                       \/ r \in sent \/ r \in dropped
PlaceInv == \A r \in Report : PlaceOf(r)

(* It is there once: no two workers and no two slots of the channel hold   *)
(* the same report, and who neither waits nor sends holds none.            *)
OnceInv ==
    /\ \A v, w \in Worker :
          worker[v].report = worker[w].report /\ worker[v].report # None => v = w
    /\ Distinct(jobs.queue)
    /\ disp.pc \notin {"select", "parked", "sending"} => disp.report = None
    /\ \A w \in Worker : worker[w].pc # "sending" => worker[w].report = None

(* A send puts its report at the end and moves no other. *)
LEMMA AppendIn ==
    ASSUME NEW q \in Seq(Report), NEW r \in Report
    PROVE  /\ \A x : In(Append(q, r), x) <=> In(q, x) \/ x = r
           /\ Distinct(q) /\ ~In(q, r) => Distinct(Append(q, r))
  <1> DEFINE p == Append(q, r)
  <1>1. /\ Len(q) \in Nat
        /\ DOMAIN q = 1 .. Len(q) /\ DOMAIN p = 1 .. Len(q) + 1
        /\ \A i \in 1 .. Len(q) : p[i] = q[i]
        /\ p[Len(q) + 1] = r
    OBVIOUS
  <1> HIDE DEF p
  <1>2. /\ \A i \in DOMAIN q : i \in DOMAIN p /\ p[i] = q[i]
        /\ Len(q) + 1 \in DOMAIN p
        /\ \A i \in DOMAIN p : i \in DOMAIN q \/ i = Len(q) + 1
    BY <1>1
  <1>3. \A x : In(p, x) <=> In(q, x) \/ x = r
    BY <1>1, <1>2 DEF In
  <1>4. Distinct(q) /\ ~In(q, r) => Distinct(p)
    BY <1>1, <1>2 DEF In, Distinct
  <1> QED
    BY <1>3, <1>4 DEF p

(* A receive takes the first report and leaves the others. *)
LEMMA TailIn ==
    ASSUME NEW q \in Seq(Report), q # <<>>, Distinct(q)
    PROVE  /\ In(q, Head(q))
           /\ \A x : In(Tail(q), x) <=> In(q, x) /\ x # Head(q)
           /\ Distinct(Tail(q))
  <1> DEFINE p == Tail(q)
             h == Head(q)
  <1>1. /\ Len(q) \in Nat \ {0}
        /\ DOMAIN q = 1 .. Len(q) /\ DOMAIN p = 1 .. Len(q) - 1
        /\ \A i \in 1 .. Len(q) - 1 : p[i] = q[i + 1]
        /\ q[1] = h
    OBVIOUS
  <1> HIDE DEF p, h
  <1>2. /\ 1 \in DOMAIN q
        /\ \A i \in DOMAIN p : i \in Int /\ i + 1 \in DOMAIN q /\ i + 1 # 1 /\ p[i] = q[i + 1]
        /\ \A j \in DOMAIN q : j \in Int /\ (j = 1 \/ (j - 1 \in DOMAIN p /\ p[j - 1] = q[j]))
    BY <1>1
  <1>3. In(q, h)
    BY <1>1, <1>2 DEF In
  <1>4. ASSUME NEW x PROVE In(p, x) <=> In(q, x) /\ x # h
    <2>1. ASSUME NEW i \in DOMAIN p, p[i] = x PROVE In(q, x) /\ x # h
      BY <1>1, <1>2, <2>1 DEF In, Distinct
    <2>2. ASSUME NEW j \in DOMAIN q, q[j] = x, x # h PROVE In(p, x)
      BY <1>1, <1>2, <2>2 DEF In
    <2> QED
      BY <2>1, <2>2 DEF In
  <1>5. Distinct(p)
    <2> SUFFICES ASSUME NEW i \in DOMAIN p, NEW j \in DOMAIN p, p[i] = p[j] PROVE i = j
      BY DEF Distinct
    <2>1. i + 1 = j + 1
      BY <1>2 DEF Distinct
    <2> QED
      BY <1>2, <2>1
  <1> QED
    BY <1>3, <1>4, <1>5 DEF p, h

(* Before the agent runs no report exists. *)
LEMMA InitOnce == Init => PlaceInv /\ OnceInv
  <1> SUFFICES ASSUME Init PROVE PlaceInv /\ OnceInv
    OBVIOUS
  <1>1. /\ \A w \in Worker : worker[w].report = 0
        /\ disp.pc = "off" /\ disp.report = 0 /\ jobs.queue = <<>>
        /\ reports = 0 /\ sent = {} /\ dropped = {}
    BY DEF Init, None
  <1>2. \A r : ~In(jobs.queue, r)
    BY <1>1 DEF In
  <1>3. PlaceInv
    BY <1>1, <1>2 DEF PlaceInv, PlaceOf, OnWorker, Report
  <1>4. OnceInv
    BY <1>1 DEF OnceInv, Distinct, None
  <1> QED
    BY <1>3, <1>4

(* Every step leaves each report where it is, moves one from one place to  *)
(* another, or makes a new one in the dispatcher's hand.                   *)
LEMMA OnceStep == TypeInv /\ StartInv /\ PlaceInv /\ OnceInv /\ [Next]_vars => PlaceInv' /\ OnceInv'
  <1> SUFFICES ASSUME TypeInv, StartInv, PlaceInv, OnceInv, [Next]_vars PROVE PlaceInv' /\ OnceInv'
    OBVIOUS
  <1>t. /\ jobs \in Jobs /\ jobs.queue \in Seq(Report)
        /\ disp \in DispState /\ worker \in [Worker -> WorkerState]
        /\ sent \subseteq Report /\ dropped \subseteq Report
        /\ reports \in 0 .. MaxReports
    BY DEF TypeInv, TypeOK, Jobs, DispState, WorkerState
  <1>0. \A r \in Report : r \in Nat /\ r # None
    BY DEF Report, None
  \* nothing moves
  <1>f. ASSUME UNCHANGED <<reports, sent, dropped>>, jobs'.queue = jobs.queue,
               disp'.report = disp.report,
               disp'.pc \in {"select", "parked", "sending"} \/ disp.report = None,
               \A w \in Worker : /\ worker'[w].report = worker[w].report
                                 /\ worker'[w].pc # "sending" => worker[w].report = None
        PROVE  PlaceInv' /\ OnceInv'
    <2>1. \A r : OnWorker(r)' <=> OnWorker(r)
      BY <1>f DEF OnWorker
    <2>2. \A r : In(jobs.queue, r)' <=> In(jobs.queue, r)
      BY <1>f DEF In
    <2>3. PlaceInv'
      BY <2>1, <2>2, <1>f DEF PlaceInv, PlaceOf
    <2>4. OnceInv'
      BY <1>f DEF OnceInv, Distinct
    <2> QED
      BY <2>3, <2>4
  <1>g. ASSUME UNCHANGED <<reports, sent, dropped, disp, worker>>, jobs'.queue = jobs.queue
        PROVE  PlaceInv' /\ OnceInv'
    <2>1. \A w \in Worker : worker[w].pc # "sending" => worker[w].report = None
      BY DEF OnceInv
    <2>2. disp.pc \in {"select", "parked", "sending"} \/ disp.report = None
      BY DEF OnceInv
    <2> QED
      BY <1>f, <1>g, <2>1, <2>2
  <1>u. CASE UNCHANGED vars
    BY <1>u, <1>g DEF vars, queueing, workers, history
  <1>1. CASE \/ Collect \/ RunExit \/ SampleMemory \/ SampleCPU \/ SysExit
             \/ SendOnClosed \/ ShutdownSnapshot \/ ShutdownSent \/ ShutdownWaited \/ OnStopReturn
    BY <1>1, <1>g DEF Collect, RunExit, SampleMemory, SampleCPU, SysExit, SendOnClosed,
       ShutdownSnapshot, ShutdownSent, ShutdownWaited, ShutdownStep, OnStopReturn,
       queueing, workers, history
  <1>2. CASE RunStart \/ ShutdownClose
    <2>1. jobs'.queue = jobs.queue
      BY <1>2, <1>t DEF RunStart, ShutdownClose, Jobs
    <2> QED
      BY <1>2, <2>1, <1>g DEF RunStart, ShutdownClose, ShutdownStep, workers, history
  <1>3. CASE RunLoops \/ Park \/ DispatchExit
    <2>1. /\ disp'.report = disp.report
          /\ disp'.pc \in {"select", "parked", "sending"} \/ disp.report = None
      BY <1>3, <1>t DEF RunLoops, Park, DispatchExit, DispatchTo, DispState, StartInv, OnceInv
    <2>2. UNCHANGED <<reports, sent, dropped, jobs, worker>>
      BY <1>3 DEF RunLoops, Park, DispatchExit, workers, history
    <2>3. \A w \in Worker : worker[w].pc # "sending" => worker[w].report = None
      BY DEF OnceInv
    <2> QED
      BY <1>f, <2>1, <2>2, <2>3
  <1>4. ASSUME NEW w \in Worker, StartWorker(w) \/ WorkerExit(w) PROVE PlaceInv' /\ OnceInv'
    <2>1. \A v \in Worker : worker'[v].report = worker[v].report
      BY <1>4, <1>t DEF StartWorker, WorkerExit, WorkerState
    <2>2. \A v \in Worker : worker'[v].pc # "sending" => worker[v].report = None
      BY <1>4, <1>t DEF StartWorker, WorkerExit, WorkerState, OnceInv, Started, Configured
    <2>3. UNCHANGED <<reports, sent, dropped, jobs, disp>>
      BY <1>4 DEF StartWorker, WorkerExit, queueing, history
    <2>4. disp.pc \in {"select", "parked", "sending"} \/ disp.report = None
      BY DEF OnceInv
    <2> QED
      BY <1>f, <2>1, <2>2, <2>3, <2>4
  <1>5. CASE Dispatch
    <2>1. /\ disp.report = None /\ disp'.report = reports + 1 /\ reports' = reports + 1
          /\ disp'.pc \in {"select", "sending"}
          /\ UNCHANGED <<jobs, worker, sent, dropped>>
      BY <1>5 DEF Dispatch, OnceInv, workers, history
    <2>3. ASSUME NEW r \in Report PROVE PlaceOf(r)'
      <3>0. (OnWorker(r)' <=> OnWorker(r)) /\ (In(jobs.queue, r)' <=> In(jobs.queue, r))
        BY <2>1 DEF OnWorker, In
      <3>1. PlaceOf(r) /\ (r <= reports' <=> r <= reports \/ r = reports + 1) /\ ~(reports + 1 <= reports)
        BY <2>1, <1>0, <1>t DEF PlaceInv, PlaceOf
      <3>2. CASE r = reports + 1
        BY <2>1, <3>0, <3>1, <3>2 DEF PlaceOf
      <3>3. CASE r # reports + 1
        BY <2>1, <3>0, <3>1, <3>3, <1>0 DEF PlaceOf
      <3> QED
        BY <3>2, <3>3
    <2>4. OnceInv'
      BY <2>1 DEF OnceInv, Distinct
    <2> QED
      BY <2>3, <2>4 DEF PlaceInv, PlaceOf
  <1>6. CASE DispatchSent \/ GiveUp
    <2> DEFINE m == disp.report
    <2>1. m \in Report /\ disp'.report = None /\ UNCHANGED <<jobs, worker, reports>>
      BY <1>6 DEF DispatchSent, GiveUp, DispatchTo, TypeInv, HandInv, workers
    <2>2. \/ sent' = sent \cup {m} /\ dropped' = dropped
          \/ dropped' = dropped \cup {m} /\ sent' = sent
      BY <1>6 DEF DispatchSent, GiveUp
    <2>5. ASSUME NEW r \in Report PROVE PlaceOf(r)'
      <3>0. (OnWorker(r)' <=> OnWorker(r)) /\ (In(jobs.queue, r)' <=> In(jobs.queue, r))
        BY <2>1 DEF OnWorker, In
      <3>1. PlaceOf(r) /\ r # None
        BY <1>0 DEF PlaceInv, PlaceOf
      <3>2. CASE r = m
        BY <2>1, <2>2, <3>0, <3>1, <3>2 DEF PlaceOf
      <3>3. CASE r # m
        BY <2>1, <2>2, <3>0, <3>1, <3>3 DEF PlaceOf
      <3> QED
        BY <3>2, <3>3
    <2>6. OnceInv'
      BY <2>1 DEF OnceInv, Distinct
    <2> QED
      BY <2>5, <2>6 DEF PlaceInv, PlaceOf
  <1>7. CASE Enqueue
    <2> DEFINE m == disp.report
    <2>1. /\ m \in Report /\ disp'.report = None /\ UNCHANGED <<worker, reports, sent, dropped>>
          /\ jobs' = [jobs EXCEPT !.queue = Append(@, m)]
      BY <1>7 DEF Enqueue, DispatchTo, TypeInv, HandInv, workers, history
    <2>2. jobs'.queue = Append(jobs.queue, m)
      BY <2>1, <1>t DEF Jobs
    <2>3. ~In(jobs.queue, m) /\ Distinct(jobs.queue)
      BY <2>1 DEF PlaceInv, PlaceOf, OnceInv
    <2>4. /\ \A r : In(jobs.queue, r)' <=> In(jobs.queue, r) \/ r = m
          /\ Distinct(jobs.queue)'
      <3>1. /\ \A r : In(Append(jobs.queue, m), r) <=> In(jobs.queue, r) \/ r = m
            /\ Distinct(Append(jobs.queue, m))
        BY <2>1, <2>3, <1>t, AppendIn
      <3>2. /\ \A r : In(jobs.queue, r)' <=> In(Append(jobs.queue, m), r)
            /\ Distinct(jobs.queue)' <=> Distinct(Append(jobs.queue, m))
        BY <2>2 DEF In, Distinct
      <3> QED
        BY <3>1, <3>2
    <2>5. \A r : OnWorker(r)' <=> OnWorker(r)
      BY <2>1 DEF OnWorker
    <2>6. PlaceInv'
      BY <2>1, <2>4, <2>5, <1>0 DEF PlaceInv, PlaceOf
    <2>7. OnceInv'
      BY <2>1, <2>4 DEF OnceInv
    <2> QED
      BY <2>6, <2>7
  <1>8. ASSUME NEW w \in Worker, WorkerTake(w) PROVE PlaceInv' /\ OnceInv'
    <2> DEFINE h == Head(jobs.queue)
               t == Tail(jobs.queue)
               m == disp.report
    <2>1. jobs.queue # <<>> /\ worker[w].report = None /\ UNCHANGED <<reports, sent, dropped>>
      BY <1>8 DEF WorkerTake, OnceInv, history
    <2>2. /\ In(jobs.queue, h) /\ h \in Report /\ t \in Seq(Report) /\ Distinct(t)
          /\ \A r : In(t, r) <=> In(jobs.queue, r) /\ r # h
      BY <2>1, <1>t, TailIn DEF OnceInv
    <2>3. /\ worker'[w].report = h /\ worker'[w].pc = "sending"
          /\ \A v \in Worker \ {w} : worker'[v] = worker[v]
      BY <1>8, <1>t DEF WorkerTake, WorkerState
    <2>4. \A r \in Report : OnWorker(r)' <=> OnWorker(r) \/ r = h
      BY <2>1, <2>3, <1>0 DEF OnWorker
    <2>5. \A u, v \in Worker :
             worker'[u].report = worker'[v].report /\ worker'[u].report # None => u = v
      BY <2>2, <2>3, <1>0 DEF OnceInv, PlaceInv, PlaceOf, OnWorker
    <2>6. \A v \in Worker : worker'[v].pc # "sending" => worker'[v].report = None
      BY <2>3 DEF OnceInv
    <2>7. CASE disp.pc = "parked"
      <3>1. /\ m \in Report /\ disp'.report = None
            /\ jobs' = [jobs EXCEPT !.queue = Append(Tail(@), m)]
        BY <1>8, <2>7 DEF WorkerTake, DispatchTo, TypeInv, HandInv
      <3>2. jobs'.queue = Append(t, m)
        BY <3>1, <1>t DEF Jobs
      <3>3. ~In(t, m)
        BY <2>2, <3>1 DEF PlaceInv, PlaceOf
      <3>4. /\ \A r : In(jobs.queue, r)' <=> In(t, r) \/ r = m
            /\ Distinct(jobs.queue)'
        <4>1. t \in Seq(Report) /\ m \in Report /\ Distinct(t) /\ ~In(t, m)
          BY <2>2, <3>1, <3>3
        <4> HIDE DEF t, m
        <4>2. /\ \A r : In(Append(t, m), r) <=> In(t, r) \/ r = m
              /\ Distinct(Append(t, m))
          BY <4>1, AppendIn
        <4> QED
          BY <4>2, <3>2 DEF In, Distinct
      <3>5. PlaceInv'
        BY <2>1, <2>2, <2>4, <3>1, <3>4, <1>0 DEF PlaceInv, PlaceOf
      <3>6. OnceInv'
        BY <2>5, <2>6, <3>1, <3>4 DEF OnceInv
      <3> QED
        BY <3>5, <3>6
    <2>8. CASE disp.pc # "parked"
      <3>1. jobs' = [jobs EXCEPT !.queue = Tail(@)] /\ UNCHANGED disp
        BY <1>8, <2>8 DEF WorkerTake
      <3>2. jobs'.queue = t
        BY <3>1, <1>t DEF Jobs
      <3>3. (\A r : In(jobs.queue, r)' <=> In(t, r)) /\ Distinct(jobs.queue)'
        BY <2>2, <3>2 DEF In, Distinct
      <3>4. PlaceInv'
        BY <2>1, <2>2, <2>4, <3>1, <3>3, <1>0 DEF PlaceInv, PlaceOf
      <3>5. OnceInv'
        BY <2>5, <2>6, <3>1, <3>3 DEF OnceInv
      <3> QED
        BY <3>4, <3>5
    <2> QED
      BY <2>7, <2>8
  <1>9. ASSUME NEW w \in Worker, WorkerSent(w) PROVE PlaceInv' /\ OnceInv'
    <2> DEFINE m == worker[w].report
    <2>1. /\ m \in Report /\ sent' = sent \cup {m}
          /\ UNCHANGED <<reports, jobs, disp, dropped>>
      BY <1>9 DEF WorkerSent, TypeInv, HandInv, queueing
    <2>2. worker'[w].report = None /\ \A v \in Worker \ {w} : worker'[v] = worker[v]
      BY <1>9, <1>t DEF WorkerSent, WorkerState
    <2>3. \A r \in Report : OnWorker(r)' <=> OnWorker(r) /\ r # m
      BY <2>1, <2>2, <1>0 DEF OnWorker, OnceInv
    <2>4. OnWorker(m) /\ \A r : In(jobs.queue, r)' <=> In(jobs.queue, r)
      BY <2>1 DEF OnWorker, In
    <2>5. PlaceInv'
      BY <2>1, <2>3, <2>4 DEF PlaceInv, PlaceOf
    <2>6. OnceInv'
      BY <2>1, <2>2 DEF OnceInv, Distinct
    <2> QED
      BY <2>5, <2>6
  <1>10. CASE OnStop
    <2> DEFINE m == disp.report
    <2>1. UNCHANGED <<jobs, worker, reports, sent>>
      BY <1>10 DEF OnStop, workers
    <2>3. CASE disp.pc = "parked"
      <3>1. m \in Report /\ disp'.report = None /\ dropped' = dropped \cup {m}
        BY <1>10, <2>3 DEF OnStop, DispatchTo, TypeInv, HandInv
      <3>2. ASSUME NEW r \in Report PROVE PlaceOf(r)'
        <4>0. (OnWorker(r)' <=> OnWorker(r)) /\ (In(jobs.queue, r)' <=> In(jobs.queue, r))
          BY <2>1 DEF OnWorker, In
        <4>1. PlaceOf(r) /\ r # None
          BY <1>0 DEF PlaceInv, PlaceOf
        <4>2. CASE r = m
          BY <2>1, <4>0, <3>1, <4>1, <4>2 DEF PlaceOf
        <4>3. CASE r # m
          BY <2>1, <4>0, <3>1, <4>1, <4>3 DEF PlaceOf
        <4> QED
          BY <4>2, <4>3
      <3>3. OnceInv'
        BY <2>1, <3>1 DEF OnceInv, Distinct
      <3> QED
        BY <3>2, <3>3 DEF PlaceInv, PlaceOf
    <2>4. CASE disp.pc # "parked"
      BY <1>10, <2>1, <2>4, <1>g DEF OnStop
    <2> QED
      BY <2>3, <2>4
  <1> QED
    BY <1>u, <1>1, <1>2, <1>3, <1>4, <1>5, <1>6, <1>7, <1>8, <1>9, <1>10
       DEF Next, DispatchSelect, Work, ShutdownNext

(* The places of a report, kind by kind, and the report that is there. *)
LEMMA OncePlace == PlaceInv /\ OnceInv /\ TypeInv => EachReportOnce
  <1> SUFFICES ASSUME PlaceInv, OnceInv, TypeInv, NEW r \in 1 .. reports
               PROVE  \E p \in Places(r) : Places(r) = {p}
    BY DEF EachReportOnce
  <1>1. r \in Report /\ r # None /\ r <= reports
    BY AgentAssumption DEF TypeInv, TypeOK, Report, None
  <1>2. PlaceOf(r)
    BY <1>1 DEF PlaceInv
  <1>3. \A p : p \in Places(r) <=>
          \/ \E w \in Worker : worker[w].report = r /\ p = <<"worker", w>>
          \/ \E i \in DOMAIN jobs.queue : jobs.queue[i] = r /\ p = <<"channel", i>>
          \/ disp.report = r /\ p = <<"dispatcher", 0>>
          \/ r \in sent /\ p = <<"sent", 0>>
          \/ r \in dropped /\ p = <<"dropped", 0>>
    BY DEF Places
  <1>4. CASE OnWorker(r)
    <2>1. PICK w \in Worker : worker[w].report = r
      BY <1>4 DEF OnWorker
    <2>2. \A v \in Worker : worker[v].report = r => v = w
      BY <2>1, <1>1 DEF OnceInv
    <2>3. \A q : q \in Places(r) <=> q = <<"worker", w>>
      BY <1>2, <1>3, <1>4, <2>1, <2>2 DEF PlaceOf, In
    <2>4. Places(r) = {<<"worker", w>>}
      BY <2>3
    <2> QED
      BY <2>4
  <1>5. CASE In(jobs.queue, r)
    <2>1. PICK i \in DOMAIN jobs.queue : jobs.queue[i] = r
      BY <1>5 DEF In
    <2>2. \A j \in DOMAIN jobs.queue : jobs.queue[j] = r => j = i
      BY <2>1 DEF OnceInv, Distinct
    <2>3. \A q : q \in Places(r) <=> q = <<"channel", i>>
      BY <1>2, <1>3, <1>5, <2>1, <2>2 DEF PlaceOf, OnWorker
    <2>4. Places(r) = {<<"channel", i>>}
      BY <2>3
    <2> QED
      BY <2>4
  <1>6. CASE ~OnWorker(r) /\ ~In(jobs.queue, r)
    <2>1. \A q : q \in Places(r) <=>
            \/ disp.report = r /\ q = <<"dispatcher", 0>>
            \/ r \in sent /\ q = <<"sent", 0>>
            \/ r \in dropped /\ q = <<"dropped", 0>>
      BY <1>3, <1>6 DEF OnWorker, In
    <2>2. disp.report = r => Places(r) = {<<"dispatcher", 0>>}
      BY <1>2, <2>1 DEF PlaceOf
    <2>3. r \in sent => Places(r) = {<<"sent", 0>>}
      BY <1>2, <2>1 DEF PlaceOf
    <2>4. r \in dropped => Places(r) = {<<"dropped", 0>>}
      BY <1>2, <2>1 DEF PlaceOf
    <2>5. disp.report = r \/ r \in sent \/ r \in dropped
      BY <1>1, <1>2, <1>6 DEF PlaceOf
    <2> QED
      BY <2>2, <2>3, <2>4, <2>5
  <1> QED
    BY <1>4, <1>5, <1>6

(* No report is lost or repeated between the dispatcher, the channel, the  *)
(* workers and the stop, for any rate limit and any number of reports.     *)
THEOREM ReportsAreOnce == Spec => []EachReportOnce
<1>1. StartInv /\ TypeInv /\ [Next]_vars /\ PlaceInv /\ OnceInv => PlaceInv' /\ OnceInv'
  BY OnceStep
<1>2. QED
  BY <1>1, InitOnce, OncePlace, StopInvHolds, PTL DEF Spec
=============================================================================
