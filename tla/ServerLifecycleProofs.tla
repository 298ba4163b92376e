----------------------- MODULE ServerLifecycleProofs -----------------------
(***************************************************************************)
(* Theorems about the life of the server's process, for every set of       *)
(* requests and number of signals.                                         *)
(***************************************************************************)
EXTENDS ServerLifecycle, TLAPS

-----------------------------------------------------------------------------
(* Types.                                                                  *)

(* The process that has just been built is well typed. *)
LEMMA InitType == Init => TypeOK
  <1> SUFFICES ASSUME Init PROVE TypeOK
    OBVIOUS
  <1>1. 0 \in 0 .. MaxSignals /\ 0 \in 0 .. 1
    BY LifecycleAssumption
  <1>2. sig \in SignalHandler
    BY <1>1 DEF Init, SignalHandler
  <1> QED
    BY <1>2 DEF Init, TypeOK, Listener

(* The steps of the start and of the listener keep the types. *)
LEMMA StartType ==
    ASSUME TypeOK, Started \/ (\E h \in Hook : StartHook(h) \/ StartFails(h)) \/ Bind \/ ListenFails
    PROVE  TypeOK'
  <1>1. CASE Started
    BY <1>1 DEF Started, TypeOK, conf, store
  <1>2. ASSUME NEW h \in Hook, StartHook(h) PROVE TypeOK'
    <2>1. sig' \in SignalHandler
      <3>1. sig \in SignalHandler
        BY DEF TypeOK
      <3>2. CASE h = "signal"
        BY <1>2, <3>1, <3>2 DEF StartHook, SignalHandler
      <3>3. CASE h # "signal"
        BY <1>2, <3>1, <3>3 DEF StartHook
      <3> QED
        BY <3>2, <3>3
    <2>2. listener' \in [{"http", "grpc"} -> Listener]
      <3>1. CASE h = "http"
        BY <1>2, <3>1 DEF StartHook, TypeOK, Listener
      <3>2. CASE h = "grpc"
        BY <1>2, <3>2 DEF StartHook, TypeOK, Listener
      <3>3. CASE h \notin {"http", "grpc"}
        BY <1>2, <3>3 DEF StartHook, TypeOK
      <3> QED
        BY <3>1, <3>2, <3>3
    <2> QED
      BY <1>2, <2>1, <2>2 DEF StartHook, TypeOK, conf, store
  <1>3. ASSUME NEW h \in Hook, StartFails(h) PROVE TypeOK'
    BY <1>3 DEF StartFails, TypeOK, conf, store, Failure
  <1>4. CASE Bind
    BY <1>4 DEF Bind, TypeOK, Listener, conf, store
  <1>5. CASE ListenFails
    BY <1>5 DEF ListenFails, TypeOK, Listener, conf, store, Failure
  <1> QED
    BY <1>1, <1>2, <1>3, <1>4, <1>5

(* Requests, saves and signals keep the types. *)
LEMMA RunType ==
    ASSUME TypeOK,
           \/ PeriodicSave \/ WaiterReceives \/ WaiterPanics
           \/ \E r \in Request : Arrive(r) \/ Apply(r) \/ ApplyDropped(r) \/ Answer(r)
           \/ \E quit \in BOOLEAN : Signal(quit)
    PROVE  TypeOK'
  <1>1. CASE PeriodicSave
    BY <1>1 DEF PeriodicSave, TypeOK, conf
  <1>2. CASE WaiterReceives
    <2>1. sig' \in SignalHandler
      <3>1. sig \in SignalHandler
        BY DEF TypeOK
      <3>2. sig' = [notify |-> sig.notify, buffer |-> 0, closed |-> sig.closed,
                    waiter |-> "done", count |-> sig.count]
        BY <1>2, <3>1 DEF WaiterReceives, SignalHandler
      <3> QED
        BY <3>1, <3>2 DEF SignalHandler
    <2> QED
      BY <1>2, <2>1 DEF WaiterReceives, TypeOK, conf, store
  <1>3. CASE WaiterPanics
    BY <1>3 DEF WaiterPanics, TypeOK, conf, store
  <1>4. ASSUME NEW r \in Request, Arrive(r) \/ Apply(r) \/ ApplyDropped(r) \/ Answer(r) PROVE TypeOK'
    BY <1>4 DEF Arrive, Apply, ApplyDropped, Answer, RequestMoves, TypeOK, conf, store
  <1>5. ASSUME NEW quit \in BOOLEAN, Signal(quit) PROVE TypeOK'
    <2>1. sig' \in SignalHandler
      <3>1. sig \in SignalHandler
        BY DEF TypeOK
      <3>2. sig' = [notify |-> sig.notify, buffer |-> IF sig.notify THEN 1 ELSE sig.buffer,
                    closed |-> sig.closed, waiter |-> sig.waiter, count |-> sig.count + 1]
        BY <1>5, <3>1 DEF Signal, SignalHandler
      <3>3. sig.count + 1 \in 0 .. MaxSignals /\ sig.notify \in BOOLEAN
        BY <1>5, <3>1, LifecycleAssumption DEF Signal, SignalHandler
      <3> QED
        BY <3>1, <3>2, <3>3 DEF SignalHandler
    <2>2. asked' \in BOOLEAN
      BY <1>5 DEF Signal
    <2>3. phase' \in {"starting", "running", "stopping", "exited", "panicked", "killed"}
      BY <1>5 DEF Signal, TypeOK
    <2> QED
      BY <1>5, <2>1, <2>2, <2>3 DEF Signal, TypeOK, conf, store
  <1> QED
    BY <1>1, <1>2, <1>3, <1>4, <1>5

(* The steps of the stop keep the types. *)
LEMMA StopType == ASSUME TypeOK, StopStep PROVE TypeOK'
  <1>1. CASE BeginStop
    BY <1>1 DEF BeginStop, TypeOK, conf, store
  <1>2. CASE StopSignals
    <2>1. sig' \in SignalHandler
      <3>1. sig \in SignalHandler
        BY DEF TypeOK
      <3> QED
        BY <1>2, <3>1 DEF StopSignals, SignalHandler
    <2> QED
      BY <1>2, <2>1 DEF StopSignals, TypeOK, conf, store
  <1>3. CASE StopFile
    BY <1>3 DEF StopFile, TypeOK, conf, Failure
  <1>4. CASE ShutdownTimesOut
    BY <1>4 DEF ShutdownTimesOut, StopServer, TypeOK, Listener, conf, store, Failure
  <1>5. CASE StopExpires
    BY <1>5 DEF StopExpires, TypeOK, conf, store, Failure
  <1>6. CASE Exit
    BY <1>6 DEF Exit, TypeOK, conf, store
  <1>7. ASSUME NEW h \in Hook, BeginDrain(h) PROVE TypeOK'
    BY <1>7 DEF BeginDrain, TypeOK, Listener, conf, store
  <1>8. ASSUME NEW h \in Hook, Drained(h) PROVE TypeOK'
    BY <1>8 DEF Drained, StopServer, TypeOK, Listener, conf, store
  <1>9. ASSUME NEW h \in Hook, StopOther(h) PROVE TypeOK'
    <2>1. dbOpen' \in BOOLEAN
      BY <1>9 DEF StopOther
    <2> QED
      BY <1>9, <2>1 DEF StopOther, TypeOK, conf
  <1> QED
    BY <1>1, <1>2, <1>3, <1>4, <1>5, <1>6, <1>7, <1>8, <1>9 DEF StopStep

LEMMA StepType == TypeOK /\ [Next]_vars => TypeOK'
  <1>1. ASSUME TypeOK, UNCHANGED vars PROVE TypeOK'
    BY <1>1 DEF vars, conf, store, TypeOK
  <1> QED
    BY <1>1, StartType, RunType, StopType DEF Next, StartStep

(* The state of the process is well typed, whatever the requests and the   *)
(* signals.  (internal/handler/health.go:41, internal/server/server.go:65) *)
THEOREM TypeCorrect == Spec => []TypeOK
  BY InitType, StepType, PTL DEF Spec

-----------------------------------------------------------------------------
(* The signal handler.                                                     *)

(* Somebody has asked for the shutdown by another way than the closed      *)
(* channel: the HTTP server, or a signal that is in the channel or has     *)
(* reached the goroutine.                                                  *)
Announced == "listen" \in failed \/ sig.waiter = "done" \/ sig.buffer = 1

(* While the signal hook has not stopped, a shutdown that was asked for is *)
(* announced; the hook stops because of such a shutdown only, since a      *)
(* start that fails does so before it.                                     *)
SignalInv ==
    /\ phase = "running" => "signal" \in started
    /\ phase = "starting" /\ "signal" \in started => \A h \in Hook : Configured(h) => h \in started
    /\ phase = "starting" \/ "signal" \in started => sig.notify
    /\ phase = "starting" /\ "signal" \notin started => sig.waiter = "off"
    /\ asked /\ (phase = "starting" \/ "signal" \in started) => Announced
    /\ phase = "stopping" /\ "signal" \in started => asked
    /\ sig.closed => ~sig.notify /\ phase # "starting" /\ Announced
    /\ PanicOnlyUnsignalled

(* What the signal handler's steps do to its state. *)
LEMMA SigFacts ==
    ASSUME TypeOK
    PROVE  /\ WaiterReceives => sig'.waiter = "done" /\ sig'.notify = sig.notify
                                /\ sig'.closed = sig.closed
           /\ StopSignals => sig'.closed /\ ~sig'.notify /\ sig'.waiter = sig.waiter
                             /\ sig'.buffer = sig.buffer
           /\ \A quit \in BOOLEAN : Signal(quit) =>
                /\ sig'.buffer = IF sig.notify THEN 1 ELSE sig.buffer
                /\ sig'.notify = sig.notify /\ sig'.closed = sig.closed
                /\ sig'.waiter = sig.waiter
           /\ \A h \in Hook : StartHook(h) =>
                /\ sig'.buffer = sig.buffer /\ sig'.notify = sig.notify
                /\ sig'.closed = sig.closed
                /\ h # "signal" => sig'.waiter = sig.waiter
  <1>1. sig \in SignalHandler
    BY DEF TypeOK
  <1> QED
    BY <1>1 DEF WaiterReceives, StopSignals, Signal, StartHook, SignalHandler

LEMMA InitSignal == Init => SignalInv
  BY DEF Init, SignalInv, PanicOnlyUnsignalled

(* A step that leaves the handler, the request for the shutdown and the    *)
(* hooks alone. *)
LEMMA SignalKept ==
    ASSUME SignalInv, UNCHANGED <<conf, phase, started, sig, asked>>, failed \subseteq failed'
    PROVE  SignalInv'
  BY DEF SignalInv, PanicOnlyUnsignalled, Announced, Configured, conf

LEMMA SignalStep == TypeOK /\ SignalInv /\ [Next]_vars => SignalInv'
  <1> SUFFICES ASSUME TypeOK, SignalInv, [Next]_vars PROVE SignalInv'
    OBVIOUS
  <1>0. ASSUME UNCHANGED vars PROVE SignalInv'
    BY <1>0, SignalKept DEF vars, conf
  <1>1. CASE Started
    <2>1. Configured("signal") /\ "signal" \in Hook
      BY DEF Configured, Hook
    <2> QED
      BY <1>1, <2>1 DEF Started, SignalInv, PanicOnlyUnsignalled, Announced
  <1>2. ASSUME NEW h \in Hook, StartHook(h) PROVE SignalInv'
    <2>1. CASE h = "signal"
      <3>1. \A g \in Hook : g # h => Order[g] < Order[h]
        BY <2>1 DEF Hook, Order
      <3>2. (\A g \in Hook : Configured(g) => g \in started)'
        BY <1>2, <3>1 DEF StartHook, NextToStart, Configured, conf
      <3>3. sig.notify /\ ~sig.closed /\ sig.waiter = "off"
        BY <1>2, <2>1 DEF StartHook, NextToStart, SignalInv
      <3>4. asked => Announced'
        BY <1>2, <3>3, SigFacts DEF StartHook, NextToStart, SignalInv, Announced
      <3> QED
        BY <1>2, <3>2, <3>3, <3>4, SigFacts
           DEF StartHook, NextToStart, SignalInv, PanicOnlyUnsignalled
    <2>2. CASE h # "signal"
      <3>1. "signal" \notin started
        BY <1>2 DEF StartHook, NextToStart, SignalInv
      <3> QED
        BY <1>2, <2>2, <3>1, SigFacts
           DEF StartHook, NextToStart, SignalInv, PanicOnlyUnsignalled, Announced
    <2> QED
      BY <2>1, <2>2
  <1>3. ASSUME NEW h \in Hook, StartFails(h) PROVE SignalInv'
    <2>1. "signal" \notin started
      BY <1>3 DEF StartFails, NextToStart, SignalInv
    <2> QED
      BY <1>3, <2>1 DEF StartFails, NextToStart, SignalInv, PanicOnlyUnsignalled, Announced
  <1>4. CASE Bind \/ PeriodicSave
    BY <1>4, SignalKept DEF Bind, PeriodicSave
  <1>5. CASE ListenFails
    BY <1>5 DEF ListenFails, SignalInv, PanicOnlyUnsignalled, Announced, Configured, conf
  <1>6. ASSUME NEW r \in Request, Arrive(r) \/ Apply(r) \/ ApplyDropped(r) \/ Answer(r) PROVE SignalInv'
    BY <1>6, SignalKept DEF Arrive, Apply, ApplyDropped, Answer, RequestMoves
  <1>7. ASSUME NEW quit \in BOOLEAN, Signal(quit) PROVE SignalInv'
    <2>1. Announced => Announced'
      BY <1>7, SigFacts DEF Signal, Announced
    <2>2. sig.notify => Announced'
      BY <1>7, SigFacts DEF Announced
    <2>3. phase' = phase \/ (phase' = "killed" /\ ~sig.notify)
      BY <1>7 DEF Signal
    <2>4. asked' => asked \/ phase \in {"running", "stopping"}
      BY <1>7 DEF Signal
    <2>5. asked => asked'
      BY <1>7 DEF Signal
    <2> QED
      BY <1>7, <2>1, <2>2, <2>3, <2>4, <2>5, SigFacts
         DEF Signal, SignalInv, PanicOnlyUnsignalled, Configured, conf
  <1>8. CASE WaiterReceives
    <2>1. Announced'
      BY <1>8, SigFacts DEF Announced
    <2> QED
      BY <1>8, <2>1, SigFacts
         DEF WaiterReceives, SignalInv, PanicOnlyUnsignalled, Configured, conf
  <1>9. CASE WaiterPanics
    <2>1. "listen" \in failed
      BY <1>9 DEF WaiterPanics, SignalInv, Announced
    <2> QED
      BY <1>9, <2>1 DEF WaiterPanics, SignalInv, PanicOnlyUnsignalled, Announced
  <1>10. CASE BeginStop
    BY <1>10 DEF BeginStop, SignalInv, PanicOnlyUnsignalled, Announced
  <1>11. CASE StopSignals
    <2>1. Announced'
      BY <1>11, SigFacts DEF StopSignals, NextToStop, SignalInv, Announced
    <2> QED
      BY <1>11, <2>1, SigFacts DEF StopSignals, NextToStop, SignalInv, PanicOnlyUnsignalled
  <1>12. ASSUME phase = "stopping", phase' \in {"stopping", "exited"}, started' \subseteq started,
                UNCHANGED <<sig, asked>>, failed \subseteq failed'
         PROVE  SignalInv'
    BY <1>12 DEF SignalInv, PanicOnlyUnsignalled, Announced
  <1>13. CASE StopFile \/ StopExpires \/ Exit
    BY <1>12, <1>13 DEF StopFile, StopExpires, Exit, NextToStop
  <1>14. CASE ShutdownTimesOut \/ \E h \in Hook : BeginDrain(h) \/ Drained(h) \/ StopOther(h)
    BY <1>12, <1>14 DEF ShutdownTimesOut, BeginDrain, Drained, StopServer, StopOther, NextToStop
  <1> QED
    BY <1>0, <1>1, <1>2, <1>3, <1>4, <1>5, <1>6, <1>7, <1>8, <1>9, <1>10, <1>11, <1>13, <1>14
       DEF Next, StartStep, StopStep

(* The stop hook closes the channel under the waiting goroutine only when  *)
(* the HTTP server could not listen; a signal that asks for the shutdown   *)
(* is never overtaken by it.  (internal/handler/health.go:48)              *)
THEOREM SignalledStopDoesNotPanic == Spec => []PanicOnlyUnsignalled
<1>1. SignalInv => PanicOnlyUnsignalled
  BY DEF SignalInv
<1> QED
  BY <1>1, InitType, StepType, InitSignal, SignalStep, PTL DEF Spec

-----------------------------------------------------------------------------
(* What a stop keeps.                                                      *)

(* No hook has failed to stop so far, and fx has not given up. *)
Clean == failed \cap {"stop", "expired"} = {}

(* Requests are under way at a server only until it has stopped, and both  *)
(* servers stop before the storage does: after its last save, or after the *)
(* database was closed, no update can come.                                *)
KeepInv ==
    /\ \A s \in {"http", "grpc"} : listener[s] \in {"binding", "open", "deaf", "draining"} => s \in started
    /\ Clean => \A r \in Request : req[r] \in {"handling", "applied"} => via[r] \in started
    /\ ~dbOpen => phase # "starting" /\ "http" \notin started /\ "grpc" \notin started
    /\ storage # "db" \/ Clean =>
          \A r \in Request : req[r] \in {"applied", "acked"} => r \in stored \cup dropped
    /\ storage # "db" => dropped = {}
    /\ storage = "file" /\ "file" \notin started =>
          "http" \notin started /\ "grpc" \notin started /\ (Clean => stored \subseteq disk)
    /\ phase = "exited" => started = {} \/ "expired" \in failed

(* That is what graceful shutdown promises. *)
LEMMA KeepEnough == TypeOK /\ KeepInv => OrderlyStopKeepsAcked
  <1> SUFFICES ASSUME KeepInv, phase = "exited", Clean, storage # "memory", TypeOK
               PROVE  Acked \ dropped \subseteq Durable
    BY DEF OrderlyStopKeepsAcked, Clean
  <1> QED
    BY DEF KeepInv, Clean, Acked, Durable, TypeOK

LEMMA InitKeep == Init => KeepInv
  BY DEF Init, KeepInv

LEMMA KeepStep == TypeOK /\ KeepInv /\ [Next]_vars => KeepInv'
  <1> SUFFICES ASSUME TypeOK, KeepInv, [Next]_vars PROVE KeepInv'
    OBVIOUS
  <1>0. ASSUME UNCHANGED <<conf, started, listener, req, store>>, Clean' => Clean,
               phase' # "starting" \/ phase = "starting",
               phase' = "exited" => phase = "exited" \/ started = {} \/ "expired" \in failed',
               failed \subseteq failed'
        PROVE  KeepInv'
    BY <1>0 DEF KeepInv, conf, store, Clean
  <1>u. ASSUME UNCHANGED vars PROVE KeepInv'
    BY <1>u, <1>0 DEF vars, conf, store, Clean
  <1>1. CASE Started \/ WaiterReceives \/ WaiterPanics \/ BeginStop \/ StopExpires \/ Exit
    BY <1>0, <1>1 DEF Started, WaiterReceives, WaiterPanics, BeginStop, StopExpires, Exit, Clean
  <1>2. ASSUME NEW quit \in BOOLEAN, Signal(quit) PROVE KeepInv'
    BY <1>0, <1>2 DEF Signal, Clean
  <1>3. ASSUME NEW h \in Hook, StartFails(h) PROVE KeepInv'
    BY <1>0, <1>3 DEF StartFails, Clean
  <1>4. ASSUME NEW h \in Hook, StartHook(h) PROVE KeepInv'
    <2>1. h \in {"http", "grpc"} /\ storage = "file" => "file" \in started
      BY <1>4 DEF StartHook, NextToStart, Order, Hook, Configured
    <2>2. \A s \in {"http", "grpc"} : listener'[s] = listener[s] \/ s = h
      BY <1>4 DEF StartHook, TypeOK
    <2>3. phase = "starting" /\ phase' = "starting" /\ started' = started \cup {h}
      BY <1>4 DEF StartHook, NextToStart
    <2> QED
      BY <1>4, <2>1, <2>2, <2>3 DEF StartHook, KeepInv, Clean, conf, store
  <1>5. CASE Bind \/ ListenFails
    BY <1>5 DEF Bind, ListenFails, KeepInv, Clean, conf, store, TypeOK, Failure
  <1>6. ASSUME NEW r \in Request, Arrive(r) PROVE KeepInv'
    BY <1>6 DEF Arrive, RequestMoves, KeepInv, Clean, conf, store, TypeOK
  <1>7. ASSUME NEW r \in Request, Apply(r) PROVE KeepInv'
    <2>1. Clean => via[r] \in started /\ via[r] \in {"http", "grpc"}
      BY <1>7 DEF Apply, RequestMoves, KeepInv, TypeOK
    <2>2. Clean => dbOpen
      BY <2>1 DEF KeepInv
    <2>3. storage # "db" \/ Clean => stored' = stored \cup {r}
      BY <1>7, <2>2 DEF Apply
    <2>4. storage = "file" /\ Clean => "file" \in started
      BY <2>1 DEF KeepInv
    <2>5. stored \subseteq stored'
      BY <1>7 DEF Apply
    <2> QED
      BY <1>7, <2>3, <2>4, <2>5 DEF Apply, RequestMoves, KeepInv, Clean, conf, TypeOK
  <1>8. ASSUME NEW r \in Request, Answer(r) PROVE KeepInv'
    BY <1>8 DEF Answer, RequestMoves, KeepInv, Clean, conf, store, TypeOK
  <1>9. CASE PeriodicSave
    BY <1>9 DEF PeriodicSave, KeepInv, Clean, conf
  <1>10. CASE StopSignals
    BY <1>10 DEF StopSignals, NextToStop, KeepInv, Clean, conf, store, TypeOK
  <1>11. ASSUME NEW s \in Hook, BeginDrain(s) PROVE KeepInv'
    BY <1>11 DEF BeginDrain, NextToStop, KeepInv, Clean, conf, store, TypeOK
  <1>12. ASSUME NEW s \in Hook, Drained(s) PROVE KeepInv'
    <2>1. \A r \in Request : req[r] \in {"handling", "applied"} => via[r] # s
      BY <1>12 DEF Drained, Busy
    <2>2. started' = started \ {s} /\ phase' = "stopping" /\ failed' = failed
      BY <1>12 DEF Drained, StopServer, NextToStop
    <2> QED
      BY <1>12, <2>1, <2>2 DEF Drained, StopServer, NextToStop, KeepInv, Clean, conf, store, TypeOK
  <1>13. CASE ShutdownTimesOut
    BY <1>13 DEF ShutdownTimesOut, StopServer, NextToStop, KeepInv, Clean, conf, store, TypeOK
  <1>14. CASE StopFile
    <2>1. "http" \notin started /\ "grpc" \notin started
      BY <1>14 DEF StopFile, NextToStop, Order
    <2> QED
      BY <1>14, <2>1 DEF StopFile, NextToStop, KeepInv, Clean, conf, TypeOK
  <1>15. ASSUME NEW h \in Hook, StopOther(h) PROVE KeepInv'
    <2>1. "http" \notin started /\ "grpc" \notin started
      BY <1>15 DEF StopOther, NextToStop, Order
    <2> QED
      BY <1>15, <2>1 DEF StopOther, NextToStop, KeepInv, Clean, conf, TypeOK
  <1>16. ASSUME NEW r \in Request, ApplyDropped(r) PROVE KeepInv'
    BY <1>16 DEF ApplyDropped, RequestMoves, KeepInv, Clean, conf, TypeOK
  <1> QED
    BY <1>u, <1>1, <1>2, <1>3, <1>4, <1>5, <1>6, <1>7, <1>8, <1>9, <1>10, <1>11, <1>12, <1>13, <1>14,
       <1>15, <1>16 DEF Next, StartStep, StopStep

(* Graceful shutdown, for every storage, number of requests and way to     *)
(* come to an end: what was acknowledged is in the table or in the file,   *)
(* unless an open database had failed that very update.                    *)
(* (internal/server/server.go:64)                                          *)
THEOREM OrderlyStopIsSafe == Spec => []OrderlyStopKeepsAcked
<1>1. TypeOK /\ KeepInv => OrderlyStopKeepsAcked
  BY KeepEnough
<1> QED
  BY <1>1, InitType, StepType, InitKeep, KeepStep, PTL DEF Spec

=============================================================================
