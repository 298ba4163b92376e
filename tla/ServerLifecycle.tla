-------------------------- MODULE ServerLifecycle --------------------------
(***************************************************************************)
(* The life of the server's process, from the first hook fx starts to its  *)
(* exit (cmd/server/main.go).  The parts register their hooks while fx     *)
(* builds them, so the order is that of the dependencies: logger, database *)
(* or file, HTTP (internal/server), gRPC (internal/grpcserver), signals    *)
(* (internal/handler/health.go).  fx starts them in this order and stops   *)
(* them in the reverse one, within 15 seconds; a hook whose OnStart fails  *)
(* makes it stop those before.                                             *)
(*                                                                         *)
(* Requests run beside all this, and so do the goroutine that calls        *)
(* ListenAndServe and the one that waits for a signal.  FileStorage has    *)
(* the saves in detail; here a save writes what is stored at that moment.  *)
(***************************************************************************)
EXTENDS Naturals

CONSTANTS
    Request,      \* the update requests clients may send
    MaxSignals    \* bound on the signals sent to the process

ASSUME LifecycleAssumption == MaxSignals \in Nat

Hook  == {"logger", "db", "file", "http", "grpc", "signal"}
Order == [logger |-> 1, db |-> 2, file |-> 3, http |-> 4, grpc |-> 5, signal |-> 6]

VARIABLES
    storage,   \* which storage the configuration selects
    grpc,      \* whether a gRPC address is configured
    via,       \* how each request comes
    phase,     \* of the process
    started,   \* the hooks that have been started and not yet stopped
    listener,  \* the state of the two servers
    dbOpen,    \* sql.DB has not been closed
    sig,       \* the signal handler: see SignalHandler
    asked,     \* fx has been asked to shut down, by Shutdown or a signal
    failed,    \* what went wrong: see Failure
    req,       \* what has become of each request
    stored,    \* the requests whose metrics are in the table, or in memory
    disk,      \* those that are in the file
    dropped    \* history: those an open database has refused or lost

conf  == <<storage, grpc, via>>
store == <<dbOpen, stored, disk, dropped>>
vars  == <<conf, phase, started, listener, sig, asked, failed, req, store>>

(* notify: signal.Notify is in force; buffer: the signals sigChan holds;   *)
(* closed: sigChan is closed; waiter: the goroutine that receives from it. *)
(* History: count, the signals sent.                                       *)
SignalHandler == [notify : BOOLEAN, buffer : 0 .. 1, closed : BOOLEAN,
                  waiter : {"off", "waiting", "done"}, count : 0 .. MaxSignals]

(* off: not started; deaf: no connection is accepted any more, but those   *)
(* that are open bring requests.                                           *)
Listener == {"off", "binding", "open", "deaf", "draining", "closed"}

(* start: OnStart of a hook; listen: ListenAndServe; stop: OnStop of a     *)
(* hook, the HTTP server's after 5 seconds among them; expired: the 15     *)
(* seconds fx allows for the stop.                                         *)
Failure == {"start", "listen", "stop", "expired"}

(* Types; the channel of the signal handler holds at most one signal.      *)
TypeOK ==
    /\ storage \in {"db", "file", "memory"}
    /\ grpc \in BOOLEAN
    /\ via \in [Request -> {"http", "grpc"}]
    /\ phase \in {"starting", "running", "stopping", "exited", "panicked", "killed"}
    /\ started \subseteq Hook
    /\ listener \in [{"http", "grpc"} -> Listener]
    /\ dbOpen \in BOOLEAN
    /\ sig \in SignalHandler
    /\ asked \in BOOLEAN
    /\ failed \subseteq Failure
    /\ req \in [Request -> {"unsent", "handling", "applied", "acked"}]
    /\ stored \subseteq Request
    /\ disk \subseteq Request
    /\ dropped \subseteq Request

Alive    == phase \in {"starting", "running", "stopping"}
Acked    == {r \in Request : req[r] = "acked"}
Busy(s)  == {r \in Request : via[r] = s /\ req[r] \in {"handling", "applied"}}

Configured(h) ==
    CASE h \in {"db", "file"} -> storage = h
      [] h = "grpc"           -> grpc
      [] OTHER                -> TRUE

(* fx.New has built everything: no hook has run, and signal.Notify has.    *)
(* The file may hold metrics of an earlier process, which do not matter.   *)
Init ==
    /\ storage \in {"db", "file", "memory"}
    /\ grpc \in BOOLEAN
    /\ via \in [Request -> {"http", "grpc"}]
    /\ phase = "starting"
    /\ started = {}
    /\ listener = [s \in {"http", "grpc"} |-> "off"]
    /\ dbOpen = TRUE
    /\ sig = [notify |-> TRUE, buffer |-> 0, closed |-> FALSE, waiter |-> "off", count |-> 0]
    /\ asked = FALSE
    /\ failed = {}
    /\ req = [r \in Request |-> "unsent"]
    /\ stored = {}
    /\ disk = {}
    /\ dropped = {}

-----------------------------------------------------------------------------
(* The start.                                                              *)

NextToStart(h) ==
    /\ phase = "starting"
    /\ Configured(h) /\ h \notin started
    /\ \A g \in Hook : Order[g] < Order[h] /\ Configured(g) => g \in started

(* OnStart of the HTTP hook only starts the goroutine that will listen;    *)
(* that of the gRPC hook listens itself.                                   *)
StartHook(h) ==
    /\ NextToStart(h)
    /\ started' = started \cup {h}
    /\ listener' = CASE h = "http" -> [listener EXCEPT !["http"] = "binding"]
                     [] h = "grpc" -> [listener EXCEPT !["grpc"] = "open"]
                     [] OTHER      -> listener
    /\ sig' = IF h = "signal" THEN [sig EXCEPT !.waiter = "waiting"] ELSE sig
    /\ UNCHANGED <<conf, phase, asked, failed, req, store>>

(* The database cannot be reached or migrated, or the gRPC address is in   *)
(* use: fx rolls back.                                                     *)
StartFails(h) ==
    /\ NextToStart(h)
    /\ h \in {"db", "grpc"}
    /\ phase' = "stopping"
    /\ failed' = failed \cup {"start"}
    /\ UNCHANGED <<conf, started, listener, sig, asked, req, store>>

Started ==
    /\ phase = "starting"
    /\ \A h \in Hook : Configured(h) => h \in started
    /\ phase' = "running"
    /\ UNCHANGED <<conf, started, listener, sig, asked, failed, req, store>>

(* ListenAndServe.  Once Shutdown was called it returns ErrServerClosed.   *)
Bind ==
    /\ Alive
    /\ listener["http"] = "binding"
    /\ listener' = [listener EXCEPT !["http"] = "open"]
    /\ UNCHANGED <<conf, phase, started, sig, asked, failed, req, store>>

(* The address is in use or, later, a connection cannot be accepted.       *)
ListenFails ==
    /\ Alive
    /\ \/ /\ listener["http"] = "binding"
          /\ listener' = [listener EXCEPT !["http"] = "closed"]
       \/ /\ listener["http"] = "open"
          /\ listener' = [listener EXCEPT !["http"] = "deaf"]
    /\ failed' = failed \cup {"listen"}
    /\ asked' = TRUE
    /\ UNCHANGED <<conf, phase, started, sig, req, store>>

-----------------------------------------------------------------------------
(* Requests.                                                               *)

RequestMoves(r, from, to) ==
    /\ Alive
    /\ req[r] = from
    /\ req' = [req EXCEPT ![r] = to]
    /\ UNCHANGED <<conf, phase, started, listener, sig, asked, failed>>

Arrive(r) ==
    /\ listener[via[r]] \in {"open", "deaf"}
    /\ RequestMoves(r, "unsent", "handling")
    /\ UNCHANGED store

(* The handler updates the storage.  A database that has been closed       *)
(* stores nothing, and UpdateGauge and UpdateCounter do not say so.        *)
Apply(r) ==
    /\ RequestMoves(r, "handling", "applied")
    /\ stored' = IF storage = "db" /\ ~dbOpen THEN stored ELSE stored \cup {r}
    /\ UNCHANGED <<dbOpen, disk, dropped>>

(* Nor do they say that an open database has failed: the connection was    *)
(* lost and all attempts used up, or the sum does not fit into a BIGINT.   *)
ApplyDropped(r) ==
    /\ storage = "db" /\ dbOpen
    /\ RequestMoves(r, "handling", "applied")
    /\ dropped' = dropped \cup {r}
    /\ UNCHANGED <<dbOpen, stored, disk>>

Answer(r) ==
    /\ RequestMoves(r, "applied", "acked")
    /\ UNCHANGED store

PeriodicSave ==
    /\ Alive
    /\ "file" \in started
    /\ disk' = stored
    /\ UNCHANGED <<conf, phase, started, listener, sig, asked, failed, req, dbOpen, stored, dropped>>

-----------------------------------------------------------------------------
(* Signals.                                                                *)

(* Mutant of Signal: the channel takes any number of signals. *)
SignalQueued(quit) ==
    /\ Alive
    /\ sig.count < MaxSignals
    /\ sig' = [sig EXCEPT !.count = @ + 1, !.buffer = IF sig.notify THEN @ + 1 ELSE @]
    /\ asked' = (asked \/ (~quit /\ phase \in {"running", "stopping"}))
    /\ phase' = IF quit /\ ~sig.notify THEN "killed" ELSE phase
    /\ UNCHANGED <<conf, started, listener, failed, req, store>>

(* Mutant of Signal: the handler is registered for SIGQUIT only. *)
SignalQuitOnly(quit) ==
    /\ Alive
    /\ sig.count < MaxSignals
    /\ sig' = [sig EXCEPT !.count = @ + 1, !.buffer = IF sig.notify /\ quit THEN 1 ELSE @]
    /\ asked' = (asked \/ (~quit /\ phase \in {"running", "stopping"}))
    /\ phase' = IF quit /\ ~sig.notify THEN "killed" ELSE phase
    /\ UNCHANGED <<conf, started, listener, failed, req, store>>

(* The channel has room for one signal; one that finds it full is dropped. *)
(* SIGINT and SIGTERM go to the channel of the signal handler and, once    *)
(* fx waits for the end, to the channel of fx, both under one lock of      *)
(* package os/signal.  SIGQUIT goes to the former only; after signal.Stop  *)
(* nobody asks for it, and it ends the process.                            *)
Signal(quit) ==
    /\ Alive
    /\ sig.count < MaxSignals
    /\ sig' = [sig EXCEPT !.count = @ + 1, !.buffer = IF sig.notify THEN 1 ELSE @]
    /\ asked' = (asked \/ (~quit /\ phase \in {"running", "stopping"}))
    /\ phase' = IF quit /\ ~sig.notify THEN "killed" ELSE phase
    /\ UNCHANGED <<conf, started, listener, failed, req, store>>

(* Mutant of WaiterReceives: Shutdown is not called. *)
WaiterForgets ==
    /\ Alive
    /\ sig.waiter = "waiting" /\ sig.buffer = 1
    /\ sig' = [sig EXCEPT !.waiter = "done", !.buffer = 0]
    /\ UNCHANGED <<conf, phase, started, listener, asked, failed, req, store>>

WaiterReceives ==
    /\ Alive
    /\ sig.waiter = "waiting" /\ sig.buffer = 1
    /\ sig' = [sig EXCEPT !.waiter = "done", !.buffer = 0]
    /\ asked' = TRUE
    /\ UNCHANGED <<conf, phase, started, listener, failed, req, store>>

(* The channel is closed and empty: the receive yields a nil signal, whose *)
(* String method cannot be called.                                         *)
WaiterPanics ==
    /\ Alive
    /\ sig.waiter = "waiting" /\ sig.closed /\ sig.buffer = 0
    /\ phase' = "panicked"
    /\ UNCHANGED <<conf, started, listener, sig, asked, failed, req, store>>

-----------------------------------------------------------------------------
(* The stop.                                                               *)

BeginStop ==
    /\ phase = "running"
    /\ asked
    /\ phase' = "stopping"
    /\ UNCHANGED <<conf, started, listener, sig, asked, failed, req, store>>

NextToStop(h) ==
    /\ phase = "stopping"
    /\ h \in started
    /\ \A g \in started : Order[g] <= Order[h]

StopSignals ==
    /\ NextToStop("signal")
    /\ started' = started \ {"signal"}
    /\ sig' = [sig EXCEPT !.notify = FALSE, !.closed = TRUE]
    /\ UNCHANGED <<conf, phase, listener, asked, failed, req, store>>

(* GracefulStop and Shutdown first stop listening. *)
BeginDrain(s) ==
    /\ NextToStop(s)
    /\ s \in {"http", "grpc"}
    /\ listener[s] \in {"binding", "open", "deaf", "closed"}
    /\ listener' = [listener EXCEPT ![s] = "draining"]
    /\ UNCHANGED <<conf, phase, started, sig, asked, failed, req, store>>

StopServer(s, why) ==
    /\ NextToStop(s)
    /\ listener[s] = "draining"
    /\ listener' = [listener EXCEPT ![s] = "closed"]
    /\ started' = started \ {s}
    /\ failed' = failed \cup why
    /\ UNCHANGED <<conf, phase, sig, asked, req, store>>

(* Mutant of Drained: the requests under way are not waited for. *)
DrainedAtOnce(s) ==
    /\ s \in {"http", "grpc"}
    /\ StopServer(s, {})

(* No request of this server is left. *)
Drained(s) ==
    /\ s \in {"http", "grpc"}
    /\ Busy(s) = {}
    /\ StopServer(s, {})

(* 5 seconds are over.  GracefulStop has no such limit. *)
ShutdownTimesOut ==
    /\ Busy("http") # {}
    /\ StopServer("http", {"stop"})

(* The final save. *)
StopFile ==
    /\ NextToStop("file")
    /\ started' = started \ {"file"}
    /\ \/ disk' = stored /\ UNCHANGED failed
       \/ disk' = disk   /\ failed' = failed \cup {"stop"}
    /\ UNCHANGED <<conf, phase, listener, sig, asked, req, dbOpen, stored, dropped>>

StopOther(h) ==
    /\ NextToStop(h)
    /\ h \in {"db", "logger"}
    /\ started' = started \ {h}
    /\ dbOpen' = (dbOpen /\ h # "db")
    /\ UNCHANGED <<conf, phase, listener, sig, asked, failed, req, stored, disk, dropped>>

(* 15 seconds are over: fx gives up, and the process ends. *)
StopExpires ==
    /\ phase = "stopping"
    /\ started # {}
    /\ phase' = "exited"
    /\ failed' = failed \cup {"expired"}
    /\ UNCHANGED <<conf, started, listener, sig, asked, req, store>>

Exit ==
    /\ phase = "stopping"
    /\ started = {}
    /\ phase' = "exited"
    /\ UNCHANGED <<conf, started, listener, sig, asked, failed, req, store>>

StopStep ==
    \/ BeginStop \/ StopSignals \/ StopFile \/ ShutdownTimesOut \/ StopExpires \/ Exit
    \/ \E h \in Hook : BeginDrain(h) \/ Drained(h) \/ StopOther(h)

StartStep == Started \/ \E h \in Hook : StartHook(h)

Next ==
    \/ StartStep \/ StopStep
    \/ \E h \in Hook : StartFails(h)
    \/ Bind \/ ListenFails \/ PeriodicSave
    \/ \E r \in Request : Arrive(r) \/ Apply(r) \/ ApplyDropped(r) \/ Answer(r)
    \/ \E quit \in BOOLEAN : Signal(quit)
    \/ WaiterReceives \/ WaiterPanics

Spec == Init /\ [][Next]_vars

(* fx runs its hooks, its timers fire, and goroutines that can run do.     *)
(* Nothing is assumed of requests, of the listener or of who sends         *)
(* signals.                                                                *)
FairSpec == Spec /\ WF_vars(StartStep) /\ WF_vars(StopStep) /\ WF_vars(WaiterReceives)

-----------------------------------------------------------------------------
Durable == IF storage = "db" THEN stored ELSE disk

(* Graceful shutdown: when the process has ended by itself, with no stop   *)
(* hook in error (the HTTP server's when it gives up on its handlers) and  *)
(* within fx's time, every update that was acknowledged is in the table or *)
(* in the file, unless the database itself failed it while it was open:    *)
(* the stop loses none.  This includes a start that was rolled back after  *)
(* the HTTP server had served requests, and updates that come while the    *)
(* servers are drained.  (internal/server/server.go:64,                    *)
(* internal/repository/filestorage.go:69, config/db/db.go:64)              *)
OrderlyStopKeepsAcked ==
    /\ phase = "exited"
    /\ failed \cap {"stop", "expired"} = {}
    /\ storage # "memory"
    => Acked \ dropped \subseteq Durable

(* The goroutine of the signal handler meets the closed channel only when  *)
(* the shutdown was asked for by the HTTP server, which could not listen   *)
(* or accept: a shutdown that a signal has asked for finds the signal in   *)
(* the channel, also when fx acts on it before the goroutine does.         *)
(* (internal/handler/health.go:47)                                         *)
PanicOnlyUnsignalled == phase = "panicked" => "listen" \in failed

(* A shutdown never ends in a panic.  The code does not keep this: see the *)
(* findings.  (internal/handler/health.go:39)                              *)
NeverPanics == phase # "panicked"

(* Whoever sends the process a signal it handles sees it end, also when a  *)
(* request never ends and when the signal comes while the hooks are still  *)
(* being started.  (internal/handler/health.go:47)                         *)
SignalEndsServer == sig.count > 0 ~> ~Alive

=============================================================================
