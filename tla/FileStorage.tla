---------------------------- MODULE FileStorage ----------------------------
(***************************************************************************)
(* The file-backed storage of the metrics server                           *)
(* (internal/repository/filestorage.go): a MemStorage that request         *)
(* goroutines update, and saveToFile, which the request goroutines         *)
(* themselves (StoreInterval = 0), the periodic saver and the stop hook    *)
(* run with no lock between them.                                          *)
(*                                                                         *)
(* Every access to the maps is a critical section of MemStorage.mu and one *)
(* step here, except UpdateBatch, which holds mu for a step per metric.    *)
(* saveToFile is a step per system call.  The disk keeps two directory     *)
(* entries (filePath and filePath.tmp) that point to inodes: os.Create     *)
(* truncates the inode the tmp name has, whoever else has it open.         *)
(*                                                                         *)
(* A crash kills the process, not the machine: what was written stays.     *)
(***************************************************************************)
EXTENDS MetricsStore, Sequences

CONSTANTS
    Writer,         \* goroutines that serve update requests
    Ticker,         \* the periodic saver
    Stopper,        \* the OnStop hook
    SyncWrite,      \* cfg.StoreInterval == 0
    Restore,        \* cfg.Restore
    StopTimesOut,   \* the stop context may expire before the saver stops
    LateWriters,    \* requests may still run when the storage stops
    CanCrash,       \* the process may be killed
    Delta,          \* the increments requests carry
    Batch,          \* the metric lists of batch requests
    Inode, NoInode,
    MaxUpdates,     \* bound on the updates a store has seen
    MaxFaults       \* bound on the system calls that fail

Saver == Writer \cup {Ticker, Stopper}
NoOne == NoInode    \* mu is free

ASSUME FileAssumption ==
    /\ Ticker \notin Writer /\ Stopper \notin Writer /\ Ticker # Stopper
    /\ {SyncWrite, Restore, StopTimesOut, LateWriters, CanCrash} \subseteq BOOLEAN
    /\ Delta \subseteq Counter
    /\ Batch \subseteq Seq(Metric)
    /\ Inode \subseteq Nat
    /\ NoInode \notin Inode \cup Saver
    /\ MaxUpdates \in Nat /\ MaxFaults \in Nat

VARIABLES
    mem,      \* the MemStorage; while the process is down, what it last held
    mu,       \* the writer that holds MemStorage.mu across steps, or NoOne
    ver,      \* history: how many updates mem has seen
    phase,    \* of the process: see Phase
    clean,    \* history: the last run ended with a final save that succeeded
    ticker,   \* "off", "running" or "exited"
    saver,    \* what each goroutine is doing: see SaverState
    dir,      \* the inodes of filePath (main) and filePath.tmp (tmp)
    data,     \* the content of each inode
    faults    \* how many system calls have failed

vars == <<mem, mu, ver, phase, clean, ticker, saver, dir, data, faults>>
disk == <<dir, data>>

Phase == {"down", "up", "stopping", "final", "exiting", "failed"}

(* What an inode holds: a complete JSON list, with the number of updates   *)
(* it reflects, or a Torn one that does not decode (empty or cut off).     *)
Content == [intact : BOOLEAN, ver : Nat, list : SUBSET Metric]
Torn    == [intact |-> FALSE, ver |-> 0, list |-> {}]

(* pc: where in its update or in saveToFile the goroutine is; todo: what   *)
(* is left of a batch; snap: the list to be saved; fd: the file it has     *)
(* open for writing.  History: upd, the version its update made; alone, no *)
(* other goroutine was active at any time since the update began.          *)
SaverState == [pc    : {"idle", "batch", "updated", "create", "write", "rename"},
               todo  : Seq(Metric),
               snap  : Content,
               fd    : Inode \cup {NoInode},
               upd   : Nat,
               alone : BOOLEAN]
Idle == [pc |-> "idle", todo |-> <<>>, snap |-> Torn, fd |-> NoInode,
         upd |-> 0, alone |-> TRUE]

TypeOK ==
    /\ mem \in Store
    /\ mu \in Writer \cup {NoOne}
    /\ ver \in Nat
    /\ phase \in Phase
    /\ clean \in BOOLEAN
    /\ ticker \in {"off", "running", "exited"}
    /\ saver \in [Saver -> SaverState]
    /\ dir \in [main : Inode \cup {NoInode}, tmp : Inode \cup {NoInode}]
    /\ data \in [Inode -> Content]
    /\ faults \in Nat

Init ==
    /\ mem = NewMemStorage
    /\ mu = NoOne
    /\ ver = 0
    /\ phase = "down"
    /\ clean = FALSE
    /\ ticker = "off"
    /\ saver = [s \in Saver |-> Idle]
    /\ dir = [main |-> NoInode, tmp |-> NoInode]
    /\ data = [i \in Inode |-> Torn]
    /\ faults = 0

-----------------------------------------------------------------------------
Running == phase \in {"up", "stopping", "final", "exiting"}
Active  == {s \in Saver : saver[s].pc # "idle"}
Serving == phase = "up" \/ (LateWriters /\ Running)

(* The content of filePath, when there is such a file. *)
MainExists == dir.main # NoInode
Main       == data[dir.main]

(* Goroutine s becomes active in state r. *)
Enter(s, r) ==
    saver' = [t \in Saver |->
                IF t = s THEN [r EXCEPT !.alone = (Active = {})]
                ELSE IF t \in Active THEN [saver[t] EXCEPT !.alone = FALSE]
                ELSE saver[t]]

Goto(s, pc) == saver' = [saver EXCEPT ![s].pc = pc]

(* GetAllMetrics, as saveToFile calls it. *)
Snapshot == [intact |-> TRUE, ver |-> ver, list |-> GetAllMetrics(mem)]

-----------------------------------------------------------------------------
(* Updates: memory first, then saveToFile if writes are synchronous.       *)

(* Mutant of Update: the list is taken before the store is updated. *)
SaveBeforeUpdate(w, ms) ==
    /\ Serving
    /\ saver[w].pc = "idle"
    /\ mu = NoOne
    /\ ver < MaxUpdates
    /\ mem' = ms
    /\ ver' = ver + 1
    /\ IF SyncWrite
         THEN Enter(w, [Idle EXCEPT !.pc = "create", !.snap = Snapshot, !.upd = ver + 1])
         ELSE UNCHANGED saver
    /\ UNCHANGED <<mu, phase, clean, ticker, disk, faults>>

Update(w, ms) ==
    /\ Serving
    /\ saver[w].pc = "idle"
    /\ mu = NoOne
    /\ ver < MaxUpdates
    /\ mem' = ms
    /\ ver' = ver + 1
    /\ IF SyncWrite THEN Enter(w, [Idle EXCEPT !.pc = "updated", !.upd = ver + 1])
                    ELSE UNCHANGED saver
    /\ UNCHANGED <<mu, phase, clean, ticker, disk, faults>>

UpdateGauge(w)   == \E i \in Id, v \in Value : Update(w, SetGauge(mem, i, v))
UpdateCounter(w) == \E i \in Id, d \in Delta : Update(w, AddCounter(mem, i, d))

(* UpdateBatch returns at once on an empty list, and otherwise takes mu.   *)
UpdateBatch(w) ==
    /\ Serving
    /\ saver[w].pc = "idle"
    /\ mu = NoOne
    /\ ver < MaxUpdates
    /\ \E b \in Batch \ {<<>>} :
          Enter(w, [Idle EXCEPT !.pc = "batch", !.todo = b, !.upd = ver + 1])
    /\ mu' = w
    /\ ver' = ver + 1
    /\ UNCHANGED <<mem, phase, clean, ticker, disk, faults>>

BatchStep(w) ==
    /\ saver[w].pc = "batch"
    /\ saver[w].todo # <<>>
    /\ mem' = ApplyMetric(mem, Head(saver[w].todo))
    /\ saver' = [saver EXCEPT ![w].todo = Tail(@)]
    /\ UNCHANGED <<mu, ver, phase, clean, ticker, disk, faults>>

BatchEnd(w) ==
    /\ saver[w].pc = "batch"
    /\ saver[w].todo = <<>>
    /\ mu' = NoOne
    /\ IF SyncWrite THEN Goto(w, "updated")
                    ELSE saver' = [saver EXCEPT ![w] = Idle]
    /\ UNCHANGED <<mem, ver, phase, clean, ticker, disk, faults>>

-----------------------------------------------------------------------------
(* saveToFile.                                                             *)

(* Mutant of TakeSnapshot: the maps are read without the lock. *)
TakeSnapshotUnlocked(w) ==
    /\ saver[w].pc = "updated"
    /\ saver' = [saver EXCEPT ![w].pc = "create", ![w].snap = Snapshot]
    /\ UNCHANGED <<mem, mu, ver, phase, clean, ticker, disk, faults>>

TakeSnapshot(w) ==
    /\ saver[w].pc = "updated"
    /\ mu = NoOne
    /\ saver' = [saver EXCEPT ![w].pc = "create", ![w].snap = Snapshot]
    /\ UNCHANGED <<mem, mu, ver, phase, clean, ticker, disk, faults>>

(* saveToFile returns to its caller; OnStop returns what it returned. *)
Return(s, ok) ==
    /\ saver' = [saver EXCEPT ![s] = Idle]
    /\ IF s = Stopper THEN phase' = "exiting" /\ clean' = ok
                      ELSE UNCHANGED <<phase, clean>>

InUse == {dir.main, dir.tmp} \cup {saver[s].fd : s \in Saver}
Fresh == {i \in Inode \ InUse : \A j \in Inode \ InUse : i <= j}

(* Mutant of Create: the list is written to filePath itself. *)
CreateInPlace(s) ==
    /\ saver[s].pc = "create"
    /\ \E i \in IF dir.main = NoInode THEN Fresh ELSE {dir.main} :
          /\ dir' = [dir EXCEPT !.main = i]
          /\ data' = [data EXCEPT ![i] = Torn]
          /\ saver' = [saver EXCEPT ![s].pc = "write", ![s].fd = i]
    /\ UNCHANGED <<mem, mu, ver, phase, clean, ticker, faults>>

(* os.Create: truncates an existing tmp, else makes a new inode for it.    *)
Create(s) ==
    /\ saver[s].pc = "create"
    /\ \E i \in IF dir.tmp = NoInode THEN Fresh ELSE {dir.tmp} :
          /\ dir' = [dir EXCEPT !.tmp = i]
          /\ data' = [data EXCEPT ![i] = Torn]
          /\ saver' = [saver EXCEPT ![s].pc = "write", ![s].fd = i]
    /\ UNCHANGED <<mem, mu, ver, phase, clean, ticker, faults>>

(* Mutant of Encode: what was encoded stays in a buffer nobody flushes. *)
EncodeUnflushed(s) ==
    /\ saver[s].pc = "write"
    /\ Encodable(saver[s].snap.list)
    /\ saver' = [saver EXCEPT ![s].pc = "rename", ![s].fd = NoInode]
    /\ UNCHANGED <<mem, mu, ver, phase, clean, ticker, disk, faults>>

(* Encode writes the whole list with one write call through its own file   *)
(* offset 0, so the last of two writers of an inode wins; then Close.      *)
Encode(s) ==
    /\ saver[s].pc = "write"
    /\ Encodable(saver[s].snap.list)
    /\ data' = [data EXCEPT ![saver[s].fd] = saver[s].snap]
    /\ saver' = [saver EXCEPT ![s].pc = "rename", ![s].fd = NoInode]
    /\ UNCHANGED <<mem, mu, ver, phase, clean, ticker, dir, faults>>

(* Mutant of EncodeFails: the error is dropped and the rename goes ahead. *)
EncodeErrorDropped(s) ==
    /\ saver[s].pc = "write"
    /\ ~Encodable(saver[s].snap.list)
    /\ Goto(s, "rename")
    /\ UNCHANGED <<mem, mu, ver, phase, clean, ticker, disk, faults>>

EncodeFails(s) ==
    /\ saver[s].pc = "write"
    /\ ~Encodable(saver[s].snap.list)
    /\ Return(s, FALSE)
    /\ UNCHANGED <<mem, mu, ver, ticker, disk, faults>>

(* os.Rename moves whatever inode the tmp name has by now. *)
Rename(s) ==
    /\ saver[s].pc = "rename"
    /\ dir.tmp # NoInode
    /\ dir' = [main |-> dir.tmp, tmp |-> NoInode]
    /\ Return(s, TRUE)
    /\ UNCHANGED <<mem, mu, ver, ticker, data, faults>>

(* Another saver has renamed the tmp file already: ENOENT. *)
RenameFails(s) ==
    /\ saver[s].pc = "rename"
    /\ dir.tmp = NoInode
    /\ Return(s, FALSE)
    /\ UNCHANGED <<mem, mu, ver, ticker, disk, faults>>

(* Mutant of Fault: an error ends the periodic saver's loop. *)
FaultEndsSaver(s) ==
    /\ saver[s].pc \in {"create", "write", "rename"}
    /\ faults < MaxFaults
    /\ faults' = faults + 1
    /\ data' = IF saver[s].pc = "write" THEN [data EXCEPT ![saver[s].fd] = Torn]
                                        ELSE data
    /\ Return(s, FALSE)
    /\ ticker' = IF s = Ticker THEN "exited" ELSE ticker
    /\ UNCHANGED <<mem, mu, ver, dir>>

(* MkdirAll, Create, Write, Close or Rename fails (a full disk, say); a    *)
(* failed Write leaves part of the list behind.                            *)
Fault(s) ==
    /\ saver[s].pc \in {"create", "write", "rename"}
    /\ faults < MaxFaults
    /\ faults' = faults + 1
    /\ data' = IF saver[s].pc = "write" THEN [data EXCEPT ![saver[s].fd] = Torn]
                                        ELSE data
    /\ Return(s, FALSE)
    /\ UNCHANGED <<mem, mu, ver, ticker, dir>>

-----------------------------------------------------------------------------
(* The life of the process.                                                *)

(* NewFileStorage: a missing file is no error, one that does not decode    *)
(* aborts the start.  OnStart starts the periodic saver if there is one.   *)
Start ==
    /\ phase = "down"
    /\ IF Restore /\ MainExists
         THEN IF Main.intact
                THEN phase' = "up" /\ mem' = LoadList(Main.list) /\ ver' = Main.ver
                ELSE phase' = "failed" /\ UNCHANGED <<mem, ver>>
         ELSE phase' = "up" /\ mem' = NewMemStorage /\ ver' = 0
    /\ ticker' = IF SyncWrite \/ phase' = "failed" THEN "off" ELSE "running"
    /\ clean' = FALSE
    /\ UNCHANGED <<mu, saver, disk, faults>>

(* Mutant of PeriodicSave: the maps are read without the lock. *)
PeriodicSaveUnlocked ==
    /\ ticker = "running"
    /\ Running
    /\ saver[Ticker].pc = "idle"
    /\ Enter(Ticker, [Idle EXCEPT !.pc = "create", !.snap = Snapshot])
    /\ UNCHANGED <<mem, mu, ver, phase, clean, ticker, disk, faults>>

(* A tick of the interval: the select may still take it once stopCh is     *)
(* closed.  The saver takes its snapshot.                                  *)
PeriodicSave ==
    /\ ticker = "running"
    /\ Running
    /\ saver[Ticker].pc = "idle"
    /\ mu = NoOne
    /\ Enter(Ticker, [Idle EXCEPT !.pc = "create", !.snap = Snapshot])
    /\ UNCHANGED <<mem, mu, ver, phase, clean, ticker, disk, faults>>

(* OnStop closes stopCh, once fx has stopped the servers, which have       *)
(* drained their requests unless LateWriters.                              *)
Stop ==
    /\ phase = "up"
    /\ LateWriters \/ \A w \in Writer : saver[w].pc = "idle"
    /\ phase' = "stopping"
    /\ UNCHANGED <<mem, mu, ver, clean, ticker, saver, disk, faults>>

(* Mutant of TickerExit: stopCh is noticed only while requests are served. *)
TickerMissesStop ==
    /\ ticker = "running"
    /\ phase = "up"
    /\ saver[Ticker].pc = "idle"
    /\ ticker' = "exited"
    /\ UNCHANGED <<mem, mu, ver, phase, clean, saver, disk, faults>>

TickerExit ==
    /\ ticker = "running"
    /\ phase \in {"stopping", "final", "exiting"}
    /\ saver[Ticker].pc = "idle"
    /\ ticker' = "exited"
    /\ UNCHANGED <<mem, mu, ver, phase, clean, saver, disk, faults>>

(* Mutant of FinalSave: OnStop does not wait for the periodic saver. *)
FinalSaveAtOnce ==
    /\ phase = "stopping"
    /\ mu = NoOne
    /\ phase' = "final"
    /\ Enter(Stopper, [Idle EXCEPT !.pc = "create", !.snap = Snapshot])
    /\ UNCHANGED <<mem, mu, ver, clean, ticker, disk, faults>>

(* wg.Wait has returned, or the stop context is done: the final save.      *)
FinalSave ==
    /\ phase = "stopping"
    /\ ticker # "running" \/ StopTimesOut
    /\ mu = NoOne
    /\ phase' = "final"
    /\ Enter(Stopper, [Idle EXCEPT !.pc = "create", !.snap = Snapshot])
    /\ UNCHANGED <<mem, mu, ver, clean, ticker, disk, faults>>

(* The process ends, and with it every goroutine still running. *)
Down ==
    /\ phase' = "down"
    /\ mu' = NoOne
    /\ ticker' = "off"
    /\ saver' = [s \in Saver |-> Idle]
    /\ UNCHANGED <<mem, ver, disk, faults>>

Exit == phase = "exiting" /\ Down /\ UNCHANGED clean

Crash == CanCrash /\ Running /\ Down /\ clean' = FALSE

-----------------------------------------------------------------------------
SaveStep(s) ==
    \/ Create(s)
    \/ Encode(s)
    \/ EncodeFails(s)
    \/ Rename(s)
    \/ RenameFails(s)
    \/ Fault(s)

WriterStep(w) ==
    \/ UpdateGauge(w)
    \/ UpdateCounter(w)
    \/ UpdateBatch(w)
    \/ BatchStep(w)
    \/ BatchEnd(w)
    \/ TakeSnapshot(w)

Next ==
    \/ \E w \in Writer : WriterStep(w)
    \/ \E s \in Saver : SaveStep(s)
    \/ Start
    \/ PeriodicSave
    \/ Stop
    \/ TickerExit
    \/ FinalSave
    \/ Exit
    \/ Crash

(* System calls return, goroutines that hold or may take mu are scheduled, *)
(* the interval ticks, and fx runs its hooks to the end.  Go's select      *)
(* chooses at random among the ready cases, so the saver does not take     *)
(* ticks for ever once stopCh is closed: strong fairness.                  *)
Fairness ==
    /\ \A s \in Saver : WF_vars(SaveStep(s))
    /\ \A w \in Writer : WF_vars(BatchStep(w) \/ BatchEnd(w))
    /\ SF_vars(PeriodicSave)
    /\ SF_vars(TickerExit)
    /\ SF_vars(FinalSave)
    /\ WF_vars(Exit)

Spec     == Init /\ [][Next]_vars
FairSpec == Spec /\ Fairness

-----------------------------------------------------------------------------
(* Properties.                                                             *)

(* In periodic mode a reader of filePath (the next start, above all) never *)
(* finds an empty or cut off file, whatever crashes, failing system calls  *)
(* or gauges without a JSON form happen: write-tmp-then-rename does its    *)
(* job when savers do not overlap.                                         *)
MainIntact ==
    ~SyncWrite /\ ~StopTimesOut => (MainExists => Main.intact)

(* What filePath holds is what the store held at some moment: it reflects  *)
(* no more updates than the store has seen, and if it reflects as many, it *)
(* is what GetAllMetrics returns now.  No half-applied batch gets there.   *)
FileIsSnapshot ==
    Restore /\ phase \in {"up", "stopping", "final", "exiting"}
            /\ MainExists /\ Main.intact =>
        /\ Main.ver <= ver
        /\ Main.ver = ver /\ mu = NoOne => Main.list = GetAllMetrics(mem)

(* In periodic mode no save puts an older list over a newer one: the final *)
(* save cannot be overtaken by a periodic one that started before it.      *)
MainNeverOlder ==
    [][~SyncWrite /\ ~StopTimesOut /\ Restore /\ MainExists /\ Main.intact
         => MainExists' /\ Main'.ver >= Main.ver]_vars

(* A start after a stop whose final save succeeded, with the requests      *)
(* drained before it, finds every counter, and every gauge whose name no   *)
(* counter shares, as they were.                                           *)
CleanRestart ==
    [][ Restore /\ ~LateWriters /\ ~StopTimesOut
          /\ clean /\ phase = "down" /\ phase' # "down" =>
        /\ phase' = "up"
        /\ \A i \in Id :
              /\ mem'.counters[i] = mem.counters[i]
              /\ HasCounter(mem, i) \/ mem'.gauges[i] = mem.gauges[i]]_vars

(* w's update call returns in synchronous mode, no system call failing. *)
SyncReturns(w) ==
    /\ SyncWrite /\ faults' = 0 /\ phase' # "down"
    /\ saver[w].pc # "idle" /\ saver'[w].pc = "idle"

(* In synchronous mode an update that ran while no other goroutine was     *)
(* updating or saving is in filePath when the call returns, unless the     *)
(* list has no JSON form or a system call failed.                          *)
AloneUpdateOnDisk ==
    [][\A w \in Writer :
         SyncReturns(w) /\ saver[w].alone /\ Encodable(saver[w].snap.list) =>
           MainExists' /\ Main'.intact /\ Main'.ver >= saver[w].upd]_vars

(* However the unlocked savers of synchronous mode truncate each other's   *)
(* tmp file, once they are all done the file decodes again, provided no    *)
(* save failed for another reason and no crash cut one short.              *)
SettledFileDecodes ==
    Active = {} /\ faults = 0 /\ NonFinite = {} /\ ~CanCrash
      /\ ~LateWriters /\ ~StopTimesOut =>
    (MainExists => Main.intact)

(* Stopping the storage ends, although the saver may take more ticks. *)
StopCompletes == phase = "stopping" ~> phase = "down"

(* In periodic mode an update reaches filePath, unless the process stops   *)
(* or the store comes to hold a gauge with no JSON form.                   *)
PeriodicSaveReachesDisk ==
    \A n \in 1 .. MaxUpdates :
       (phase = "up" /\ ver >= n /\ ~SyncWrite) ~>
          \/ phase # "up"
          \/ ~Encodable(GetAllMetrics(mem))
          \/ MainExists /\ Main.ver >= n

(* What "0 = synchronous write" (config/server.go) says of StoreInterval:  *)
(* once every update call has returned, the file reflects every update.    *)
SyncUpdatesOnDisk ==
    SyncWrite /\ phase = "up" /\ Active = {} /\ faults = 0 /\ ver > 0 =>
        MainExists /\ Main.intact /\ Main.ver = ver

(* In periodic mode the savers, inodes and system calls implement the      *)
(* durable store of DurableStore: every rename commits one whole list, a   *)
(* save that fails leaves the old one, and a start restores the list.      *)
Saved      == IF MainExists /\ Main.intact THEN {Main.list} ELSE {}
BeingSaved == {saver[s].snap.list : s \in Active \ Writer}
Durable == INSTANCE DurableStore WITH
    Change   <- Metric,
    Empty    <- NewMemStorage,
    Apply    <- ApplyMetric,
    Dump     <- GetAllMetrics,
    Load     <- LoadList,
    FromDisk <- Restore,
    store    <- mem,
    up       <- Running,
    busy     <- mu # NoOne,
    disk     <- Saved,
    pending  <- BeingSaved
DurableSpec == Durable!Spec

-----------------------------------------------------------------------------
(* The inductive invariants behind MainIntact and FileIsSnapshot.          *)

(* Without overlap: at most one of the periodic saver and the stop hook is *)
(* saving, it alone has the tmp file, and that is not the main file.       *)
OneSaver ==
    /\ \A w \in Writer : saver[w].pc \in {"idle", "batch"}
    /\ saver[Ticker].pc # "idle" => ticker = "running"
    /\ saver[Stopper].pc # "idle" => phase = "final"
    /\ phase \in {"final", "exiting"} => ticker # "running"

TmpIsPrivate ==
    /\ MainExists => dir.main # dir.tmp /\ Main.intact
    /\ \A s \in Saver :
          /\ saver[s].pc \in {"create", "write"} => saver[s].snap.intact
          /\ saver[s].pc = "write" => saver[s].fd = dir.tmp /\ dir.tmp # NoInode
          /\ saver[s].pc = "rename" => dir.tmp # NoInode /\ data[dir.tmp].intact

PeriodicInv == ~SyncWrite /\ ~StopTimesOut => OneSaver /\ TmpIsPrivate

(* A list that came from a map keyed by id: no id twice, no nil pointer.   *)
FromMap(list) ==
    /\ \A m, n \in list : m.id = n.id => m = n
    /\ \A m \in list : \/ m.mtype = "gauge" /\ m.value # Missing /\ m.delta = Missing
                       \/ m.mtype = "counter" /\ m.delta # Missing /\ m.value = Missing

(* Content c reflects an earlier state of the store, or its present one.   *)
Reflects(c) ==
    c.intact =>
        /\ c.ver <= ver
        /\ c.ver = ver => mu = NoOne /\ c.list = GetAllMetrics(mem)

(* The tmp file may be left over from an earlier run, but whoever gets to  *)
(* rename it has truncated it before.                                      *)
SnapshotInv ==
    /\ \A i \in Inode : data[i].intact => FromMap(data[i].list)
    /\ \A s \in Saver : saver[s].snap.intact => FromMap(saver[s].snap.list)
    /\ \A s \in Saver : saver[s].pc = "batch" <=> mu = s
    /\ ~Running => \A s \in Saver : saver[s] = Idle
    /\ Restore /\ Running =>
         /\ MainExists => Reflects(Main)
         /\ \A s \in Saver :
               /\ saver[s].pc \in {"create", "write", "rename"} => Reflects(saver[s].snap)
               /\ saver[s].pc \in {"write", "rename"} /\ dir.tmp # NoInode =>
                    Reflects(data[dir.tmp])

(* What is being saved is no older than what filePath has. *)
ForwardInv ==
    ~SyncWrite /\ ~StopTimesOut /\ Restore /\ MainExists =>
        \A s \in Saver :
           /\ saver[s].pc \in {"create", "write"} => saver[s].snap.ver >= Main.ver
           /\ saver[s].pc = "rename" => data[dir.tmp].ver >= Main.ver

(* What a saver is about to rename is the list it took. *)
CommitInv ==
    ~SyncWrite /\ ~StopTimesOut =>
        /\ \A s \in Saver : saver[s].pc = "rename" => data[dir.tmp] = saver[s].snap
        /\ \A s \in Saver \ Writer : saver[s].pc \in {"idle", "create", "write", "rename"}
=============================================================================
