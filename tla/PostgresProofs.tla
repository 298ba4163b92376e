--------------------------- MODULE PostgresProofs ---------------------------
(* Theorems about PostgresStorage, for every value of its constants: the   *)
(* retry loop of retryPG (internal/repository/pgstorage.go:68) gives every *)
(* connection back and repeats no call that it knows to be committed; what *)
(* is in the table is whole calls, each as often as it was committed; and  *)
(* a list shows the counters of one moment.                                *)
EXTENDS PostgresStorage, FoldProofs, FiniteSetTheorems, TLAPS

Fields == {"pc", "op", "tries", "pos", "rows", "out", "lost"}

Shaped ==
    /\ call = [c \in Caller |-> call[c]]
    /\ \A c \in Caller : call[c] = [f \in Fields |-> call[c][f]]

Only(c) == \A d \in Caller \ {c} : call'[d] = call[d]

(* The next attempt begins. *)
LEMMA ConnectCall ==
    ASSUME Shaped, NEW c \in Caller, Connect(c)
    PROVE  /\ Shaped' /\ Only(c)
           /\ call'[c].tries = call[c].tries + 1
           /\ call'[c].lost = call[c].lost /\ call'[c].op = call[c].op
           /\ call'[c].pc = IF call[c].op.kind = "update" THEN "wait" ELSE "exec"
           /\ call'[c].pos = 0
           /\ call'[c].rows = call[c].rows /\ call'[c].out = call[c].out
<1> DEFINE pc == IF call[c].op.kind = "update" THEN "wait" ELSE "exec"
           n  == call[c].tries + 1
<1>1. call' = [call EXCEPT ![c].tries = n, ![c].pos = 0, ![c].pc = pc]
  BY DEF Connect
<1> HIDE DEF pc, n
<1>2. Shaped' /\ Only(c)
  BY <1>1 DEF Shaped, Fields, Only
<1>3. call'[c].tries = n
  BY <1>1 DEF Shaped, Fields
<1>4. call'[c].pc = pc
  BY <1>1 DEF Shaped, Fields
<1>5. call'[c].lost = call[c].lost /\ call'[c].op = call[c].op
  BY <1>1 DEF Shaped, Fields
<1>6. call'[c].pos = 0
  BY <1>1 DEF Shaped, Fields
<1>7. call'[c].rows = call[c].rows /\ call'[c].out = call[c].out
  BY <1>1 DEF Shaped, Fields
<1> QED  BY <1>2, <1>3, <1>4, <1>5, <1>6, <1>7 DEF pc, n

(* An attempt ends. *)
LEMMA ReleaseCall ==
    ASSUME Shaped, NEW c \in Caller, NEW pc, NEW n, Release(c, pc, n)
    PROVE  /\ Shaped' /\ Only(c)
           /\ call'[c].pc = pc
           /\ call'[c].lost = call[c].lost + n
           /\ call'[c].tries = call[c].tries /\ call'[c].op = call[c].op
           /\ call'[c].pos = call[c].pos /\ call'[c].rows = {}
           /\ call'[c].out = IF pc = "ok" THEN call[c].out ELSE {}
<1> DEFINE out == IF pc = "ok" THEN call[c].out ELSE {}
           m   == call[c].lost + n
<1>1. call' = [call EXCEPT ![c].pc = pc, ![c].lost = m, ![c].rows = {}, ![c].out = out]
  BY DEF Release, Shaped, Fields
<1> HIDE DEF out, m
<1>2. Shaped' /\ Only(c)
  BY <1>1 DEF Shaped, Fields, Only
<1>3. call'[c].lost = m
  BY <1>1 DEF Shaped, Fields
<1>4. call'[c].pc = pc
  BY <1>1 DEF Shaped, Fields
<1>5. call'[c].tries = call[c].tries /\ call'[c].op = call[c].op
  BY <1>1 DEF Shaped, Fields
<1>6. call'[c].pos = call[c].pos /\ call'[c].rows = {}
  BY <1>1 DEF Shaped, Fields
<1>7. call'[c].out = out
  BY <1>1 DEF Shaped, Fields
<1> QED  BY <1>2, <1>3, <1>4, <1>5, <1>6, <1>7 DEF m, out

(* A call begins; an empty batch ends at once. *)
LEMMA CallCall ==
    ASSUME Shaped, NEW c \in Caller, Call(c)
    PROVE  /\ Shaped' /\ Only(c)
           /\ call[c].pc = "idle"
           /\ call'[c].op \in Op[c]
           /\ \/ call'[c].pc = "begin"
              \/ call'[c].pc = "ok" /\ call'[c].op.list = <<>> /\ call'[c].op.kind = "batch"
           /\ call'[c].lost = call[c].lost /\ call'[c].tries = call[c].tries
           /\ call'[c].pos = call[c].pos
           /\ call'[c].rows = call[c].rows /\ call'[c].out = call[c].out
<1>1. PICK op \in Op[c] :
         call' = [call EXCEPT ![c].op = op,
                              ![c].pc = IF op.kind = "batch" /\ op.list = <<>> THEN "ok"
                                                                              ELSE "begin"]
  BY DEF Call
<1> DEFINE pc == IF op.kind = "batch" /\ op.list = <<>> THEN "ok" ELSE "begin"
<1>2. call' = [call EXCEPT ![c].op = op, ![c].pc = pc]
  BY <1>1
<1>3. pc = "begin" \/ (pc = "ok" /\ op.list = <<>> /\ op.kind = "batch")
  OBVIOUS
<1> HIDE DEF pc
<1>4. Shaped' /\ Only(c)
  BY <1>2 DEF Shaped, Fields, Only
<1>5. call'[c].op = op
  BY <1>2 DEF Shaped, Fields
<1>6. call'[c].pc = pc
  BY <1>2 DEF Shaped, Fields
<1>7. call'[c].lost = call[c].lost /\ call'[c].tries = call[c].tries
  BY <1>2 DEF Shaped, Fields
<1>8. /\ call'[c].pos = call[c].pos
      /\ call'[c].rows = call[c].rows /\ call'[c].out = call[c].out
  BY <1>2 DEF Shaped, Fields
<1> QED  BY <1>3, <1>4, <1>5, <1>6, <1>7, <1>8 DEF Call

(* A pause ends. *)
LEMMA TimerCall ==
    ASSUME Shaped, NEW c \in Caller, Timer(c)
    PROVE  /\ Shaped' /\ Only(c)
           /\ call[c].pc = "backoff" /\ call'[c].pc = "begin"
           /\ call'[c].lost = call[c].lost
           /\ call'[c].tries = call[c].tries /\ call'[c].op = call[c].op
           /\ call'[c].pos = call[c].pos
           /\ call'[c].rows = call[c].rows /\ call'[c].out = call[c].out
  BY DEF Shaped, Fields, Only, Timer

(* The steps of an attempt that leave it in progress. *)
Goes(c) == Exec(c) \/ SendCommit(c) \/ Query(c) \/ ScanRow(c)

(* An attempt that goes on is the same attempt. *)
LEMMA GoesCall ==
    ASSUME Shaped, NEW c \in Caller, Goes(c)
    PROVE  /\ Shaped' /\ Only(c)
           /\ call[c].pc \in {"exec", "scan"}
           /\ call'[c].pc \in {"exec", "wait", "scan"}
           /\ call'[c].pc = "scan" => call[c].pc = "scan" \/ call[c].op.kind = "list"
           /\ call'[c].lost = call[c].lost
           /\ call'[c].tries = call[c].tries /\ call'[c].op = call[c].op
<1>1. CASE Exec(c)
  <2>1. call[c].pc = "exec"
    BY <1>1 DEF Exec, AtMetric
  <2>2. CASE UNCHANGED call
    BY <2>1, <2>2 DEF Shaped, Only
  <2>3. CASE call' = [call EXCEPT ![c].pos = @ + 1]
    <3> DEFINE n == call[c].pos + 1
    <3>1. call' = [call EXCEPT ![c].pos = n]
      BY <2>3 DEF Shaped, Fields
    <3> HIDE DEF n
    <3> QED  BY <2>1, <3>1 DEF Shaped, Fields, Only
  <2> QED  BY <1>1, <2>2, <2>3 DEF Exec
<1>2. CASE SendCommit(c)
  BY <1>2 DEF SendCommit, Shaped, Fields, Only
<1>3. CASE Query(c)
  <2> DEFINE rows == {Gauge(i, table.gauges[i]) : i \in {j \in Id : HasGauge(table, j)}}
                       \cup
                     {Count(i, table.counters[i]) : i \in {j \in Id : HasCounter(table, j)}}
  <2>1. call' = [call EXCEPT ![c].pc = "scan", ![c].rows = rows]
    BY <1>3 DEF Query
  <2> HIDE DEF rows
  <2>2. call[c].pc = "exec" /\ call[c].op.kind = "list"
    BY <1>3 DEF Query
  <2>3. Shaped' /\ Only(c)
    BY <2>1 DEF Shaped, Fields, Only
  <2>4. call'[c].pc = "scan"
    BY <2>1 DEF Shaped, Fields
  <2>5. call'[c].lost = call[c].lost /\ call'[c].tries = call[c].tries /\ call'[c].op = call[c].op
    BY <2>1 DEF Shaped, Fields
  <2> QED  BY <2>2, <2>3, <2>4, <2>5
<1>4. CASE ScanRow(c)
  <2>1. PICK m \in call[c].rows :
           call' = [call EXCEPT ![c].rows = @ \ {m},
                                ![c].out = {o \in @ : o.id # m.id} \cup {m}]
    BY <1>4 DEF ScanRow
  <2> DEFINE rows == call[c].rows \ {m}
             out  == {o \in call[c].out : o.id # m.id} \cup {m}
  <2>2. call' = [call EXCEPT ![c].rows = rows, ![c].out = out]
    BY <2>1 DEF Shaped, Fields
  <2> HIDE DEF rows, out
  <2>3. call[c].pc = "scan"
    BY <1>4 DEF ScanRow
  <2>4. Shaped' /\ Only(c)
    BY <2>2 DEF Shaped, Fields, Only
  <2>5. call'[c].pc = call[c].pc
    BY <2>2 DEF Shaped, Fields
  <2>6. call'[c].lost = call[c].lost /\ call'[c].tries = call[c].tries /\ call'[c].op = call[c].op
    BY <2>2 DEF Shaped, Fields
  <2> QED  BY <2>3, <2>4, <2>5, <2>6
<1> QED  BY <1>1, <1>2, <1>3, <1>4 DEF Goes

-----------------------------------------------------------------------------
(* Control(c): where a caller can be in the loop of retryPG, and how often *)
(* it has tried by then.                                                   *)
Between == {"idle", "begin", "backoff"}
Trying  == {"exec", "wait", "scan"}

Control(c) ==
    /\ call[c].pc \in Between \cup Trying \cup {"ok", "error", "void"}
    /\ call[c].op \in Op[c] \cup {NotCalled.op}
    /\ call[c].tries \in 0 .. Retries + 1
    /\ call[c].lost \in Nat
    /\ call[c].pc \in Between => call[c].tries <= Retries
    /\ call[c].pc \in Trying => call[c].tries >= 1
    /\ call[c].pc = "scan" => call[c].op.kind = "list"

ControlInv ==
    /\ Shaped
    /\ \A c \in Caller : Control(c)
    /\ conns \subseteq Caller

(* A pause follows only an attempt that was not the last. *)
LEMMA AfterIs ==
    ASSUME NEW c \in Caller, NEW retry, Control(c)
    PROVE  \/ After(c, retry) = "backoff" /\ call[c].tries <= Retries
           \/ After(c, retry) \in {"error", "void"}
  BY DEF After, Returned

(* How an attempt ends: with the result, with an error or in a pause. *)
LEMMA Ending ==
    ASSUME NEW c \in Caller, Shaped, Control(c),
           Answered(c) \/ Refused(c) \/ Lost(c) \/ ScanFails(c) \/ ScanEnds(c)
    PROVE  \E pc, n : /\ Release(c, pc, n) /\ n \in {0, 1}
                      /\ call[c].pc \in Trying
                      /\ \/ pc \in {"ok", "error", "void"}
                         \/ pc = "backoff" /\ call[c].tries <= Retries
                      /\ n = 1 => pc = "backoff"
                      /\ pc = "backoff" => \/ n = 1
                                           \/ session[At(c)] \in {"retriable", "fatal"}
                      /\ pc = "ok" => \/ session[At(c)] = "committed"
                                      \/ call[c].op.kind = "list"
<1>1. CASE Answered(c)
  <2> DEFINE pc == Returned(c, TRUE)
  <2>1. Release(c, pc, 0) /\ call[c].pc \in Trying /\ session[At(c)] = "committed"
    BY <1>1 DEF Answered, Trying
  <2>2. pc \in {"ok", "error", "void"}
    BY DEF Returned
  <2> HIDE DEF pc
  <2> QED  BY <2>1, <2>2
<1>2. CASE Refused(c)
  <2>1. /\ Release(c, After(c, session[At(c)] = "retriable"), 0) /\ call[c].pc \in Trying
        /\ session[At(c)] \in {"retriable", "fatal"}
    BY <1>2 DEF Refused, Trying
  <2> QED  BY <2>1, AfterIs
<1>3. CASE Lost(c)
  <2>1. PICK retry \in BOOLEAN :
           Release(c, After(c, retry), IF After(c, retry) = "backoff" THEN 1 ELSE 0)
    BY <1>3 DEF Lost
  <2>2. call[c].pc \in Trying
    BY <1>3 DEF Lost, Trying
  <2> QED  BY <1>3, <2>1, <2>2, AfterIs
<1>4. CASE ScanFails(c)
  BY <1>4 DEF ScanFails, Trying, Control
<1>5. CASE ScanEnds(c)
  BY <1>5 DEF ScanEnds, Trying, Control
<1> QED  BY <1>1, <1>2, <1>3, <1>4, <1>5

(* What a step does to the calls: nothing, or one of these to one of them. *)
Starts(c) == Call(c) \/ Connect(c) \/ Timer(c)
Finishes(c) == Answered(c) \/ Refused(c) \/ Lost(c) \/ ScanFails(c) \/ ScanEnds(c)

(* A step is one of a caller or of the database. *)
LEMMA NextIs ==
    ASSUME Next
    PROVE  \/ \E c \in Caller : Starts(c) \/ Goes(c) \/ Finishes(c)
           \/ \E s \in Session : Commit(s) \/ Abort(s)
  BY DEF Next, Step, Starts, Goes, Finishes

(* The database does not touch the callers. *)
LEMMA DatabaseStep ==
    ASSUME NEW s \in Session, Commit(s) \/ Abort(s)
    PROVE  UNCHANGED <<call, conns>>
  BY DEF Commit, CommitUpdate, CommitBatch, Abort, Ends

(* The callers a step leaves alone stay in control. *)
LEMMA ControlFrame ==
    ASSUME NEW c \in Caller, \A d \in Caller : Control(d), Only(c), Control(c)'
    PROVE  \A d \in Caller : Control(d)'
<1> TAKE d \in Caller
<1>1. CASE d = c
  BY <1>1
<1>2. CASE d # c
  BY <1>2 DEF Only, Control
<1> QED  BY <1>1, <1>2

(* Every step keeps ControlInv. *)
LEMMA ControlStep ==
    ASSUME ControlInv, Next
    PROVE  ControlInv'
<1> USE PostgresAssumption
<1>1. CASE \E s \in Session : Commit(s) \/ Abort(s)
  BY <1>1, DatabaseStep DEF ControlInv, Shaped, Control
<1>2. ASSUME NEW c \in Caller, Call(c) PROVE ControlInv'
  <2>1. Shaped' /\ Only(c) /\ Control(c)'
    BY <1>2, CallCall DEF ControlInv, Control, Between, Trying
  <2>2. UNCHANGED conns
    BY <1>2 DEF Call
  <2> QED  BY <2>1, <2>2, ControlFrame DEF ControlInv
<1>3. ASSUME NEW c \in Caller, Connect(c) PROVE ControlInv'
  <2>1. Shaped' /\ Only(c) /\ Control(c)'
    <3>1. call[c].pc = "begin"
      BY <1>3 DEF Connect
    <3> QED  BY <1>3, <3>1, ConnectCall DEF ControlInv, Control, Between, Trying
  <2>2. conns' = conns \cup {c}
    BY <1>3 DEF Connect
  <2> QED  BY <2>1, <2>2, ControlFrame DEF ControlInv
<1>4. ASSUME NEW c \in Caller, Timer(c) PROVE ControlInv'
  <2>1. Shaped' /\ Only(c) /\ Control(c)'
    BY <1>4, TimerCall DEF ControlInv, Control, Between, Trying
  <2>2. UNCHANGED conns
    BY <1>4 DEF Timer
  <2> QED  BY <2>1, <2>2, ControlFrame DEF ControlInv
<1>5. ASSUME NEW c \in Caller, Goes(c) PROVE ControlInv'
  <2>1. Shaped' /\ Only(c) /\ Control(c)'
    BY <1>5, GoesCall DEF ControlInv, Control, Between, Trying
  <2>2. UNCHANGED conns
    BY <1>5 DEF Goes, Exec, SendCommit, Query, ScanRow
  <2> QED  BY <2>1, <2>2, ControlFrame DEF ControlInv
<1>6. ASSUME NEW c \in Caller, Finishes(c) PROVE ControlInv'
  <2>1. PICK pc, n : /\ Release(c, pc, n) /\ n \in {0, 1}
                     /\ \/ pc \in {"ok", "error", "void"}
                        \/ pc = "backoff" /\ call[c].tries <= Retries
    BY <1>6, Ending DEF ControlInv, Finishes
  <2>2. Shaped' /\ Only(c) /\ Control(c)'
    BY <2>1, ReleaseCall DEF ControlInv, Control, Between, Trying
  <2>3. conns' \subseteq conns
    BY <2>1 DEF Release
  <2> QED  BY <2>2, <2>3, ControlFrame DEF ControlInv
<1> QED  BY <1>1, <1>2, <1>3, <1>4, <1>5, <1>6, NextIs DEF Starts

(* ControlInv holds at first. *)
LEMMA ControlInit == Init => ControlInv
  BY PostgresAssumption DEF Init, ControlInv, Shaped, Fields, Control, NotCalled, Between, Trying

(* A caller is never further than its last attempt, and a pause is always  *)
(* followed by one that it may make (the loop of pgstorage.go:68).         *)
THEOREM Controlled == Spec => []ControlInv
<1>1. ControlInv /\ [Next]_vars => ControlInv'
  <2>1. ControlInv /\ UNCHANGED vars => ControlInv'
    BY DEF ControlInv, Shaped, Control, vars
  <2> QED  BY <2>1, ControlStep
<1> QED  BY <1>1, ControlInit, PTL DEF Spec

-----------------------------------------------------------------------------
(* A caller that pauses or has returned holds no connection of the pool,   *)
(* whatever failed: the deferred Rollback (pgstorage.go:227) and           *)
(* rows.Close (pgstorage.go:168).                                          *)
THEOREM HoldersAreTrying == Spec => []NoConnLeak
<1>1. Init => NoConnLeak
  BY DEF Init, NoConnLeak
<1>2. ASSUME ControlInv, NoConnLeak, Next
      PROVE  NoConnLeak'
  <2>1. CASE \E s \in Session : Commit(s) \/ Abort(s)
    BY <1>2, <2>1, DatabaseStep DEF NoConnLeak
  <2>2. ASSUME NEW c \in Caller, Call(c) \/ Timer(c) PROVE NoConnLeak'
    <3>1. Only(c) /\ call[c].pc \in {"idle", "backoff"}
      BY <1>2, <2>2, CallCall, TimerCall DEF ControlInv
    <3>2. conns' = conns
      BY <2>2 DEF Call, Timer
    <3> QED  BY <1>2, <3>1, <3>2 DEF NoConnLeak, Only, ControlInv
  <2>3. ASSUME NEW c \in Caller, Connect(c) PROVE NoConnLeak'
    <3>1. Only(c) /\ call'[c].pc \in {"wait", "exec"}
      BY <1>2, <2>3, ConnectCall DEF ControlInv
    <3>2. conns' = conns \cup {c}
      BY <2>3 DEF Connect
    <3> QED  BY <1>2, <3>1, <3>2 DEF NoConnLeak, Only, ControlInv
  <2>4. ASSUME NEW c \in Caller, Goes(c) PROVE NoConnLeak'
    <3>1. Only(c) /\ call'[c].pc \in {"exec", "wait", "scan"}
      BY <1>2, <2>4, GoesCall DEF ControlInv
    <3>2. conns' = conns
      BY <2>4 DEF Goes, Exec, SendCommit, Query, ScanRow
    <3> QED  BY <1>2, <3>1, <3>2 DEF NoConnLeak, Only, ControlInv
  <2>5. ASSUME NEW c \in Caller, Finishes(c) PROVE NoConnLeak'
    <3>1. PICK pc, n : Release(c, pc, n)
      BY <1>2, <2>5, Ending DEF ControlInv, Finishes
    <3>2. Only(c)
      BY <1>2, <3>1, ReleaseCall DEF ControlInv
    <3>3. conns' = conns \ {c}
      BY <3>1 DEF Release
    <3> QED  BY <1>2, <3>2, <3>3 DEF NoConnLeak, Only, ControlInv
  <2> QED  BY <1>2, <2>1, <2>2, <2>3, <2>4, <2>5, NextIs DEF Starts
<1>3. ControlInv /\ NoConnLeak /\ [Next]_vars => NoConnLeak'
  <2>1. NoConnLeak /\ UNCHANGED vars => NoConnLeak'
    BY DEF NoConnLeak, vars
  <2> QED  BY <2>1, <1>2
<1> QED  BY <1>1, <1>3, Controlled, PTL DEF Spec

-----------------------------------------------------------------------------
(* The attempts that are, or may still be, committed; and the one whose    *)
(* outcome the caller has still to learn, or has learnt.                   *)
Open         == {"open", "sent", "committed"}
MayCommit(c) == {k \in Try : session[<<c, k>>] \in Open}
Latest(c)    == IF call[c].pc \in Between THEN {} ELSE {call[c].tries}
Earlier(c)   == MayCommit(c) \ Latest(c)

(* Every earlier attempt that may be committed has been charged to lost,   *)
(* and a batch that was answered with nil is committed.                    *)
Counted(c) ==
    /\ Cardinality(Earlier(c)) <= call[c].lost
    /\ call[c].op.kind = "batch" /\ call[c].op.list # <<>> /\ call[c].pc = "ok" =>
          /\ call[c].tries \in Try
          /\ session[At(c)] = "committed"

Sessions == session \in [Session -> {"none", "open", "sent", "committed", "retriable", "fatal"}]

CountInv == ControlInv /\ Sessions /\ \A c \in Caller : Counted(c)

(* The attempts of a call are finitely many. *)
LEMMA TryFinite == IsFiniteSet(Try)
<1>1. Retries + 1 \in Int
  BY PostgresAssumption
<1> QED  BY <1>1, FS_Interval DEF Try

(* Another element makes a finite set larger by one at most. *)
LEMMA OneMore ==
    ASSUME NEW S, IsFiniteSet(S), NEW x
    PROVE  /\ IsFiniteSet(S \cup {x})
           /\ Cardinality(S \cup {x}) <= Cardinality(S) + 1
<1> DEFINE T == S \cup {x}
<1>1. Cardinality(S) \in Nat
  BY FS_CardinalityType
<1>2. /\ IsFiniteSet(T)
      /\ Cardinality(T) = IF x \in S THEN Cardinality(S) ELSE Cardinality(S) + 1
  BY FS_AddElement
<1> HIDE DEF T
<1>3. Cardinality(T) <= Cardinality(S) + 1
  BY <1>1, <1>2
<1> QED  BY <1>2, <1>3 DEF T

(* Fewer attempts that may be committed need no higher charge. *)
LEMMA EarlierShrinks ==
    ASSUME NEW c \in Caller, Control(c), Cardinality(Earlier(c)) <= call[c].lost,
           Earlier(c)' \subseteq Earlier(c), call'[c].lost = call[c].lost
    PROVE  Cardinality(Earlier(c)') <= call'[c].lost
<1>1. IsFiniteSet(Earlier(c))
  BY TryFinite, FS_Subset DEF Earlier, MayCommit
<1>2. /\ Cardinality(Earlier(c)') <= Cardinality(Earlier(c))
      /\ IsFiniteSet(Earlier(c)')
  BY <1>1, FS_Subset
<1>3. Cardinality(Earlier(c)) \in Nat /\ Cardinality(Earlier(c)') \in Nat
  BY <1>1, <1>2, FS_CardinalityType
<1> QED  BY <1>2, <1>3 DEF Control

(* A session that has ended stays as it has ended. *)
Settles ==
    /\ Sessions'
    /\ \A s \in Session :
          /\ session'[s] \in Open => session[s] \in Open
          /\ session[s] = "committed" => session'[s] = "committed"

(* A step that touches no session settles none. *)
LEMMA Settled ==
    ASSUME Sessions, UNCHANGED session
    PROVE  Settles
  BY DEF Sessions, Settles

(* The database ends sessions that were open, and no others. *)
LEMMA DatabaseSettles ==
    ASSUME Sessions, NEW s \in Session, Commit(s) \/ Abort(s)
    PROVE  Settles
<1>1. \E o \in {"committed", "retriable", "fatal"} : session' = [session EXCEPT ![s] = o]
  BY DEF Commit, CommitUpdate, CommitBatch, Abort, Ends
<1>2. session[s] \in {"open", "sent"}
  BY DEF Commit, CommitUpdate, CommitBatch, Abort
<1> QED  BY <1>1, <1>2 DEF Sessions, Settles, Open

(* A caller commits nothing and reopens nothing. *)
LEMMA GoesSettles ==
    ASSUME Sessions, NEW c \in Caller, Control(c), Goes(c)
    PROVE  Settles
<1>1. CASE UNCHANGED session
  BY <1>1, Settled
<1>2. CASE session # session'
  <2>1. /\ call[c].pc = "exec" /\ session[At(c)] = "open"
        /\ \E o \in {"sent", "fatal"} : session' = [session EXCEPT ![At(c)] = o]
    BY <1>2 DEF Goes, Exec, AtMetric, SendCommit, Query, ScanRow
  <2>2. At(c) \in Session
    BY <2>1, PostgresAssumption DEF Control, Trying, At, Session, Try
  <2> QED  BY <2>1, <2>2 DEF Sessions, Settles, Open
<1> QED  BY <1>1, <1>2

(* No step but Connect adds an attempt that may be committed. *)
LEMMA MayCommitShrinks ==
    ASSUME Settles, NEW c \in Caller
    PROVE  MayCommit(c)' \subseteq MayCommit(c)
  BY DEF Settles, MayCommit, Session, Try

(* What is said of a caller stays true while sessions end. *)
LEMMA Untouched ==
    ASSUME NEW c \in Caller, Settles, Control(c), Counted(c), call'[c] = call[c]
    PROVE  Counted(c)'
<1>1. Earlier(c)' \subseteq Earlier(c)
  BY MayCommitShrinks DEF Earlier, Latest
<1>2. Cardinality(Earlier(c)') <= call'[c].lost
  BY <1>1, EarlierShrinks DEF Counted
<1>3. call[c].tries \in Try => At(c) \in Session /\ At(c)' = At(c)
  BY DEF At, Session
<1> QED  BY <1>2, <1>3 DEF Counted, Settles

(* It is enough to look at the caller that moves. *)
LEMMA CountedFrame ==
    ASSUME CountInv, Settles, NEW c \in Caller, Only(c), Counted(c)'
    PROVE  \A d \in Caller : Counted(d)'
<1> TAKE d \in Caller
<1>1. CASE d = c
  BY <1>1
<1>2. CASE d # c
  BY <1>2, Untouched DEF Only, CountInv, ControlInv
<1> QED  BY <1>1, <1>2

(* A call that begins, or a pause that ends, has charged its attempts. *)
LEMMA StartCounted ==
    ASSUME CountInv, NEW c \in Caller, Call(c) \/ Timer(c)
    PROVE  Settles /\ \A d \in Caller : Counted(d)'
<1>1. Settles
  BY Settled DEF Call, Timer, CountInv
<1>2. /\ Only(c) /\ call[c].pc \in Between
      /\ call'[c].lost = call[c].lost
      /\ call'[c].pc = "begin" \/ (call'[c].pc = "ok" /\ call'[c].op.list = <<>>)
  BY CallCall, TimerCall DEF CountInv, ControlInv, Between
<1>3. Earlier(c)' \subseteq Earlier(c)
  BY <1>1, <1>2, MayCommitShrinks DEF Earlier, Latest
<1>4. Counted(c)'
  BY <1>2, <1>3, EarlierShrinks DEF Counted, CountInv, ControlInv
<1> QED  BY <1>1, <1>2, <1>4, CountedFrame

(* An attempt that goes on is not yet one of the earlier ones. *)
LEMMA GoesCounted ==
    ASSUME CountInv, NEW c \in Caller, Goes(c)
    PROVE  Settles /\ \A d \in Caller : Counted(d)'
<1>1. Settles
  BY GoesSettles DEF CountInv, ControlInv
<1>2. /\ Only(c) /\ call[c].pc \in Trying /\ call'[c].pc \in Trying
      /\ call'[c].lost = call[c].lost /\ call'[c].tries = call[c].tries
  BY GoesCall DEF CountInv, ControlInv, Trying
<1>3. Earlier(c)' \subseteq Earlier(c)
  BY <1>1, <1>2, MayCommitShrinks DEF Earlier, Latest, Between, Trying
<1>4. Counted(c)'
  BY <1>2, <1>3, EarlierShrinks DEF Counted, CountInv, ControlInv, Trying
<1> QED  BY <1>1, <1>2, <1>4, CountedFrame

(* A connection is given only to a caller whose earlier attempts have all  *)
(* been charged.                                                           *)
LEMMA ConnectCounted ==
    ASSUME CountInv, NEW c \in Caller, Connect(c)
    PROVE  Sessions' /\ \A d \in Caller : Counted(d)'
<1> DEFINE n == call[c].tries + 1
<1>1. /\ Only(c) /\ call[c].pc = "begin" /\ call'[c].pc \in Trying
      /\ call'[c].lost = call[c].lost /\ call'[c].tries = n
  BY ConnectCall DEF CountInv, ControlInv, Trying, Connect
<1>2. <<c, n>> \in Session
  BY <1>1, PostgresAssumption DEF CountInv, ControlInv, Control, Between, Session, Try
<1>3. \E o \in {"sent", "open", "none"} : session' = [session EXCEPT ![<<c, n>>] = o]
  BY DEF Connect
<1>4. Sessions' /\ \A s \in Session : s # <<c, n>> => session'[s] = session[s]
  BY <1>2, <1>3 DEF CountInv, Sessions
<1>5. Earlier(c)' \subseteq Earlier(c)
  BY <1>1, <1>4 DEF Earlier, Latest, Between, Trying, MayCommit, Session
<1>6. Counted(c)'
  BY <1>1, <1>5, EarlierShrinks DEF Counted, CountInv, ControlInv, Trying
<1>7. ASSUME NEW d \in Caller \ {c} PROVE Counted(d)'
  <2>1. call'[d] = call[d] /\ \A k \in Try : session'[<<d, k>>] = session[<<d, k>>]
    BY <1>1, <1>4 DEF Only, Session
  <2>2. Earlier(d)' \subseteq Earlier(d)
    BY <2>1 DEF Earlier, Latest, MayCommit
  <2>3. Cardinality(Earlier(d)') <= call'[d].lost
    BY <2>1, <2>2, EarlierShrinks DEF Counted, CountInv, ControlInv
  <2> QED  BY <2>1, <2>3 DEF Counted, CountInv, At
<1> QED  BY <1>4, <1>6, <1>7

(* An attempt that ends in a pause is charged, or known not to be committed. *)
LEMMA FinishCounted ==
    ASSUME CountInv, NEW c \in Caller, Finishes(c)
    PROVE  Settles /\ \A d \in Caller : Counted(d)'
<1>1. PICK pc, n : /\ Release(c, pc, n) /\ n \in {0, 1}
                   /\ call[c].pc \in Trying
                   /\ \/ pc \in {"ok", "error", "void"}
                      \/ pc = "backoff" /\ call[c].tries <= Retries
                   /\ n = 1 => pc = "backoff"
                   /\ pc = "backoff" => \/ n = 1
                                        \/ session[At(c)] \in {"retriable", "fatal"}
                   /\ pc = "ok" => \/ session[At(c)] = "committed"
                                   \/ call[c].op.kind = "list"
  BY Ending DEF CountInv, ControlInv, Finishes
<1>2. Settles /\ UNCHANGED session
  BY <1>1, Settled DEF Release, CountInv
<1>3. /\ Only(c) /\ call'[c].pc = pc /\ call'[c].lost = call[c].lost + n
      /\ call'[c].tries = call[c].tries /\ call'[c].op = call[c].op
  BY <1>1, ReleaseCall DEF CountInv, ControlInv
<1>4. call[c].tries \in Try /\ call[c].lost \in Nat /\ At(c)' = At(c)
  BY <1>1, <1>3, PostgresAssumption DEF CountInv, ControlInv, Control, Try, At, Trying
<1>5. Latest(c) = {call[c].tries}
  BY <1>1 DEF Latest, Between, Trying
<1>6. MayCommit(c)' = MayCommit(c)
  BY <1>2 DEF MayCommit
<1>7. Cardinality(Earlier(c)') <= call'[c].lost
  <2>1. CASE n = 0
    <3>1. Earlier(c)' \subseteq Earlier(c)
      <4>1. CASE pc = "backoff"
        <5>1. call[c].tries \notin MayCommit(c)
          BY <1>1, <2>1, <4>1 DEF MayCommit, Open, At
        <5> QED  BY <1>5, <1>6, <5>1 DEF Earlier
      <4>2. CASE pc # "backoff"
        BY <1>1, <1>3, <1>5, <1>6, <4>2 DEF Earlier, Latest, Between
      <4> QED  BY <4>1, <4>2
    <3> QED  BY <1>3, <1>4, <2>1, <3>1, EarlierShrinks DEF Counted, CountInv, ControlInv
  <2>2. CASE n = 1
    <3>1. IsFiniteSet(Earlier(c))
      BY TryFinite, FS_Subset DEF Earlier, MayCommit
    <3>2. Earlier(c)' \subseteq Earlier(c) \cup {call[c].tries}
      BY <1>5, <1>6 DEF Earlier
    <3>3. /\ IsFiniteSet(Earlier(c) \cup {call[c].tries})
          /\ Cardinality(Earlier(c) \cup {call[c].tries}) <= Cardinality(Earlier(c)) + 1
      BY <3>1, OneMore
    <3>4. /\ Cardinality(Earlier(c)') <= Cardinality(Earlier(c) \cup {call[c].tries})
          /\ IsFiniteSet(Earlier(c)')
      BY <3>2, <3>3, FS_Subset
    <3>5. /\ Cardinality(Earlier(c)) \in Nat /\ Cardinality(Earlier(c)') \in Nat
          /\ Cardinality(Earlier(c) \cup {call[c].tries}) \in Nat
      BY <3>1, <3>3, <3>4, FS_CardinalityType
    <3>6. Cardinality(Earlier(c)) <= call[c].lost
      BY DEF Counted, CountInv
    <3> QED  BY <1>3, <1>4, <2>2, <3>3, <3>4, <3>5, <3>6
  <2> QED  BY <1>1, <2>1, <2>2
<1>8. Counted(c)'
  BY <1>1, <1>2, <1>3, <1>4, <1>7 DEF Counted
<1> QED  BY <1>2, <1>3, <1>8, CountedFrame

(* Every step keeps CountInv. *)
LEMMA CountStep ==
    ASSUME CountInv, Next
    PROVE  CountInv'
<1>1. ControlInv'
  BY ControlStep DEF CountInv
<1>2. ASSUME NEW s \in Session, Commit(s) \/ Abort(s)
      PROVE  Sessions' /\ \A c \in Caller : Counted(c)'
  <2>1. Settles /\ UNCHANGED call
    BY <1>2, DatabaseSettles, DatabaseStep DEF CountInv
  <2> QED  BY <2>1, Untouched DEF CountInv, ControlInv, Settles
<1>3. ASSUME NEW c \in Caller, Starts(c) \/ Goes(c) \/ Finishes(c)
      PROVE  Sessions' /\ \A d \in Caller : Counted(d)'
  BY <1>3, StartCounted, GoesCounted, ConnectCounted, FinishCounted DEF Starts, Settles
<1> QED  BY <1>1, <1>2, <1>3, NextIs DEF CountInv

(* CountInv holds at first. *)
LEMMA CountInit == Init => CountInv
<1> SUFFICES ASSUME Init PROVE CountInv
  OBVIOUS
<1>1. ControlInv /\ Sessions
  BY ControlInit DEF Init, Sessions
<1>2. ASSUME NEW c \in Caller PROVE Counted(c)
  <2>1. Earlier(c) = {}
    BY DEF Init, Earlier, MayCommit, Open, Session, Try
  <2> QED  BY <2>1, FS_EmptySet DEF Init, Counted, NotCalled
<1> QED  BY <1>1, <1>2 DEF CountInv

(* CountInv implies the property: one attempt besides the charged ones. *)
LEMMA CountMeans ==
    ASSUME CountInv
    PROVE  CountedOnceUnlessLost
<1> SUFFICES ASSUME NEW c \in Caller
             PROVE  /\ Commits(c) <= 1 + call[c].lost
                    /\ call[c].op.kind = "batch" /\ call[c].op.list # <<>> /\ call[c].pc = "ok"
                         => Commits(c) >= 1
  BY DEF CountedOnceUnlessLost
<1> DEFINE C == {k \in Try : session[<<c, k>>] = "committed"}
           E == Earlier(c)
           t == call[c].tries
<1>1. IsFiniteSet(C) /\ IsFiniteSet(E)
  BY TryFinite, FS_Subset DEF Earlier, MayCommit
<1>2. C \subseteq E \cup {t}
  BY DEF Earlier, MayCommit, Open, Latest
<1>3. IsFiniteSet(E \cup {t}) /\ Cardinality(E \cup {t}) <= Cardinality(E) + 1
  BY <1>1, OneMore
<1>4. Cardinality(C) <= Cardinality(E \cup {t})
  BY <1>2, <1>3, FS_Subset
<1>5. Cardinality(C) \in Nat /\ Cardinality(E) \in Nat /\ Cardinality(E \cup {t}) \in Nat
  BY <1>1, <1>3, FS_CardinalityType
<1>6. Cardinality(E) <= call[c].lost /\ call[c].lost \in Nat
  BY DEF CountInv, ControlInv, Control, Counted
<1>7. Commits(c) = Cardinality(C)
  BY DEF Commits
<1>8. ASSUME call[c].op.kind = "batch", call[c].op.list # <<>>, call[c].pc = "ok"
      PROVE  Cardinality(C) >= 1
  <2>1. t \in C
    BY <1>8 DEF CountInv, Counted, At
  <2>2. Cardinality(C) # 0
    BY <1>1, <2>1, FS_EmptySet
  <2> QED  BY <1>5, <2>2
<1> HIDE DEF C, E, t
<1> QED  BY <1>3, <1>4, <1>5, <1>6, <1>7, <1>8

(* A call is committed at most once more than answers were lost, and a     *)
(* batch that returned nil is committed: retryPG repeats no call that it   *)
(* knows to be committed and takes no error for a success                  *)
(* (pgstorage.go:68).                                                      *)
THEOREM CountedOnce == Spec => []CountedOnceUnlessLost
<1>1. CountInv /\ [Next]_vars => CountInv'
  <2>1. CountInv /\ UNCHANGED vars => CountInv'
    BY DEF CountInv, ControlInv, Shaped, Control, Sessions, Counted, Earlier, MayCommit,
           Latest, At, vars
  <2> QED  BY <2>1, CountStep
<1> QED  BY <1>1, CountInit, CountMeans, PTL DEF Spec

-----------------------------------------------------------------------------
(* The operators of MetricsStore keep its types.                           *)

(* Addition in two's complement stays in range. *)
LEMMA WrapType ==
    ASSUME NEW n \in Int
    PROVE  Wrap(n) \in Counter
  BY TwosComplementType, StoreAssumption DEF Wrap, Counter

(* The empty store is a store. *)
LEMMA NewMemStorageType == NewMemStorage \in Store
  BY DEF NewMemStorage, Store

(* Setting a gauge yields a store. *)
LEMMA SetGaugeType ==
    ASSUME NEW ms \in Store, NEW i \in Id, NEW v \in Value
    PROVE  SetGauge(ms, i, v) \in Store
  BY DEF SetGauge, Store

(* Increasing a counter yields a store: the sum wraps into range. *)
LEMMA AddCounterType ==
    ASSUME NEW ms \in Store, NEW i \in Id, NEW d \in Counter
    PROVE  AddCounter(ms, i, d) \in Store
<1> DEFINE old == IF HasCounter(ms, i) THEN ms.counters[i] ELSE 0
<1>1. Half \in Nat \ {0}
  BY StoreAssumption
<1>2. old \in Int /\ d \in Int
  BY <1>1 DEF HasCounter, Store, Counter
<1>3. Wrap(old + d) \in Counter
  BY <1>2, WrapType
<1>4. AddCounter(ms, i, d) = [ms EXCEPT !.counters[i] = Wrap(old + d)]
  BY DEF AddCounter, Store
<1>5. QED
  BY <1>3, <1>4 DEF Store

(* One turn of UpdateBatch yields a store. *)
LEMMA ApplyMetricType ==
    ASSUME NEW ms \in Store, NEW m \in Metric
    PROVE  ApplyMetric(ms, m) \in Store
<1>1. CASE m.mtype = "gauge" /\ m.value # Missing
  BY <1>1, SetGaugeType DEF ApplyMetric, Metric
<1>2. CASE m.mtype = "counter" /\ m.delta # Missing
  BY <1>2, AddCounterType DEF ApplyMetric, Metric
<1>3. CASE ~(m.mtype = "gauge" /\ m.value # Missing)
           /\ ~(m.mtype = "counter" /\ m.delta # Missing)
  BY <1>3 DEF ApplyMetric
<1>4. QED
  BY <1>1, <1>2, <1>3

-----------------------------------------------------------------------------
(* What a batch adds to a counter.                                         *)

(* What the items of a list add to counter i, and what those of T do. *)
DeltaOf(list, i) == [k \in DOMAIN list |-> IF Counts(list[k], i) THEN list[k].delta ELSE 0]
Gain(list, i, T) == SumOver(DeltaOf(list, i), T)

(* An item adds an integer. *)
LEMMA DeltaType ==
    ASSUME NEW list \in Seq(Metric), NEW i
    PROVE  /\ \A k \in DOMAIN list : /\ DeltaOf(list, i)[k] \in Int
                                     /\ Counts(list[k], i) => DeltaOf(list, i)[k] = list[k].delta
                                     /\ ~Counts(list[k], i) => DeltaOf(list, i)[k] = 0
           /\ DOMAIN list = 1 .. Len(list) /\ Len(list) \in Nat /\ IsFiniteSet(DOMAIN list)
<1>1. DOMAIN list = 1 .. Len(list) /\ Len(list) \in Nat
  OBVIOUS
<1>2. IsFiniteSet(DOMAIN list)
  BY <1>1, FS_Interval
<1>3. ASSUME NEW k \in DOMAIN list, Counts(list[k], i)
      PROVE  list[k].delta \in Int
  <2>1. list[k] \in Metric
    OBVIOUS
  <2> QED
    BY <1>3, <2>1, StoreAssumption DEF Counts, Skipped, Metric, Counter
<1> QED
  BY <1>1, <1>2, <1>3 DEF DeltaOf

(* A part of a list adds an integer. *)
LEMMA GainType ==
    ASSUME NEW list \in Seq(Metric), NEW i
    PROVE  \A T \in SUBSET DOMAIN list : Gain(list, i, T) \in Int
<1> TAKE T \in SUBSET DOMAIN list
<1>1. IsFiniteSet(T) /\ \A k \in T : DeltaOf(list, i)[k] \in Int
  BY DeltaType, FS_Subset
<1> QED
  BY <1>1, SumType DEF Gain

(* One turn of UpdateBatch adds its item, and wraps. *)
LEMMA ApplyValue ==
    ASSUME NEW ms \in Store, NEW m \in Metric, NEW i \in Id
    PROVE  ValueOf(ApplyMetric(ms, m), i) = IF Counts(m, i) THEN Wrap(ValueOf(ms, i) + m.delta)
                                            ELSE ValueOf(ms, i)
<1>1. CASE m.mtype = "gauge"
  BY <1>1 DEF ApplyMetric, Counts, ValueOf, HasCounter, SetGauge, Store
<1>2. CASE m.mtype = "counter" /\ m.delta = Missing
  BY <1>2 DEF ApplyMetric, Counts, Skipped
<1>3. CASE m.mtype = "counter" /\ m.delta # Missing
  <2>1. ApplyMetric(ms, m) = AddCounter(ms, m.id, m.delta)
    BY <1>3 DEF ApplyMetric
  <2>2. Counts(m, i) <=> m.id = i
    BY <1>3 DEF Counts, Skipped
  <2> DEFINE w == Wrap(ValueOf(ms, m.id) + m.delta)
  <2>3. AddCounter(ms, m.id, m.delta) = [ms EXCEPT !.counters[m.id] = w]
    BY DEF AddCounter, ValueOf, Store, Metric
  <2>4. ValueOf(ms, m.id) \in Int /\ m.delta \in Int
    BY <1>3, StoreAssumption DEF ValueOf, HasCounter, Store, Metric, Counter
  <2>5. w \in Counter
    BY <2>4, WrapType
  <2>6. w # Missing
    BY <2>5, StoreAssumption DEF Counter
  <2> HIDE DEF w
  <2>7. ValueOf([ms EXCEPT !.counters[m.id] = w], i) = IF m.id = i THEN w ELSE ValueOf(ms, i)
    BY <2>6 DEF ValueOf, HasCounter, Store, Metric
  <2> QED
    BY <2>1, <2>2, <2>3, <2>7 DEF w
<1> QED
  BY <1>1, <1>2, <1>3 DEF Metric

(* Sums may be wrapped before they are added to, and in range need not be. *)
LEMMA WrapRules ==
    /\ \A p, q \in Int : Wrap(Wrap(p) + q) = Wrap(p + q)
    /\ \A p \in Counter : Wrap(p) = p
<1>1. ASSUME NEW p \in Int, NEW q \in Int PROVE Wrap(Wrap(p) + q) = Wrap(p + q)
  BY TwosComplementAdd, StoreAssumption DEF Wrap
<1>2. ASSUME NEW p \in Counter PROVE Wrap(p) = p
  BY TwosComplementId, StoreAssumption DEF Wrap, Counter
<1> QED
  BY <1>1, <1>2

(* A nonempty finite set of numbers has a largest. *)
LEMMA MaxIs ==
    ASSUME NEW S \in SUBSET Nat, IsFiniteSet(S)
    PROVE  \A T \in SUBSET S : T # {} => Max(T) \in T
<1> DEFINE G == {T \in SUBSET S : T # {} => \E x \in T : \A y \in T : x >= y}
<1>1. {} \in G
  OBVIOUS
<1>2. ASSUME NEW T \in SUBSET S, T # {}, \A x \in T : T \ {x} \in G PROVE T \in G
  <2>1. PICK x \in T : TRUE
    BY <1>2
  <2>2. CASE T \ {x} = {}
    BY <2>1, <2>2
  <2>3. CASE T \ {x} # {}
    <3>1. PICK y \in T \ {x} : \A z \in T \ {x} : y >= z
      BY <1>2, <2>1, <2>3
    <3>2. CASE y >= x
      BY <3>1, <3>2
    <3>3. CASE x >= y
      BY <2>1, <3>1, <3>3
    <3> QED
      BY <2>1, <3>1, <3>2, <3>3
  <2> QED
    BY <2>2, <2>3
<1> HIDE DEF G
<1>3. \A T \in SUBSET S : T \in G
  BY <1>1, <1>2, SetInduction
<1> QED
  BY <1>3 DEF G, Max

(* What UpdateBatch makes of a store: its items are added to each counter, *)
(* in two's complement.                                                    *)
LEMMA UpsertsIs ==
    ASSUME NEW ms \in Store, NEW list \in Seq(Metric)
    PROVE  /\ Upserts(ms, list) \in Store
           /\ \A i \in Id : ValueOf(Upserts(ms, list), i)
                               = Wrap(ValueOf(ms, i) + Gain(list, i, DOMAIN list))
<1> DEFINE D == DOMAIN list
           IsIt(h) == h = [s \in SUBSET D |-> IF s = {} THEN ms
                                               ELSE ApplyMetric(h[s \ {Max(s)}], list[Max(s)])]
           F == [p \in D \X Store |-> ApplyMetric(p[2], list[p[1]])]
           c == [s \in SUBSET D |-> Max(s)]
<1>1. IsFiniteSet(D) /\ D \subseteq Nat /\ \A k \in D : list[k] \in Metric
  BY DeltaType
<1>2. \A s \in SUBSET D : s # {} => Max(s) \in s
  BY <1>1, MaxIs
<1>3. F \in [D \X Store -> Store]
  BY <1>1, ApplyMetricType
<1>4. Picks(c, D)
  BY <1>2 DEF Picks
<1>5. \A k \in D : \A x \in Store : F[<<k, x>>] = ApplyMetric(x, list[k])
  OBVIOUS
<1>6. \A s \in SUBSET D : c[s] = Max(s)
  OBVIOUS
<1>7. \E h \in [SUBSET D -> Store] : IsFold(h, D, ms, F, c)
  <2> HIDE DEF F, c, D
  <2> QED
    BY <1>1, <1>3, <1>4, FoldExists
<1>8. \E h : IsIt(h)
  <2>1. PICK h \in [SUBSET D -> Store] : IsFold(h, D, ms, F, c)
    BY <1>7
  <2>2. ASSUME NEW s \in SUBSET D
        PROVE  h[s] = IF s = {} THEN ms ELSE ApplyMetric(h[s \ {Max(s)}], list[Max(s)])
    <3>1. h[s] = IF s = {} THEN ms ELSE F[<<Max(s), h[s \ {Max(s)}]>>]
      BY <1>6, <2>1 DEF IsFold
    <3>2. s # {} => Max(s) \in D /\ h[s \ {Max(s)}] \in Store
      BY <1>2, <2>1
    <3> HIDE DEF F, c
    <3> QED
      BY <1>5, <3>1, <3>2
  <2> QED
    BY <2>1, <2>2
<1> DEFINE r == Upserts(ms, list)
<1>9. PICK h : IsIt(h) /\ r = h[D]
  <2> HIDE DEF F, c
  <2> QED
    BY <1>8 DEF Upserts, FoldLeft, MapThenFoldSet
<1> HIDE DEF F, c
<1>10. \A s \in SUBSET D : h[s] = IF s = {} THEN ms
                                  ELSE ApplyMetric(h[s \ {Max(s)}], list[Max(s)])
  BY <1>9
<1> HIDE DEF IsIt
<1> DEFINE G == {T \in SUBSET D : /\ h[T] \in Store
                                 /\ \A i \in Id : ValueOf(h[T], i)
                                        = Wrap(ValueOf(ms, i) + Gain(list, i, T))}
<1>11. \A i \in Id : ValueOf(ms, i) \in Counter /\ ValueOf(ms, i) \in Int
  BY StoreAssumption DEF ValueOf, HasCounter, Store, Counter
<1>12. {} \in G
  <2>1. h[{}] = ms
    BY <1>10
  <2>2. \A i \in Id : Wrap(ValueOf(ms, i) + Gain(list, i, {})) = ValueOf(ms, i)
    <3> TAKE i \in Id
    <3>1. Gain(list, i, {}) = 0
      BY SumEmpty DEF Gain
    <3>2. ValueOf(ms, i) + 0 = ValueOf(ms, i)
      BY <1>11
    <3> QED
      BY <1>11, <3>1, <3>2, WrapRules
  <2> QED
    BY <2>1, <2>2
<1>13. ASSUME NEW T \in SUBSET D, T # {}, \A x \in T : T \ {x} \in G PROVE T \in G
  <2>1. PICK x \in T : x = Max(T)
    BY <1>2, <1>13
  <2> DEFINE U == T \ {x}
  <2>2. h[T] = ApplyMetric(h[U], list[x]) /\ list[x] \in Metric
    BY <1>1, <1>10, <1>13, <2>1
  <2>3. h[U] \in Store /\ \A i \in Id : ValueOf(h[U], i) = Wrap(ValueOf(ms, i) + Gain(list, i, U))
    BY <1>13
  <2>4. h[T] \in Store
    BY <2>2, <2>3, ApplyMetricType
  <2>5. ASSUME NEW i \in Id
        PROVE  ValueOf(h[T], i) = Wrap(ValueOf(ms, i) + Gain(list, i, T))
    <3> DEFINE v == ValueOf(ms, i)
               g == Gain(list, i, U)
               d == DeltaOf(list, i)[x]
    <3>1. v \in Int /\ g \in Int /\ d \in Int
      BY <1>11, GainType, DeltaType
    <3>2. Gain(list, i, T) = d + g
      <4>1. IsFiniteSet(T) /\ \A k \in T : DeltaOf(list, i)[k] \in Int
        BY <1>1, DeltaType, FS_Subset
      <4> QED
        BY <4>1, SumAny DEF Gain
    <3>3. ValueOf(h[U], i) = Wrap(v + g)
      BY <2>3
    <3>4. ValueOf(h[T], i) = IF Counts(list[x], i) THEN Wrap(Wrap(v + g) + list[x].delta)
                             ELSE Wrap(v + g)
      BY <2>2, <2>3, <3>3, ApplyValue
    <3>5. IF Counts(list[x], i) THEN d = list[x].delta ELSE d = 0
      BY DeltaType
    <3> HIDE DEF v, g, d
    <3>6. v + g \in Int /\ Wrap(Wrap(v + g) + d) = Wrap((v + g) + d) /\ (v + g) + 0 = v + g
      BY <3>1, WrapRules
    <3>7. (v + g) + d = v + (d + g)
      BY <3>1
    <3>8. ValueOf(h[T], i) = Wrap((v + g) + d)
      BY <3>4, <3>5, <3>6
    <3> QED
      BY <3>2, <3>7, <3>8 DEF v
  <2> QED
    BY <2>4, <2>5
<1> HIDE DEF G
<1>14. \A T \in SUBSET D : T \in G
  BY <1>1, <1>12, <1>13, SetInduction
<1>15. D \in G
  BY <1>14
<1> QED
  BY <1>9, <1>15 DEF G

(* The metrics a caller has passed. *)
ListOf(c) == call[c].op.list

(* They are metrics. *)
LEMMA ListType ==
    ASSUME ControlInv, NEW c \in Caller
    PROVE  ListOf(c) \in Seq(Metric)
<1>1. call[c].op \in Op[c] \cup {NotCalled.op}
  BY DEF ControlInv, Control
<1>2. CASE call[c].op \in Op[c]
  BY <1>2, PostgresAssumption DEF ListOf
<1>3. CASE call[c].op = NotCalled.op
  <2>1. ListOf(c) = <<>>
    BY <1>3 DEF ListOf, NotCalled
  <2> QED
    BY <2>1
<1> QED
  BY <1>1, <1>2, <1>3

(* What a call adds is the gain of its list. *)
LEMMA AddsIs ==
    ASSUME ControlInv, NEW c \in Caller, NEW i
    PROVE  Adds(c, i) = Gain(ListOf(c), i, DOMAIN ListOf(c))
<1> DEFINE list == ListOf(c)
           S    == {k \in DOMAIN list : Counts(list[k], i)}
           g    == DeltaOf(list, i)
           IsIt(h) == h = [s \in SUBSET S |->
                             IF s = {} THEN 0
                             ELSE list[CHOOSE x \in s : TRUE].delta
                                    + h[s \ {CHOOSE x \in s : TRUE}]]
<1>1. list \in Seq(Metric)
  BY ListType
<1>2. /\ \A k \in DOMAIN list : /\ g[k] \in Int
                                /\ k \in S => g[k] = list[k].delta
                                /\ k \notin S => g[k] = 0
      /\ IsFiniteSet(DOMAIN list)
  BY <1>1, DeltaType
<1>3. S \in SUBSET DOMAIN list /\ IsFiniteSet(S)
  BY <1>2, FS_Subset
<1>4. \A s \in SUBSET S : s # {} => (CHOOSE x \in s : TRUE) \in S
  OBVIOUS
<1> DEFINE r == Adds(c, i)
<1>5. r = MapThenSumSet(LAMBDA k : list[k].delta, S)
  BY DEF Adds, ListOf
<1> HIDE DEF S, g
<1>6. \A h : IsIt(h) <=> IsSum(h, g, S)
  BY <1>2, <1>3, <1>4 DEF IsSum
<1> HIDE DEF IsIt
<1>7. \E h : IsIt(h)
  BY <1>2, <1>3, <1>6, SumExists
<1> HIDE DEF r
<1>8. PICK h : IsIt(h) /\ r = h[S]
  BY <1>5, <1>7 DEF IsIt, MapThenSumSet, MapThenFoldSet
<1>9. r = SumOver(g, S)
  BY <1>2, <1>3, <1>6, <1>8, SumOverIs
<1>10. SumOver(g, DOMAIN list) = SumOver(g, S)
  BY <1>2, <1>3, SumSupport
<1> QED
  BY <1>9, <1>10 DEF r, Gain, g

(* The counters of a table when each call has been committed f[c] times,   *)
(* as a sum over the callers.                                              *)
Weighted(f, i) == [c \in Caller |-> f[c] * Gain(ListOf(c), i, DOMAIN ListOf(c))]
TotalOf(f, i)  == SumOver(Weighted(f, i), Caller)

(* Its terms are integers. *)
LEMMA WeightedType ==
    ASSUME ControlInv, NEW f \in [Caller -> Int], NEW i
    PROVE  /\ \A c \in Caller : Weighted(f, i)[c] \in Int
           /\ IsFiniteSet(Caller) /\ TotalOf(f, i) \in Int
<1>1. \A p, q \in Int : p * q \in Int
  OBVIOUS
<1>2. \A c \in Caller : Weighted(f, i)[c] \in Int
  <2> TAKE c \in Caller
  <2>1. Gain(ListOf(c), i, DOMAIN ListOf(c)) \in Int
    BY ListType, GainType
  <2> QED
    BY <1>1, <2>1 DEF Weighted
<1>3. IsFiniteSet(Caller)
  BY PostgresAssumption
<1> QED
  BY <1>2, <1>3, SumType DEF TotalOf

(* It is what the counter holds when each call has been committed f[c]     *)
(* times: what UpdateBatch adds, item by item (pgstorage.go:219).          *)
LEMMA CounterOfIs ==
    ASSUME ControlInv, NEW f \in [Caller -> Int], NEW i
    PROVE  CounterOf(f, i) = TotalOf(f, i)
<1> DEFINE g == Weighted(f, i)
           IsIt(h) == h = [s \in SUBSET Caller |->
                             IF s = {} THEN 0
                             ELSE f[CHOOSE x \in s : TRUE] * Adds(CHOOSE x \in s : TRUE, i)
                                    + h[s \ {CHOOSE x \in s : TRUE}]]
<1>1. /\ \A c \in Caller : g[c] \in Int
      /\ IsFiniteSet(Caller)
  BY WeightedType
<1>2. \A c \in Caller : g[c] = f[c] * Adds(c, i)
  BY AddsIs DEF Weighted
<1>3. \A s \in SUBSET Caller : s # {} => (CHOOSE x \in s : TRUE) \in Caller
  OBVIOUS
<1> HIDE DEF g
<1>4. \A h : IsIt(h) <=> IsSum(h, g, Caller)
  BY <1>2, <1>3 DEF IsSum
<1> HIDE DEF IsIt
<1>5. \E h : IsIt(h)
  BY <1>1, <1>4, SumExists
<1> DEFINE r == CounterOf(f, i)
<1>6. PICK h : IsIt(h) /\ r = h[Caller]
  BY <1>5 DEF IsIt, CounterOf, MapThenSumSet, MapThenFoldSet
<1> HIDE DEF r
<1>7. r = SumOver(g, Caller)
  BY <1>1, <1>4, <1>6, SumOverIs
<1> QED
  BY <1>7 DEF r, TotalOf, g

-----------------------------------------------------------------------------
(* TypeOK, and how the attempts that were lost are counted.                *)

(* A caller that executes passes one metric, or learns of an error. *)
LEMMA ExecCall ==
    ASSUME Shaped, NEW c \in Caller, Exec(c)
    PROVE  /\ Shaped' /\ Only(c)
           /\ call'[c].pc = call[c].pc /\ call'[c].op = call[c].op
           /\ call'[c].tries = call[c].tries /\ call'[c].lost = call[c].lost
           /\ call'[c].rows = call[c].rows /\ call'[c].out = call[c].out
           /\ \/ UNCHANGED call
              \/ call'[c].pos = call[c].pos + 1 /\ UNCHANGED session
<1>1. CASE UNCHANGED call
  BY <1>1 DEF Shaped, Only
<1>2. CASE call' = [call EXCEPT ![c].pos = @ + 1] /\ UNCHANGED session
  <2> DEFINE n == call[c].pos + 1
  <2>1. call' = [call EXCEPT ![c].pos = n]
    BY <1>2 DEF Shaped, Fields
  <2> HIDE DEF n
  <2>2. Shaped' /\ Only(c)
    BY <2>1 DEF Shaped, Fields, Only
  <2>3. call'[c].pos = n
    BY <2>1 DEF Shaped, Fields
  <2>4. /\ call'[c].pc = call[c].pc /\ call'[c].op = call[c].op
        /\ call'[c].tries = call[c].tries /\ call'[c].lost = call[c].lost
        /\ call'[c].rows = call[c].rows /\ call'[c].out = call[c].out
    BY <2>1 DEF Shaped, Fields
  <2> QED
    BY <1>2, <2>2, <2>3, <2>4 DEF n
<1> QED
  BY <1>1, <1>2 DEF Exec

(* The commit is sent. *)
LEMMA SendCall ==
    ASSUME Shaped, NEW c \in Caller, SendCommit(c)
    PROVE  /\ Shaped' /\ Only(c)
           /\ call'[c].pc = "wait" /\ call'[c].op = call[c].op
           /\ call'[c].tries = call[c].tries /\ call'[c].lost = call[c].lost
           /\ call'[c].rows = call[c].rows /\ call'[c].out = call[c].out
           /\ call'[c].pos = call[c].pos
  BY DEF SendCommit, Shaped, Fields, Only

(* The rows of a moment. *)
RowsOf(ms) == {Gauge(i, ms.gauges[i]) : i \in {j \in Id : HasGauge(ms, j)}}
                \cup
              {Count(i, ms.counters[i]) : i \in {j \in Id : HasCounter(ms, j)}}

(* The query is answered. *)
LEMMA QueryCall ==
    ASSUME Shaped, NEW c \in Caller, Query(c)
    PROVE  /\ Shaped' /\ Only(c)
           /\ call'[c].pc = "scan" /\ call'[c].op = call[c].op
           /\ call'[c].tries = call[c].tries /\ call'[c].lost = call[c].lost
           /\ call'[c].rows = RowsOf(table) /\ call'[c].out = call[c].out
           /\ call'[c].pos = call[c].pos
<1> DEFINE rows == RowsOf(table)
<1>1. call' = [call EXCEPT ![c].pc = "scan", ![c].rows = rows]
  BY DEF Query, RowsOf
<1> HIDE DEF rows
<1>2. Shaped' /\ Only(c)
  BY <1>1 DEF Shaped, Fields, Only
<1>3. call'[c].rows = rows
  BY <1>1 DEF Shaped, Fields
<1>4. /\ call'[c].pc = "scan" /\ call'[c].op = call[c].op
      /\ call'[c].tries = call[c].tries /\ call'[c].lost = call[c].lost
      /\ call'[c].out = call[c].out /\ call'[c].pos = call[c].pos
  BY <1>1 DEF Shaped, Fields
<1> QED
  BY <1>2, <1>3, <1>4 DEF rows

(* A row is scanned. *)
LEMMA ScanCall ==
    ASSUME Shaped, NEW c \in Caller, ScanRow(c)
    PROVE  /\ Shaped' /\ Only(c)
           /\ call'[c].pc = "scan" /\ call'[c].op = call[c].op
           /\ call'[c].tries = call[c].tries /\ call'[c].lost = call[c].lost
           /\ call'[c].pos = call[c].pos
           /\ \E m \in call[c].rows :
                 /\ call'[c].rows = call[c].rows \ {m}
                 /\ call'[c].out = {o \in call[c].out : o.id # m.id} \cup {m}
<1>1. PICK m \in call[c].rows :
         call' = [call EXCEPT ![c].rows = @ \ {m},
                              ![c].out = {o \in @ : o.id # m.id} \cup {m}]
  BY DEF ScanRow
<1> DEFINE rows == call[c].rows \ {m}
           out  == {o \in call[c].out : o.id # m.id} \cup {m}
<1>2. call' = [call EXCEPT ![c].rows = rows, ![c].out = out]
  BY <1>1 DEF Shaped, Fields
<1>3. call[c].pc = "scan"
  BY DEF ScanRow
<1> HIDE DEF rows, out
<1>4. Shaped' /\ Only(c)
  BY <1>2 DEF Shaped, Fields, Only
<1>5. call'[c].rows = rows
  BY <1>2 DEF Shaped, Fields
<1>6. call'[c].out = out
  BY <1>2 DEF Shaped, Fields
<1>7. /\ call'[c].pc = "scan" /\ call'[c].op = call[c].op
      /\ call'[c].tries = call[c].tries /\ call'[c].lost = call[c].lost
      /\ call'[c].pos = call[c].pos
  BY <1>2, <1>3 DEF Shaped, Fields
<1> QED
  BY <1>4, <1>5, <1>6, <1>7 DEF rows, out

(* Each lost attempt is one of those made, and the one under way is not    *)
(* yet among them.                                                         *)
Progress(c) ==
    /\ call[c].pos \in 0 .. Len(ListOf(c))
    /\ call[c].rows \cup call[c].out \subseteq Metric
    /\ call[c].lost <= call[c].tries /\ call[c].lost <= Retries
    /\ call[c].pc \in Trying => call[c].lost < call[c].tries
    /\ call[c].pc = "idle" => call[c].pos = 0 /\ call[c].tries = 0

Locking == owner \in [Row -> Session \cup {NoSession}]

Pooled == Cardinality(conns) <= MaxConns

TypeInv ==
    /\ ControlInv /\ Sessions /\ Locking /\ Pooled
    /\ table \in Store
    /\ faults \in 0 .. MaxFaults
    /\ \A c \in Caller : Progress(c)

(* It is enough to look at the caller that moves. *)
LEMMA ProgressFrame ==
    ASSUME TypeInv, NEW c \in Caller, Only(c), Progress(c)'
    PROVE  \A d \in Caller : Progress(d)'
<1> TAKE d \in Caller
<1>1. CASE d = c
  BY <1>1
<1>2. CASE d # c
  BY <1>2 DEF Only, TypeInv, Progress, ListOf
<1> QED
  BY <1>1, <1>2

(* What a query returns are metrics. *)
LEMMA RowsType ==
    ASSUME NEW ms \in Store
    PROVE  RowsOf(ms) \subseteq Metric
<1>1. ASSUME NEW i \in Id, HasGauge(ms, i) PROVE Gauge(i, ms.gauges[i]) \in Metric
  BY <1>1 DEF HasGauge, Gauge, Store, Metric
<1>2. ASSUME NEW i \in Id, HasCounter(ms, i) PROVE Count(i, ms.counters[i]) \in Metric
  BY <1>2 DEF HasCounter, Count, Store, Metric
<1> QED
  BY <1>1, <1>2 DEF RowsOf

(* The calls keep their types. *)
LEMMA ProgressStep ==
    ASSUME TypeInv, Next
    PROVE  \A c \in Caller : Progress(c)'
<1> USE PostgresAssumption
<1>1. CASE \E s \in Session : Commit(s) \/ Abort(s)
  BY <1>1, DatabaseStep DEF TypeInv, Progress, ListOf
<1>2. ASSUME NEW c \in Caller, Call(c) PROVE \A d \in Caller : Progress(d)'
  <2>1. Progress(c) /\ Control(c)
    BY DEF TypeInv, ControlInv
  <2>2. ControlInv'
    BY <1>2, ControlStep DEF TypeInv, Next
  <2>3. ListOf(c)' \in Seq(Metric)
    <3>1. call'[c].op \in Op[c]
      BY <1>2, CallCall DEF TypeInv, ControlInv
    <3> QED
      BY <3>1 DEF ListOf
  <2>4. Progress(c)' /\ Only(c)
    BY <1>2, <2>1, <2>3, CallCall DEF TypeInv, ControlInv, Progress, Control, Trying
  <2> QED
    BY <2>4, ProgressFrame
<1>3. ASSUME NEW c \in Caller, Connect(c) PROVE \A d \in Caller : Progress(d)'
  <2>1. Progress(c) /\ Control(c)
    BY DEF TypeInv, ControlInv
  <2>2. ListOf(c) \in Seq(Metric) /\ ListOf(c)' = ListOf(c)
    BY <1>3, ListType, ConnectCall DEF TypeInv, ControlInv, ListOf
  <2>3. /\ Only(c) /\ call[c].pc = "begin"
        /\ call'[c].tries = call[c].tries + 1 /\ call'[c].lost = call[c].lost
        /\ call'[c].pos = 0 /\ call'[c].pc \in {"wait", "exec"}
        /\ call'[c].rows = call[c].rows /\ call'[c].out = call[c].out
    BY <1>3, ConnectCall DEF TypeInv, ControlInv, Connect
  <2>4. call[c].lost \in Nat /\ call[c].tries \in Nat /\ Len(ListOf(c)) \in Nat
    BY <2>1, <2>2 DEF Control
  <2>5. /\ call'[c].pos \in 0 .. Len(ListOf(c)')
        /\ call'[c].lost < call'[c].tries /\ call'[c].lost <= Retries
    BY <2>1, <2>2, <2>3, <2>4 DEF Progress
  <2>6. Progress(c)'
    BY <2>1, <2>3, <2>4, <2>5 DEF Progress
  <2> QED
    BY <2>3, <2>6, ProgressFrame
<1>4. ASSUME NEW c \in Caller, Timer(c) PROVE \A d \in Caller : Progress(d)'
  <2>1. Progress(c) /\ Control(c)
    BY DEF TypeInv, ControlInv
  <2>2. ListOf(c)' = ListOf(c)
    BY <1>4, TimerCall DEF TypeInv, ControlInv, ListOf
  <2>3. Progress(c)' /\ Only(c)
    BY <1>4, <2>1, <2>2, TimerCall DEF TypeInv, ControlInv, Progress, Control, Trying
  <2> QED
    BY <2>3, ProgressFrame
<1>5. ASSUME NEW c \in Caller, Goes(c) PROVE \A d \in Caller : Progress(d)'
  <2>1. Progress(c) /\ Control(c) /\ Shaped /\ ListOf(c) \in Seq(Metric)
    BY ListType DEF TypeInv, ControlInv
  <2>2. CASE Exec(c)
    <3>1. call[c].pc = "exec" /\ call[c].pos < Len(ListOf(c))
      BY <2>2 DEF Exec, AtMetric, ListOf
    <3>2. ListOf(c)' = ListOf(c)
      BY <2>1, <2>2, ExecCall DEF ListOf
    <3>3. /\ Only(c) /\ call'[c].pc = "exec"
          /\ call'[c].tries = call[c].tries /\ call'[c].lost = call[c].lost
          /\ call'[c].rows = call[c].rows /\ call'[c].out = call[c].out
          /\ call'[c].pos \in {call[c].pos, call[c].pos + 1}
      BY <2>1, <2>2, <3>1, ExecCall
    <3>4. call'[c].pos \in 0 .. Len(ListOf(c))
      BY <2>1, <3>1, <3>3 DEF Progress
    <3>5. Progress(c)'
      BY <2>1, <3>1, <3>2, <3>3, <3>4 DEF Progress, Trying
    <3> QED
      BY <3>3, <3>5, ProgressFrame
  <2>3. CASE SendCommit(c)
    <3>1. call[c].pc = "exec"
      BY <2>3 DEF SendCommit
    <3>2. ListOf(c)' = ListOf(c)
      BY <2>1, <2>3, SendCall DEF ListOf
    <3>3. Progress(c)' /\ Only(c)
      BY <2>1, <2>3, <3>1, <3>2, SendCall DEF Progress, Control, Trying
    <3> QED
      BY <3>3, ProgressFrame
  <2>4. CASE Query(c)
    <3>1. call[c].pc = "exec"
      BY <2>4 DEF Query
    <3>2. ListOf(c)' = ListOf(c)
      BY <2>1, <2>4, QueryCall DEF ListOf
    <3>3. RowsOf(table) \subseteq Metric
      BY RowsType DEF TypeInv
    <3>4. Progress(c)' /\ Only(c)
      BY <2>1, <2>4, <3>1, <3>2, <3>3, QueryCall DEF Progress, Control, Trying
    <3> QED
      BY <3>4, ProgressFrame
  <2>5. CASE ScanRow(c)
    <3>1. call[c].pc = "scan"
      BY <2>5 DEF ScanRow
    <3>2. ListOf(c)' = ListOf(c)
      BY <2>1, <2>5, ScanCall DEF ListOf
    <3>3. Progress(c)' /\ Only(c)
      BY <2>1, <2>5, <3>1, <3>2, ScanCall DEF Progress, Control, Trying
    <3> QED
      BY <3>3, ProgressFrame
  <2> QED
    BY <1>5, <2>2, <2>3, <2>4, <2>5 DEF Goes
<1>6. ASSUME NEW c \in Caller, Finishes(c) PROVE \A d \in Caller : Progress(d)'
  <2>1. Progress(c) /\ Control(c)
    BY DEF TypeInv, ControlInv
  <2>2. PICK pc, n : /\ Release(c, pc, n) /\ n \in {0, 1}
                     /\ call[c].pc \in Trying
                     /\ \/ pc \in {"ok", "error", "void"}
                        \/ pc = "backoff" /\ call[c].tries <= Retries
                     /\ n = 1 => pc = "backoff"
    BY <1>6, Ending DEF TypeInv, ControlInv, Finishes
  <2>3. ListOf(c)' = ListOf(c)
    BY <2>2, ReleaseCall DEF TypeInv, ControlInv, ListOf
  <2>4. call'[c].rows \cup call'[c].out \subseteq Metric
    BY <2>1, <2>2, ReleaseCall DEF TypeInv, ControlInv, Progress
  <2>5. /\ Only(c) /\ call'[c].pc = pc /\ call'[c].tries = call[c].tries
        /\ call'[c].lost = call[c].lost + n /\ call'[c].pos = call[c].pos
    BY <2>1, <2>2, ReleaseCall DEF TypeInv, ControlInv
  <2>6. call[c].lost \in Nat /\ call[c].tries \in Nat
    BY <2>1 DEF Control
  <2>7. call'[c].lost <= call'[c].tries /\ call'[c].lost <= Retries
    BY <2>1, <2>2, <2>5, <2>6 DEF Progress
  <2>8. Progress(c)'
    BY <2>1, <2>2, <2>3, <2>4, <2>5, <2>7 DEF Progress, Trying
  <2> QED
    BY <2>5, <2>8, ProgressFrame
<1> QED
  BY <1>1, <1>2, <1>3, <1>4, <1>5, <1>6, NextIs DEF Starts

(* An attempt that ends touches nothing of the database. *)
LEMMA FinishLeaves ==
    ASSUME NEW c \in Caller, Finishes(c)
    PROVE  UNCHANGED <<table, session, owner>> /\ conns' \subseteq conns
<1>1. \E pc, n : Release(c, pc, n)
  BY DEF Finishes, Answered, Refused, Lost, ScanFails, ScanEnds
<1> QED
  BY <1>1 DEF Release

(* The pool gives no connection beyond its limit (SetMaxOpenConns). *)
LEMMA PoolStep ==
    ASSUME TypeInv, Next
    PROVE  Pooled'
<1>1. IsFiniteSet(conns) /\ Cardinality(conns) \in Nat
  BY PostgresAssumption, FS_Subset, FS_CardinalityType DEF TypeInv, ControlInv
<1>2. \/ conns' \subseteq conns
      \/ Cardinality(conns) < MaxConns /\ \E c \in Caller : conns' = conns \cup {c}
  <2>1. ASSUME NEW s \in Session, Commit(s) \/ Abort(s) PROVE UNCHANGED conns
    BY <2>1, DatabaseStep
  <2>2. ASSUME NEW c \in Caller, Starts(c)
        PROVE  \/ UNCHANGED conns
               \/ Cardinality(conns) < MaxConns /\ conns' = conns \cup {c}
    BY <2>2 DEF Starts, Call, Connect, Timer
  <2>3. ASSUME NEW c \in Caller, Goes(c) PROVE UNCHANGED conns
    BY <2>3 DEF Goes, Exec, SendCommit, Query, ScanRow
  <2>4. ASSUME NEW c \in Caller, Finishes(c) PROVE conns' \subseteq conns
    BY <2>4, FinishLeaves
  <2> QED
    BY <2>1, <2>2, <2>3, <2>4, NextIs
<1>3. CASE conns' \subseteq conns
  <2>1. Cardinality(conns') <= Cardinality(conns) /\ IsFiniteSet(conns')
    BY <1>1, <1>3, FS_Subset
  <2>2. Cardinality(conns') \in Nat
    BY <2>1, FS_CardinalityType
  <2> QED
    BY <1>1, <2>1, <2>2, PostgresAssumption DEF TypeInv, Pooled
<1>4. ASSUME Cardinality(conns) < MaxConns, NEW c \in Caller, conns' = conns \cup {c}
      PROVE  Pooled'
  <2>1. IsFiniteSet(conns') /\ Cardinality(conns') <= Cardinality(conns) + 1
    BY <1>1, <1>4, OneMore
  <2>2. Cardinality(conns') \in Nat
    BY <2>1, FS_CardinalityType
  <2> QED
    BY <1>1, <1>4, <2>1, <2>2, PostgresAssumption DEF Pooled
<1> QED
  BY <1>2, <1>3, <1>4

(* The metric of an Update is a metric. *)
LEMMA UpdateIs ==
    ASSUME ControlInv, NEW s \in Session, OpOf(s).kind = "update"
    PROVE  /\ OpOf(s).list = ListOf(s[1]) /\ OpOf(s).list \in Seq(Metric)
           /\ Len(OpOf(s).list) = 1 /\ OpOf(s).list[1] \in Metric
<1>1. s[1] \in Caller
  BY DEF Session
<1>2. OpOf(s) \in Op[s[1]] \cup {NotCalled.op}
  BY <1>1 DEF ControlInv, Control, OpOf
<1>3. OpOf(s) \in Op[s[1]]
  BY <1>2 DEF NotCalled
<1>4. OpOf(s).list \in Seq(Metric) /\ Len(OpOf(s).list) = 1
  BY <1>1, <1>3, PostgresAssumption
<1> QED
  BY <1>4 DEF ListOf, OpOf

(* The table stays one. *)
LEMMA TableStep ==
    ASSUME TypeInv, Next
    PROVE  table' \in Store
<1>1. CASE UNCHANGED table
  BY <1>1 DEF TypeInv
<1>2. ASSUME NEW s \in Session, CommitUpdate(s) PROVE table' \in Store
  BY <1>1, <1>2, UpdateIs, ApplyMetricType DEF CommitUpdate, TypeInv
<1>3. ASSUME NEW s \in Session, CommitBatch(s) PROVE table' \in Store
  <2>1. OpOf(s).list \in Seq(Metric)
    BY ListType DEF TypeInv, ListOf, OpOf, Session
  <2> QED
    BY <1>3, <2>1, UpsertsIs DEF CommitBatch, TypeInv
<1>4. ASSUME NEW c \in Caller, Starts(c) \/ Goes(c) PROVE UNCHANGED table
  BY <1>4 DEF Starts, Call, Connect, Timer, Goes, Exec, SendCommit, Query, ScanRow
<1>5. ASSUME NEW c \in Caller, Finishes(c) PROVE UNCHANGED table
  BY <1>5, FinishLeaves
<1>6. ASSUME NEW s \in Session, Abort(s) PROVE UNCHANGED table
  BY <1>6 DEF Abort
<1> QED
  BY <1>1, <1>2, <1>3, <1>4, <1>5, <1>6, NextIs DEF Commit

(* The locks stay locks of sessions. *)
LEMMA LockingStep ==
    ASSUME TypeInv, Next
    PROVE  Locking'
<1>1. CASE UNCHANGED owner
  BY <1>1 DEF TypeInv, Locking
<1>2. ASSUME NEW s, owner' = Unlocked(s) PROVE Locking'
  BY <1>2 DEF TypeInv, Locking, Unlocked
<1>3. ASSUME NEW c \in Caller, Exec(c) PROVE Locking'
  <2>1. At(c) \in Session
    BY <1>3, PostgresAssumption DEF Exec, AtMetric, TypeInv, ControlInv, Control, Trying, At,
       Session, Try
  <2>2. \/ UNCHANGED owner \/ owner' = Unlocked(At(c))
        \/ owner' = [owner EXCEPT ![RowOf(Current(c))] = At(c)]
    BY <1>3 DEF Exec
  <2> QED
    BY <1>1, <1>2, <2>1, <2>2 DEF TypeInv, Locking
<1>4. ASSUME NEW c \in Caller, Starts(c) \/ SendCommit(c) \/ Query(c) \/ ScanRow(c)
      PROVE  UNCHANGED owner
  BY <1>4 DEF Starts, Call, Connect, Timer, SendCommit, Query, ScanRow
<1>5. ASSUME NEW c \in Caller, Finishes(c) PROVE UNCHANGED owner
  BY <1>5, FinishLeaves
<1>6. ASSUME NEW s \in Session, Commit(s) \/ Abort(s) PROVE owner' = Unlocked(s)
  BY <1>6 DEF Commit, CommitUpdate, CommitBatch, Abort, Ends
<1> QED
  BY <1>1, <1>2, <1>3, <1>4, <1>5, <1>6, NextIs DEF Goes

(* TypeInv holds at first. *)
LEMMA TypeInit == Init => TypeInv
<1> SUFFICES ASSUME Init PROVE TypeInv
  OBVIOUS
<1>1. ControlInv /\ table \in Store /\ faults \in 0 .. MaxFaults
  BY ControlInit, NewMemStorageType, PostgresAssumption DEF Init
<1>2. Sessions /\ Locking
  BY DEF Init, Sessions, Locking
<1>3. Pooled
  BY PostgresAssumption, FS_EmptySet DEF Init, Pooled
<1>4. \A c \in Caller : Progress(c)
  BY PostgresAssumption DEF Init, NotCalled, Progress, ListOf, Trying
<1> QED
  BY <1>1, <1>2, <1>3, <1>4 DEF TypeInv

(* Every step keeps TypeInv. *)
LEMMA TypeStep ==
    ASSUME TypeInv, [Next]_vars
    PROVE  TypeInv'
<1>1. CASE UNCHANGED vars
  BY <1>1 DEF TypeInv, ControlInv, Shaped, Control, Sessions, Locking, Pooled, Progress, ListOf,
     vars
<1>2. CASE Next
  <2>1. ControlInv' /\ \A c \in Caller : Progress(c)'
    BY <1>2, ControlStep, ProgressStep DEF TypeInv
  <2>2. Locking' /\ Pooled' /\ table' \in Store
    BY <1>2, LockingStep, PoolStep, TableStep
  <2>3. faults' \in 0 .. MaxFaults
    <3> DEFINE Bounded == faults' = faults \/ (faults < MaxFaults /\ faults' = faults + 1)
    <3>1. ASSUME NEW c \in Caller, Starts(c) \/ Goes(c) PROVE Bounded
      BY <3>1 DEF Starts, Call, Connect, Timer, Goes, Exec, SendCommit, Query, ScanRow
    <3>2. ASSUME NEW c \in Caller, Finishes(c) PROVE Bounded
      BY <3>2 DEF Finishes, Answered, Refused, Lost, ScanFails, ScanEnds, Fault
    <3>3. ASSUME NEW s \in Session, Commit(s) \/ Abort(s) PROVE Bounded
      BY <3>3 DEF Commit, Abort
    <3>4. Bounded
      BY <1>2, <3>1, <3>2, <3>3, NextIs
    <3> QED
      BY <3>4, PostgresAssumption DEF TypeInv
  <2>4. Sessions'
    <3>1. CASE \E s \in Session : Commit(s) \/ Abort(s)
      BY <3>1, DatabaseSettles DEF TypeInv, Settles
    <3>2. ASSUME NEW c \in Caller, Goes(c) PROVE Sessions'
      BY <3>2, GoesSettles DEF TypeInv, ControlInv, Settles
    <3>3. ASSUME NEW c \in Caller, Connect(c) PROVE Sessions'
      BY <3>3 DEF Connect, TypeInv, Sessions
    <3>4. ASSUME NEW c \in Caller, Call(c) \/ Timer(c) \/ Finishes(c) PROVE Sessions'
      <4>1. UNCHANGED session
        BY <3>4, FinishLeaves DEF Call, Timer
      <4> QED
        BY <4>1 DEF TypeInv, Sessions
    <3> QED
      BY <1>2, <3>1, <3>2, <3>3, <3>4, NextIs DEF Starts
  <2> QED
    BY <2>1, <2>2, <2>3, <2>4 DEF TypeInv
<1> QED
  BY <1>1, <1>2

(* The table stays a table, the pool stays within its limit (SetMaxOpen-   *)
(* Conns, internal/config/db/db.go:29), an attempt is counted as lost at   *)
(* most once and only if another follows it (pgstorage.go:68).             *)
THEOREM TypeCorrect == Spec => []TypeOK
<1>1. TypeInv => TypeOK
  BY DEF TypeInv, ControlInv, Shaped, Control, Sessions, Locking, Pooled, Progress, ListOf,
     Between, Trying, TypeOK
<1> QED
  BY <1>1, TypeInit, TypeStep, PTL DEF Spec

-----------------------------------------------------------------------------
(* What the sessions have executed, and what that would add.               *)

(* The items of its list that a session would commit. *)
Executed(s) ==
    IF session[s] = "sent" /\ OpOf(s).kind = "batch" THEN DOMAIN ListOf(s[1])
    ELSE IF session[s] = "open" /\ s[2] = call[s[1]].tries /\ call[s[1]].pc = "exec"
         THEN 1 .. call[s[1]].pos
         ELSE {}

(* It has the locks of their rows, and they fit into their columns. *)
Held(s) ==
    \A k \in Executed(s) :
       ~Skipped(ListOf(s[1])[k]) => owner[RowOf(ListOf(s[1])[k])] = s
Fits(s) == \A i \in Id : ValueOf(table, i) + Gain(ListOf(s[1]), i, Executed(s)) \in Counter

(* Only attempts that were made are sessions, and of their call's kind. *)
Tried(s) ==
    /\ session[s] # "none" => s[2] <= call[s[1]].tries
    /\ session[s] = "open" => OpOf(s).kind = "batch"
    /\ session[s] = "sent" => OpOf(s).kind \in {"update", "batch"}

Committed == [c \in Caller |-> Commits(c)]
Whole == \A i \in Id : ValueOf(table, i) = TotalOf(Committed, i)

WholeInv ==
    /\ TypeInv /\ Whole
    /\ \A s \in Session : Tried(s) /\ Held(s) /\ Fits(s)

(* A session is a caller and the number of an attempt. *)
LEMMA SessionIs ==
    ASSUME NEW s \in Session
    PROVE  /\ s[1] \in Caller /\ s[2] \in Try /\ s = <<s[1], s[2]>> /\ s # NoSession
           /\ s[2] \in Nat \ {0}
  BY PostgresAssumption DEF Session, Try, NoSession

(* What is executed is part of the list. *)
LEMMA ExecutedType ==
    ASSUME TypeInv, NEW s \in Session
    PROVE  /\ Executed(s) \in SUBSET DOMAIN ListOf(s[1])
           /\ ListOf(s[1]) \in Seq(Metric)
<1>1. s[1] \in Caller /\ ListOf(s[1]) \in Seq(Metric)
  BY SessionIs, ListType DEF TypeInv
<1>2. DOMAIN ListOf(s[1]) = 1 .. Len(ListOf(s[1])) /\ Len(ListOf(s[1])) \in Nat
  BY <1>1
<1>3. call[s[1]].pos \in 0 .. Len(ListOf(s[1]))
  BY <1>1 DEF TypeInv, Progress
<1>4. 1 .. call[s[1]].pos \subseteq 1 .. Len(ListOf(s[1]))
  BY <1>2, <1>3
<1> QED
  BY <1>1, <1>2, <1>4 DEF Executed

(* A value of the table is in range. *)
LEMMA ValueType ==
    ASSUME NEW ms \in Store, NEW i \in Id
    PROVE  ValueOf(ms, i) \in Counter /\ ValueOf(ms, i) \in Int
  BY StoreAssumption DEF ValueOf, HasCounter, Store, Counter

(* Nothing executed adds nothing. *)
LEMMA FitsEmpty ==
    ASSUME NEW ms \in Store, NEW list, NEW i \in Id
    PROVE  ValueOf(ms, i) + Gain(list, i, {}) \in Counter
<1>1. Gain(list, i, {}) = 0
  BY SumEmpty DEF Gain
<1>2. ValueOf(ms, i) \in Counter /\ ValueOf(ms, i) + 0 = ValueOf(ms, i)
  BY ValueType
<1> QED
  BY <1>1, <1>2

(* A session that executes nothing more keeps what it has, or loses it. *)
LEMMA HeldKept ==
    ASSUME TypeInv, TypeInv', NEW s \in Session, Held(s), Fits(s), UNCHANGED table,
           \/ Executed(s)' = {}
           \/ /\ Executed(s)' = Executed(s) /\ ListOf(s[1])' = ListOf(s[1])
              /\ \A r \in Row : owner[r] = s => owner'[r] = s
    PROVE  Held(s)' /\ Fits(s)'
<1>1. CASE Executed(s)' = {}
  <2>1. Held(s)'
    BY <1>1 DEF Held
  <2>2. PICK list : list = ListOf(s[1])'
    OBVIOUS
  <2>3. \A i \in Id : ValueOf(table, i) + Gain(list, i, {}) \in Counter
    BY FitsEmpty DEF TypeInv
  <2>4. Fits(s)'
    BY <1>1, <2>2, <2>3 DEF Fits
  <2> QED
    BY <2>1, <2>4
<1>2. CASE /\ Executed(s)' = Executed(s) /\ ListOf(s[1])' = ListOf(s[1])
           /\ \A r \in Row : owner[r] = s => owner'[r] = s
  <2>1. PICK list, E : list = ListOf(s[1]) /\ E = Executed(s)
    OBVIOUS
  <2>2. list \in Seq(Metric) /\ E \in SUBSET DOMAIN list
    BY <2>1, ExecutedType
  <2>3. \A k \in E : RowOf(list[k]) \in Row
    <3>1. \A k \in E : list[k] \in Metric
      BY <2>2
    <3>2. \A m \in Metric : RowOf(m) \in Row
      BY DEF RowOf, Row, Metric
    <3> QED
      BY <3>1, <3>2
  <2>4. \A k \in E : ~Skipped(list[k]) => owner[RowOf(list[k])] = s
    BY <2>1 DEF Held
  <2>5. \A k \in E : ~Skipped(list[k]) => owner'[RowOf(list[k])] = s
    BY <1>2, <2>3, <2>4
  <2>6. \A i \in Id : ValueOf(table, i) + Gain(list, i, E) \in Counter
    BY <2>1 DEF Fits
  <2>7. list = ListOf(s[1])' /\ E = Executed(s)'
    BY <1>2, <2>1
  <2>8. Held(s)'
    BY <2>5, <2>7 DEF Held
  <2>9. Fits(s)'
    BY <2>6, <2>7 DEF Fits
  <2> QED
    BY <2>8, <2>9
<1> QED
  BY <1>1, <1>2

(* The number of commits depends on nothing but the sessions. *)
LEMMA CommitsSame ==
    ASSUME \A s \in Session : session'[s] = "committed" <=> session[s] = "committed"
    PROVE  Committed' = Committed
<1>1. ASSUME NEW c \in Caller PROVE Commits(c)' = Commits(c)
  <2>1. \A k \in Try : session'[<<c, k>>] = "committed" <=> session[<<c, k>>] = "committed"
    BY DEF Session
  <2>2. {k \in Try : session'[<<c, k>>] = "committed"}
           = {k \in Try : session[<<c, k>>] = "committed"}
    BY <2>1
  <2> QED
    BY <2>2 DEF Commits
<1> QED
  BY <1>1 DEF Committed

(* Commits can be counted. *)
LEMMA CommitsType ==
    /\ Committed \in [Caller -> Nat]
    /\ \A c \in Caller : Committed[c] = Commits(c) /\ Commits(c) \in Nat
<1>1. ASSUME NEW c \in Caller PROVE Commits(c) \in Nat
  BY TryFinite, FS_Subset, FS_CardinalityType DEF Commits
<1> QED
  BY <1>1 DEF Committed

ListsAre == \A c \in Caller : ListOf(c) \in Seq(Metric)

(* Every caller's list is one of metrics. *)
LEMMA ListsType == ControlInv => ListsAre
  BY ListType DEF ListsAre

(* The total depends on the lists of the calls that were committed. *)
LEMMA TotalSame ==
    ASSUME ControlInv, ControlInv', NEW f \in [Caller -> Int], NEW i,
           \A c \in Caller : ListOf(c)' = ListOf(c) \/ f[c] = 0
    PROVE  TotalOf(f, i)' = TotalOf(f, i)
<1>1. PICK g, h : g = Weighted(f, i) /\ h = Weighted(f, i)'
  OBVIOUS
<1>2. (\A c \in Caller : Weighted(f, i)[c] \in Int) /\ IsFiniteSet(Caller)
  BY WeightedType
<1>3. ASSUME NEW c \in Caller PROVE h[c] = g[c]
  <2>1. PICK a, b : /\ a = Gain(ListOf(c), i, DOMAIN ListOf(c))
                    /\ b = Gain(ListOf(c), i, DOMAIN ListOf(c))'
    OBVIOUS
  <2>2. a \in Int
    BY <2>1, ListType, GainType
  <2>3. b \in Int
    <3>1. PICK list : list = ListOf(c)'
      OBVIOUS
    <3>2. ListOf(c)' \in Seq(Metric)
      <4>1. ListsAre'
        BY ListsType, PTL
      <4> QED
        BY <4>1 DEF ListsAre
    <3>3. Gain(list, i, DOMAIN list) \in Int
      BY <3>1, <3>2, GainType
    <3> QED
      BY <2>1, <3>1, <3>3
  <2>4. g[c] = f[c] * a /\ h[c] = f[c] * b
    BY <1>1, <2>1 DEF Weighted
  <2>5. CASE ListOf(c)' = ListOf(c)
    <3>1. PICK list : list = ListOf(c)
      OBVIOUS
    <3>2. list = ListOf(c)'
      BY <2>5, <3>1
    <3>3. a = Gain(list, i, DOMAIN list) /\ b = Gain(list, i, DOMAIN list)
      BY <2>1, <3>1, <3>2
    <3> QED
      BY <2>4, <3>3
  <2>6. CASE f[c] = 0
    <3>1. 0 * a = 0 /\ 0 * b = 0
      BY <2>2, <2>3
    <3> QED
      BY <2>4, <2>6, <3>1
  <2> QED
    BY <2>5, <2>6
<1>4. SumOver(h, Caller) = SumOver(g, Caller)
  BY <1>1, <1>2, <1>3, SumSame
<1> QED
  BY <1>1, <1>4 DEF TotalOf

(* A step that commits nothing leaves the table whole. *)
LEMMA WholeKept ==
    ASSUME WholeInv, TypeInv', UNCHANGED table,
           \A s \in Session : session'[s] = "committed" <=> session[s] = "committed",
           \A c \in Caller : ListOf(c)' = ListOf(c) \/ Commits(c) = 0
    PROVE  Whole'
<1>1. PICK f : f = Committed
  OBVIOUS
<1>2. f = Committed'
  BY <1>1, CommitsSame
<1>3. f \in [Caller -> Int] /\ \A c \in Caller : f[c] = Commits(c)
  BY <1>1, CommitsType
<1>4. ASSUME NEW i \in Id PROVE ValueOf(table', i) = TotalOf(f, i)'
  <2>1. TotalOf(f, i)' = TotalOf(f, i)
    BY <1>3, TotalSame DEF WholeInv, TypeInv
  <2>2. ValueOf(table, i) = TotalOf(f, i)
    BY <1>1 DEF WholeInv, Whole
  <2> QED
    BY <2>1, <2>2
<1> QED
  BY <1>2, <1>4 DEF Whole

-----------------------------------------------------------------------------
(* What each step does to what the sessions have executed.                 *)

Keeps(s) ==
    /\ Tried(s)'
    /\ \/ Executed(s)' = {}
       \/ /\ Executed(s)' = Executed(s) /\ ListOf(s[1])' = ListOf(s[1])
          /\ \A r \in Row : owner[r] = s => owner'[r] = s

(* A session whose caller and outcome a step leaves alone keeps all. *)
LEMMA Elsewhere ==
    ASSUME NEW s \in Session, Tried(s), session'[s] = session[s],
           call'[s[1]] = call[s[1]], \A r \in Row : owner[r] = s => owner'[r] = s
    PROVE  Keeps(s)
  BY DEF Keeps, Tried, Executed, ListOf, OpOf

(* A call begins with no session. *)
LEMMA CallKeeps ==
    ASSUME WholeInv, NEW c \in Caller, Call(c)
    PROVE  /\ \A s \in Session : Keeps(s)
           /\ \A d \in Caller : ListOf(d)' = ListOf(d) \/ Commits(d) = 0
<1>1. /\ Only(c) /\ call[c].pc = "idle" /\ call'[c].pc # "exec"
      /\ call'[c].tries = call[c].tries /\ UNCHANGED <<session, owner>>
  BY CallCall DEF WholeInv, TypeInv, ControlInv, Call
<1>2. call[c].tries = 0
  BY <1>1 DEF WholeInv, TypeInv, Progress
<1>3. \A k \in Try : session[<<c, k>>] = "none"
  <2> TAKE k \in Try
  <2>1. <<c, k>> \in Session /\ k # 0 /\ k \in Nat
    BY PostgresAssumption DEF Session, Try
  <2>2. session[<<c, k>>] # "none" => k <= 0
    BY <1>2, <2>1 DEF WholeInv, Tried
  <2> QED
    BY <2>1, <2>2
<1>4. ASSUME NEW s \in Session PROVE Keeps(s)
  <2>1. CASE s[1] = c
    <3>1. session[s] = "none"
      BY <1>3, <2>1, SessionIs
    <3> QED
      BY <1>1, <3>1 DEF Keeps, Tried, Executed
  <2>2. CASE s[1] # c
    BY <1>1, <2>2, SessionIs, Elsewhere DEF Only, WholeInv
  <2> QED
    BY <2>1, <2>2
<1>5. Commits(c) = 0
  <2>1. {k \in Try : session[<<c, k>>] = "committed"} = {}
    BY <1>3
  <2> QED
    BY <2>1, FS_EmptySet DEF Commits
<1>6. \A d \in Caller : ListOf(d)' = ListOf(d) \/ Commits(d) = 0
  BY <1>1, <1>5 DEF Only, ListOf
<1> QED
  BY <1>4, <1>6

(* A caller outside its loop's body, before or after, executes nothing. *)
LEMMA TimerKeeps ==
    ASSUME WholeInv, NEW c \in Caller, Timer(c)
    PROVE  /\ \A s \in Session : Keeps(s)
           /\ \A d \in Caller : ListOf(d)' = ListOf(d)
<1>1. /\ Only(c) /\ call[c].pc # "exec" /\ call'[c].pc # "exec"
      /\ call'[c].tries = call[c].tries /\ call'[c].op = call[c].op
      /\ UNCHANGED <<session, owner>>
  BY TimerCall DEF WholeInv, TypeInv, ControlInv, Timer
<1>2. \A d \in Caller : ListOf(d)' = ListOf(d)
  BY <1>1 DEF Only, ListOf
<1>3. ASSUME NEW s \in Session PROVE Keeps(s)
  <2>1. CASE s[1] = c
    BY <1>1, <1>2, <2>1 DEF Keeps, Tried, Executed, OpOf, WholeInv
  <2>2. CASE s[1] # c
    BY <1>1, <2>2, SessionIs, Elsewhere DEF Only, WholeInv
  <2> QED
    BY <2>1, <2>2
<1> QED
  BY <1>2, <1>3

(* An attempt that begins has executed nothing. *)
LEMMA ConnectKeeps ==
    ASSUME WholeInv, NEW c \in Caller, Connect(c)
    PROVE  /\ \A s \in Session : Keeps(s)
           /\ \A d \in Caller : ListOf(d)' = ListOf(d)
           /\ \A s \in Session : session'[s] = "committed" <=> session[s] = "committed"
<1> DEFINE n == call[c].tries + 1
<1>1. /\ Only(c) /\ call[c].pc = "begin" /\ call'[c].pos = 0
      /\ call'[c].tries = n /\ call'[c].op = call[c].op
      /\ UNCHANGED owner
  BY ConnectCall DEF WholeInv, TypeInv, ControlInv, Connect
<1>2. <<c, n>> \in Session /\ n \in Nat /\ call[c].tries \in Nat
  BY <1>1, PostgresAssumption DEF WholeInv, TypeInv, ControlInv, Control, Between, Session, Try
<1>3. PICK o : /\ session' = [session EXCEPT ![<<c, n>>] = o]
               /\ o = CASE call[c].op.kind = "update" -> "sent"
                        [] call[c].op.kind = "batch"  -> "open"
                        [] OTHER                      -> "none"
  BY DEF Connect
<1>4. /\ o \in {"sent", "open", "none"}
      /\ o = "open" => call[c].op.kind = "batch"
      /\ o = "sent" => call[c].op.kind = "update"
  BY <1>3
<1>5. /\ session'[<<c, n>>] = o
      /\ \A s \in Session : s # <<c, n>> => session'[s] = session[s]
  BY <1>2, <1>3 DEF WholeInv, TypeInv, Sessions
<1>6. \A d \in Caller : ListOf(d)' = ListOf(d)
  BY <1>1 DEF Only, ListOf
<1>7. session[<<c, n>>] = "none"
  BY <1>2 DEF WholeInv, Tried
<1>8. ASSUME NEW s \in Session PROVE Keeps(s)
  <2>1. CASE s = <<c, n>>
    <3>1. OpOf(s)' = call[c].op /\ session'[s] = o /\ s[1] = c /\ s[2] = n
      BY <1>1, <1>5, <2>1 DEF OpOf
    <3>2. Tried(s)'
      BY <1>1, <1>2, <1>4, <3>1 DEF Tried
    <3>3. 1 .. 0 = {}
      OBVIOUS
    <3>4. Executed(s)' = {}
      BY <1>1, <1>4, <3>1, <3>3 DEF Executed
    <3> QED
      BY <3>2, <3>4 DEF Keeps
  <2>2. CASE s[1] = c /\ s # <<c, n>>
    <3>1. s[2] # n /\ session'[s] = session[s] /\ OpOf(s)' = OpOf(s) /\ s[2] \in Nat
      BY <1>1, <1>5, <2>2, SessionIs DEF OpOf
    <3>2. Tried(s) /\ s[1] = c
      BY <2>2 DEF WholeInv
    <3>3. Tried(s)'
      BY <1>1, <1>2, <3>1, <3>2 DEF Tried
    <3>4. Executed(s)' = Executed(s)
      BY <1>1, <1>6, <3>1, <3>2 DEF Executed
    <3> QED
      BY <1>1, <1>6, <3>2, <3>3, <3>4 DEF Keeps
  <2>3. CASE s[1] # c
    BY <1>1, <1>5, <2>3, SessionIs, Elsewhere DEF Only, WholeInv
  <2> QED
    BY <2>1, <2>2, <2>3
<1> QED
  BY <1>4, <1>5, <1>6, <1>7, <1>8

(* An attempt that ends takes nothing of what was sent with it. *)
LEMMA FinishKeeps ==
    ASSUME WholeInv, NEW c \in Caller, Finishes(c)
    PROVE  /\ \A s \in Session : Keeps(s)
           /\ \A d \in Caller : ListOf(d)' = ListOf(d)
           /\ UNCHANGED <<session, table>>
<1>1. PICK pc, m : /\ Release(c, pc, m)
                   /\ pc \in {"ok", "error", "void", "backoff"}
  <2>1. Shaped /\ Control(c)
    BY DEF WholeInv, TypeInv, ControlInv
  <2> QED
    BY <2>1, Ending DEF Finishes
<1>2. /\ Only(c) /\ call'[c].pc # "exec"
      /\ call'[c].tries = call[c].tries /\ call'[c].op = call[c].op
      /\ UNCHANGED <<session, owner, table>>
  BY <1>1, ReleaseCall DEF WholeInv, TypeInv, ControlInv, Release
<1>3. \A d \in Caller : ListOf(d)' = ListOf(d)
  BY <1>2 DEF Only, ListOf
<1>4. ASSUME NEW s \in Session PROVE Keeps(s)
  <2>1. CASE s[1] = c
    <3>1. Tried(s)'
      BY <1>2, <2>1 DEF Tried, OpOf, WholeInv
    <3>2. Executed(s)' = Executed(s) \/ Executed(s)' = {}
      BY <1>2, <1>3, <2>1 DEF Executed, OpOf
    <3> QED
      BY <1>2, <1>3, <2>1, <3>1, <3>2 DEF Keeps
  <2>2. CASE s[1] # c
    BY <1>2, <2>2, SessionIs, Elsewhere DEF Only, WholeInv
  <2> QED
    BY <2>1, <2>2
<1> QED
  BY <1>2, <1>3, <1>4

(* A query and a scan execute nothing. *)
LEMMA ReadKeeps ==
    ASSUME WholeInv, NEW c \in Caller, Query(c) \/ ScanRow(c)
    PROVE  /\ \A s \in Session : Keeps(s)
           /\ \A d \in Caller : ListOf(d)' = ListOf(d)
<1>1. /\ Only(c) /\ call'[c].pc = "scan"
      /\ call'[c].tries = call[c].tries /\ call'[c].op = call[c].op
      /\ UNCHANGED <<session, owner>>
  BY QueryCall, ScanCall DEF WholeInv, TypeInv, ControlInv, Query, ScanRow
<1>2. \A d \in Caller : ListOf(d)' = ListOf(d)
  BY <1>1 DEF Only, ListOf
<1>3. ASSUME NEW s \in Session PROVE Keeps(s)
  <2>1. CASE s[1] = c
    <3>1. Tried(s)'
      BY <1>1, <2>1 DEF Tried, OpOf, WholeInv
    <3>2. Executed(s)' = Executed(s) \/ Executed(s)' = {}
      BY <1>1, <1>2, <2>1 DEF Executed, OpOf
    <3> QED
      BY <1>1, <1>2, <2>1, <3>1, <3>2 DEF Keeps
  <2>2. CASE s[1] # c
    BY <1>1, <2>2, SessionIs, Elsewhere DEF Only, WholeInv
  <2> QED
    BY <2>1, <2>2
<1> QED
  BY <1>2, <1>3

(* The attempt under way is a session. *)
LEMMA AtIs ==
    ASSUME TypeInv, NEW c \in Caller, call[c].pc \in Trying
    PROVE  At(c) \in Session /\ At(c)[1] = c /\ At(c)[2] = call[c].tries
  BY PostgresAssumption DEF TypeInv, ControlInv, Control, At, Session, Try, Trying

(* The commit is sent with all that was executed. *)
LEMMA SendKeeps ==
    ASSUME WholeInv, NEW c \in Caller, SendCommit(c)
    PROVE  /\ \A s \in Session : Keeps(s)
           /\ \A d \in Caller : ListOf(d)' = ListOf(d)
           /\ \A s \in Session : session'[s] = "committed" <=> session[s] = "committed"
<1>1. /\ Only(c) /\ call[c].pc = "exec" /\ call'[c].pc = "wait"
      /\ call'[c].tries = call[c].tries /\ call'[c].op = call[c].op
      /\ call[c].op.kind = "batch" /\ call[c].pos = Len(ListOf(c))
      /\ UNCHANGED owner
  BY SendCall DEF WholeInv, TypeInv, ControlInv, SendCommit, ListOf
<1>2. At(c) \in Session /\ At(c)[1] = c /\ At(c)[2] = call[c].tries
  BY <1>1, AtIs DEF WholeInv, Trying
<1>3. PICK t : t = At(c)
  OBVIOUS
<1>4. /\ session[t] = "open" /\ session'[t] = "sent"
      /\ \A s \in Session : s # t => session'[s] = session[s]
  BY <1>2, <1>3 DEF SendCommit, WholeInv, TypeInv, Sessions
<1>5. \A d \in Caller : ListOf(d)' = ListOf(d)
  BY <1>1 DEF Only, ListOf
<1>6. ASSUME NEW s \in Session PROVE Keeps(s)
  <2>1. Tried(s)
    BY DEF WholeInv
  <2>2. CASE s = t
    <3>1. /\ s[1] = c /\ s[2] = call[c].tries /\ OpOf(s) = call[c].op /\ OpOf(s)' = call[c].op
          /\ s[2] \in Nat
      BY <1>1, <1>2, <1>3, <2>2, SessionIs DEF OpOf
    <3>2. Tried(s)'
      BY <1>1, <1>4, <2>2, <3>1 DEF Tried
    <3>3. Executed(s) = 1 .. call[c].pos
      BY <1>1, <1>4, <2>2, <3>1 DEF Executed
    <3>4. Executed(s)' = DOMAIN ListOf(c)
      BY <1>1, <1>4, <1>5, <2>2, <3>1 DEF Executed
    <3>5. DOMAIN ListOf(c) = 1 .. Len(ListOf(c))
      BY ListType DEF WholeInv, TypeInv
    <3>6. Executed(s)' = Executed(s)
      BY <1>1, <3>3, <3>4, <3>5
    <3> QED
      BY <1>1, <1>5, <3>1, <3>2, <3>6 DEF Keeps
  <2>3. CASE s[1] = c /\ s # t
    <3>1. s[2] # call[c].tries /\ session'[s] = session[s] /\ OpOf(s)' = OpOf(s)
      BY <1>1, <1>2, <1>3, <1>4, <2>3, SessionIs DEF OpOf, At
    <3>2. Tried(s)'
      BY <1>1, <2>1, <2>3, <3>1 DEF Tried
    <3>3. Executed(s)' = Executed(s)
      BY <1>1, <1>5, <2>3, <3>1 DEF Executed
    <3> QED
      BY <1>1, <1>5, <2>3, <3>2, <3>3 DEF Keeps
  <2>4. CASE s[1] # c
    <3>1. s # t
      BY <1>2, <1>3, <2>4
    <3> QED
      BY <1>1, <1>4, <2>1, <2>4, <3>1, SessionIs, Elsewhere DEF Only
  <2> QED
    BY <2>2, <2>3, <2>4
<1> QED
  BY <1>4, <1>5, <1>6

(* A transaction that is rolled back loses what it executed. *)
LEMMA EndKeeps ==
    ASSUME WholeInv, NEW t \in Session, NEW o \in {"committed", "retriable", "fatal"},
           session[t] \in {"open", "sent"},
           session' = [session EXCEPT ![t] = o], owner' = Unlocked(t), UNCHANGED call
    PROVE  \A s \in Session : Keeps(s)
<1>1. session'[t] = o /\ \A s \in Session : s # t => session'[s] = session[s]
  BY DEF WholeInv, TypeInv, Sessions
<1> TAKE s \in Session
<1>2. Tried(s)
  BY DEF WholeInv
<1>3. CASE s = t
  <2>1. Tried(s)'
    BY <1>1, <1>2, <1>3 DEF Tried
  <2>2. Executed(s)' = {}
    BY <1>1, <1>3 DEF Executed
  <2> QED
    BY <2>1, <2>2 DEF Keeps
<1>4. CASE s # t
  <2>1. \A r \in Row : owner[r] = s => owner'[r] = s
    BY <1>4 DEF Unlocked
  <2> QED
    BY <1>1, <1>2, <1>4, <2>1, Elsewhere
<1> QED
  BY <1>3, <1>4

(* The sums of a list and of its beginning. *)
LEMMA GainOfPrefix ==
    ASSUME NEW list \in Seq(Metric), NEW n \in 0 .. Len(list), NEW i
    PROVE  /\ SubSeq(list, 1, n) \in Seq(Metric)
           /\ Gain(SubSeq(list, 1, n), i, DOMAIN SubSeq(list, 1, n)) = Gain(list, i, 1 .. n)
<1> DEFINE sub == SubSeq(list, 1, n)
<1>1. sub \in Seq(Metric) /\ DOMAIN sub = 1 .. n /\ \A k \in 1 .. n : sub[k] = list[k]
  OBVIOUS
<1>2. 1 .. n \in SUBSET DOMAIN list
  OBVIOUS
<1>3. IsFiniteSet(1 .. n)
  BY <1>2, DeltaType, FS_Subset
<1>4. \A k \in 1 .. n : DeltaOf(list, i)[k] \in Int
  BY <1>2, DeltaType
<1> HIDE DEF sub
<1>5. \A k \in 1 .. n : DeltaOf(sub, i)[k] = DeltaOf(list, i)[k]
  BY <1>1, <1>2 DEF DeltaOf
<1>6. SumOver(DeltaOf(sub, i), 1 .. n) = SumOver(DeltaOf(list, i), 1 .. n)
  BY <1>3, <1>4, <1>5, SumSame
<1>7. Gain(sub, i, DOMAIN sub) = Gain(list, i, 1 .. n)
  BY <1>1, <1>6 DEF Gain
<1> QED
  BY <1>1, <1>7 DEF sub

(* One item more. *)
LEMMA GainOfNext ==
    ASSUME NEW list \in Seq(Metric), NEW n \in Nat, n < Len(list), NEW i
    PROVE  Gain(list, i, 1 .. n + 1) = DeltaOf(list, i)[n + 1] + Gain(list, i, 1 .. n)
<1> DEFINE T == 1 .. n + 1
<1>1. T \in SUBSET DOMAIN list /\ n + 1 \in T /\ T \ {n + 1} = 1 .. n
  OBVIOUS
<1> HIDE DEF T
<1>2. IsFiniteSet(T) /\ \A k \in T : DeltaOf(list, i)[k] \in Int
  BY <1>1, DeltaType, FS_Subset
<1>3. SumOver(DeltaOf(list, i), T)
         = DeltaOf(list, i)[n + 1] + SumOver(DeltaOf(list, i), T \ {n + 1})
  BY <1>1, <1>2, SumAny
<1> QED
  BY <1>1, <1>3 DEF Gain, T

(* A statement that the database accepts leaves what was executed in range. *)
LEMMA NextFits ==
    ASSUME NEW ms \in Store, NEW list \in Seq(Metric), NEW n \in Nat, n < Len(list),
           \A i \in Id : ValueOf(ms, i) + Gain(list, i, 1 .. n) \in Counter,
           \/ Skipped(list[n + 1])
           \/ ~OutOfRange(Upserts(ms, SubSeq(list, 1, n)), list[n + 1])
    PROVE  \A i \in Id : ValueOf(ms, i) + Gain(list, i, 1 .. n + 1) \in Counter
<1> TAKE i \in Id
<1> DEFINE m == list[n + 1]
           v == ValueOf(ms, i)
           g == Gain(list, i, 1 .. n)
           d == DeltaOf(list, i)[n + 1]
<1>1. n + 1 \in DOMAIN list /\ 1 .. n \in SUBSET DOMAIN list /\ n \in 0 .. Len(list)
  OBVIOUS
<1>2. v \in Int /\ g \in Int /\ d \in Int
  BY <1>1, ValueType, GainType, DeltaType
<1>3. Gain(list, i, 1 .. n + 1) = d + g
  BY GainOfNext
<1>4. v + g \in Counter
  OBVIOUS
<1>5. CASE ~Counts(m, i)
  <2>1. d = 0
    BY <1>1, <1>5, DeltaType
  <2> HIDE DEF v, g, d
  <2>2. v + (d + g) = v + g
    BY <1>2, <2>1
  <2> QED
    BY <1>3, <1>4, <2>2 DEF v
<1>6. CASE Counts(m, i)
  <2> DEFINE sub == SubSeq(list, 1, n)
  <2>1. d = m.delta /\ ~Skipped(m) /\ m.mtype = "counter" /\ m.id = i
    BY <1>1, <1>6, DeltaType DEF Counts
  <2>2. sub \in Seq(Metric) /\ Gain(sub, i, DOMAIN sub) = g
    BY <1>1, GainOfPrefix
  <2>3. ValueOf(Upserts(ms, sub), i) = Wrap(v + g)
    BY <2>2, UpsertsIs
  <2>4. Wrap(v + g) = v + g
    BY <1>4, WrapRules
  <2>5. ValueOf(Upserts(ms, sub), i) + m.delta \in Counter
    BY <2>1 DEF OutOfRange
  <2> HIDE DEF v, g, d, sub
  <2>6. (v + g) + d \in Counter
    BY <2>1, <2>3, <2>4, <2>5
  <2>7. (v + g) + d = v + (d + g)
    BY <1>2
  <2> QED
    BY <1>3, <2>6, <2>7 DEF v
<1> QED
  BY <1>5, <1>6

(* A transaction holds the lock of each row it has changed, and what it    *)
(* has executed fits.                                                      *)
LEMMA ExecHolds ==
    ASSUME WholeInv, TypeInv', NEW c \in Caller, Exec(c)
    PROVE  /\ \A s \in Session : Tried(s)' /\ Held(s)' /\ Fits(s)'
           /\ \A d \in Caller : ListOf(d)' = ListOf(d)
           /\ \A s \in Session : session'[s] = "committed" <=> session[s] = "committed"
<1>1. PICK list, n, t : list = ListOf(c) /\ n = call[c].pos /\ t = At(c)
  OBVIOUS
<1>2. /\ call[c].pc = "exec" /\ n < Len(list) /\ session[t] = "open"
      /\ Current(c) = list[n + 1] /\ UNCHANGED table
  BY <1>1 DEF Exec, AtMetric, Current, ListOf
<1>3. t \in Session /\ t[1] = c /\ t[2] = call[c].tries /\ t # NoSession
  BY <1>1, <1>2, AtIs, SessionIs DEF WholeInv, Trying
<1>4. list \in Seq(Metric) /\ n \in Nat /\ table \in Store
  BY <1>1, ListType DEF WholeInv, TypeInv, Progress
<1>5. /\ Only(c)
      /\ call'[c].pc = call[c].pc /\ call'[c].op = call[c].op
      /\ call'[c].tries = call[c].tries
      /\ UNCHANGED call \/ (call'[c].pos = n + 1 /\ UNCHANGED session)
  BY <1>1, ExecCall DEF WholeInv, TypeInv, ControlInv
<1>6. \A d \in Caller : ListOf(d)' = ListOf(d)
  BY <1>5 DEF Only, ListOf
<1>7. ASSUME UNCHANGED call, session' = [session EXCEPT ![t] = "fatal"], owner' = Unlocked(t)
      PROVE  /\ \A s \in Session : Tried(s)' /\ Held(s)' /\ Fits(s)'
             /\ \A s \in Session : session'[s] = "committed" <=> session[s] = "committed"
  <2>1. \A s \in Session : Keeps(s)
    BY <1>2, <1>3, <1>7, EndKeeps
  <2>2. \A s \in Session : Held(s)' /\ Fits(s)'
    BY <1>2, <2>1, HeldKept DEF Keeps, WholeInv
  <2>3. \A s \in Session : session'[s] = "committed" <=> session[s] = "committed"
    BY <1>2, <1>3, <1>7 DEF WholeInv, TypeInv, Sessions
  <2> QED
    BY <2>1, <2>2, <2>3 DEF Keeps
<1>8. ASSUME call'[c].pos = n + 1, UNCHANGED session,
             \/ Skipped(list[n + 1]) /\ UNCHANGED owner
             \/ /\ owner[RowOf(list[n + 1])] \in {NoSession, t}
                /\ ~OutOfRange(Upserts(table, SubSeq(list, 1, n)), list[n + 1])
                /\ owner' = [owner EXCEPT ![RowOf(list[n + 1])] = t]
      PROVE  \A s \in Session : Tried(s)' /\ Held(s)' /\ Fits(s)'
  <2> TAKE s \in Session
  <2>1. Tried(s) /\ Held(s) /\ Fits(s)
    BY DEF WholeInv
  <2>2. Tried(s)'
    BY <1>5, <1>8, <2>1, SessionIs DEF Tried, OpOf, Only
  <2>3. CASE s = t
    <3>1. Executed(s) = 1 .. n /\ Executed(s)' = 1 .. n + 1
      BY <1>1, <1>2, <1>3, <1>5, <1>8, <2>3 DEF Executed
    <3>2. ListOf(s[1]) = list /\ ListOf(s[1])' = list
      BY <1>1, <1>3, <1>6, <2>3
    <3>3. \A i \in Id : ValueOf(table, i) + Gain(list, i, 1 .. n) \in Counter
      BY <2>1, <3>1, <3>2 DEF Fits
    <3>4. \A i \in Id : ValueOf(table, i) + Gain(list, i, 1 .. n + 1) \in Counter
      BY <1>2, <1>4, <1>8, <3>3, NextFits
    <3>5. Fits(s)'
      BY <1>2, <3>1, <3>2, <3>4 DEF Fits
    <3>6. ASSUME NEW k \in 1 .. n + 1, ~Skipped(list[k]) PROVE owner'[RowOf(list[k])] = s
      <4>1. list[k] \in Metric /\ RowOf(list[k]) \in Row
        <5>1. list[k] \in Metric
          BY <1>2, <1>4
        <5> QED
          BY <5>1 DEF RowOf, Row, Metric
      <4>2. CASE k = n + 1
        BY <1>8, <2>3, <3>6, <4>1, <4>2 DEF WholeInv, TypeInv, Locking
      <4>3. CASE k # n + 1
        <5>1. k \in 1 .. n
          BY <1>4, <4>3
        <5>2. owner[RowOf(list[k])] = s
          BY <2>1, <3>1, <3>2, <3>6, <5>1 DEF Held
        <5> QED
          BY <1>8, <2>3, <4>1, <5>2 DEF WholeInv, TypeInv, Locking
      <4> QED
        BY <4>2, <4>3
    <3>7. Held(s)'
      BY <3>1, <3>2, <3>6 DEF Held
    <3> QED
      BY <2>2, <3>5, <3>7
  <2>4. CASE s # t
    <3>1. \A r \in Row : owner[r] = s => owner'[r] = s
      BY <1>3, <1>8, <2>4, SessionIs DEF WholeInv, TypeInv, Locking
    <3>2. Executed(s)' = Executed(s)
      <4>1. CASE s[1] = c
        <5>1. s[2] # call[c].tries
          BY <1>3, <2>4, <4>1, SessionIs
        <5> QED
          BY <1>5, <1>6, <1>8, <4>1, <5>1 DEF Executed, OpOf
      <4>2. CASE s[1] # c
        BY <1>5, <1>6, <1>8, <4>2, SessionIs DEF Executed, OpOf, Only
      <4> QED
        BY <4>1, <4>2
    <3> QED
      BY <1>2, <1>6, <2>1, <2>2, <3>1, <3>2, SessionIs, HeldKept DEF WholeInv
  <2> QED
    BY <2>3, <2>4
<1>9. \/ /\ UNCHANGED call /\ session' = [session EXCEPT ![t] = "fatal"]
         /\ owner' = Unlocked(t)
      \/ /\ call'[c].pos = n + 1 /\ UNCHANGED session
         /\ \/ Skipped(list[n + 1]) /\ UNCHANGED owner
            \/ /\ owner[RowOf(list[n + 1])] \in {NoSession, t}
               /\ ~OutOfRange(Upserts(table, SubSeq(list, 1, n)), list[n + 1])
               /\ owner' = [owner EXCEPT ![RowOf(list[n + 1])] = t]
  <2>1. call' = [call EXCEPT ![c].pos = @ + 1] => call'[c].pos = n + 1
    <3> SUFFICES ASSUME call' = [call EXCEPT ![c].pos = @ + 1] PROVE call'[c].pos = n + 1
      OBVIOUS
    <3>1. call' = [call EXCEPT ![c].pos = call[c].pos + 1]
      BY DEF WholeInv, TypeInv, ControlInv, Shaped, Fields
    <3> HIDE DEF Exec
    <3>2. call' = [call EXCEPT ![c].pos = n + 1]
      BY <1>1, <3>1
    <3> QED
      BY <3>2 DEF WholeInv, TypeInv, ControlInv, Shaped, Fields
  <2> QED
    BY <1>1, <1>2, <2>1 DEF Exec, ListOf
<1> QED
  BY <1>6, <1>7, <1>8, <1>9

-----------------------------------------------------------------------------
(* What a commit does to the table, and to what others have executed.      *)

Added(s, i) == Gain(ListOf(s[1]), i, DOMAIN ListOf(s[1]))

(* An Update that is committed adds its metric, and touches no locked row. *)
LEMMA UpdateAdds ==
    ASSUME WholeInv, NEW t \in Session, CommitUpdate(t), NEW i \in Id,
           table' = ApplyMetric(table, OpOf(t).list[1]),
           ~OutOfRange(table, OpOf(t).list[1])
    PROVE  /\ ValueOf(table', i) = ValueOf(table, i) + Added(t, i)
           /\ \/ UNCHANGED ValueOf(table, i)
              \/ owner[<<i, "counter">>] \in {NoSession, t}
<1> DEFINE list == ListOf(t[1])
           m == list[1]
           v == ValueOf(table, i)
           d == DeltaOf(list, i)[1]
<1>1. /\ OpOf(t).list = list /\ list \in Seq(Metric) /\ Len(list) = 1 /\ m \in Metric
      /\ owner[RowOf(m)] = NoSession
  BY UpdateIs DEF CommitUpdate, WholeInv, TypeInv
<1>2. DOMAIN list = {1}
  BY <1>1
<1>3. v \in Int /\ v \in Counter /\ d \in Int
  BY <1>1, <1>2, ValueType, DeltaType DEF WholeInv, TypeInv
<1>4. Added(t, i) = d
  <2>1. IsFiniteSet({1}) /\ \A k \in {1} : DeltaOf(list, i)[k] \in Int
    BY <1>3, FS_Singleton
  <2>2. SumOver(DeltaOf(list, i), {1}) = d + SumOver(DeltaOf(list, i), {1} \ {1})
    BY <2>1, SumAny
  <2>3. SumOver(DeltaOf(list, i), {1} \ {1}) = 0
    BY SumEmpty
  <2>4. Added(t, i) = SumOver(DeltaOf(list, i), {1})
    BY <1>2 DEF Added, Gain
  <2> HIDE DEF d
  <2> QED
    BY <1>3, <2>2, <2>3, <2>4
<1>5. ValueOf(table', i) = IF Counts(m, i) THEN Wrap(v + m.delta) ELSE v
  BY <1>1, ApplyValue DEF WholeInv, TypeInv
<1>6. CASE ~Counts(m, i)
  <2>1. d = 0
    BY <1>1, <1>2, <1>6, DeltaType
  <2> HIDE DEF v, d
  <2>2. v + d = v
    BY <1>3, <2>1
  <2> QED
    BY <1>4, <1>5, <1>6, <2>2 DEF v
<1>7. CASE Counts(m, i)
  <2>1. d = m.delta
    BY <1>1, <1>2, <1>7, DeltaType
  <2>2. v + m.delta \in Counter
    BY <1>1, <1>7 DEF OutOfRange, Counts
  <2>3. Wrap(v + m.delta) = v + m.delta
    BY <2>2, WrapRules
  <2>4. RowOf(m) = <<i, "counter">>
    BY <1>7 DEF RowOf, Counts
  <2>5. ValueOf(table', i) = v + d
    BY <1>5, <1>7, <2>1, <2>3
  <2> QED
    BY <1>1, <1>4, <2>4, <2>5
<1> QED
  BY <1>6, <1>7

(* A batch that is committed adds its items, whose rows it has locked. *)
LEMMA BatchAdds ==
    ASSUME WholeInv, NEW t \in Session, CommitBatch(t), NEW i \in Id
    PROVE  /\ ValueOf(table', i) = ValueOf(table, i) + Added(t, i)
           /\ \/ UNCHANGED ValueOf(table, i)
              \/ owner[<<i, "counter">>] \in {NoSession, t}
<1> DEFINE list == ListOf(t[1])
           v == ValueOf(table, i)
<1>1. /\ OpOf(t).list = list /\ list \in Seq(Metric) /\ Executed(t) = DOMAIN list
      /\ table \in Store /\ Fits(t) /\ Held(t) /\ table' = Upserts(table, list)
  BY ExecutedType DEF CommitBatch, Executed, ListOf, OpOf, WholeInv, TypeInv
<1>2. ValueOf(table', i) = Wrap(v + Added(t, i))
  BY <1>1, UpsertsIs DEF Added
<1>3. v + Added(t, i) \in Counter
  BY <1>1 DEF Fits, Added
<1>4. Wrap(v + Added(t, i)) = v + Added(t, i)
  BY <1>3, WrapRules
<1>5. CASE \E k \in DOMAIN list : Counts(list[k], i)
  <2>1. PICK k \in DOMAIN list : Counts(list[k], i)
    BY <1>5
  <2>2. RowOf(list[k]) = <<i, "counter">> /\ ~Skipped(list[k])
    BY <2>1 DEF RowOf, Counts
  <2>3. owner[RowOf(list[k])] = t
    BY <1>1, <2>2 DEF Held
  <2> QED
    BY <1>2, <1>4, <2>2, <2>3
<1>6. CASE ~ \E k \in DOMAIN list : Counts(list[k], i)
  <2>1. IsFiniteSet(DOMAIN list) /\ \A k \in DOMAIN list : DeltaOf(list, i)[k] = 0
    BY <1>1, <1>6, DeltaType
  <2>2. Added(t, i) = 0
    BY <2>1, SumZero DEF Added, Gain
  <2>3. v + 0 = v
    BY <1>1, ValueType
  <2> QED
    BY <1>2, <1>4, <2>2, <2>3
<1> QED
  BY <1>5, <1>6

(* A session that executes something that counts keeps it in range when    *)
(* another commits: nobody else changes a row that it has locked.          *)
LEMMA OthersHold ==
    ASSUME WholeInv, TypeInv', NEW t \in Session, NEW s \in Session, s # t,
           Keeps(s), UNCHANGED call,
           \A i \in Id : UNCHANGED ValueOf(table, i) \/ owner[<<i, "counter">>] \in {NoSession, t}
    PROVE  Held(s)' /\ Fits(s)'
<1>1. CASE Executed(s)' = {}
  <2>1. Held(s)'
    BY <1>1 DEF Held
  <2>2. PICK list : list = ListOf(s[1])'
    OBVIOUS
  <2>3. \A i \in Id : ValueOf(table', i) + Gain(list, i, {}) \in Counter
    BY FitsEmpty DEF TypeInv
  <2> QED
    BY <1>1, <2>1, <2>2, <2>3 DEF Fits
<1>2. CASE /\ Executed(s)' = Executed(s) /\ ListOf(s[1])' = ListOf(s[1])
           /\ \A r \in Row : owner[r] = s => owner'[r] = s
  <2>1. PICK list, E : list = ListOf(s[1]) /\ E = Executed(s)
    OBVIOUS
  <2>2. list \in Seq(Metric) /\ E \in SUBSET DOMAIN list
    BY <2>1, ExecutedType DEF WholeInv
  <2>3. \A k \in E : RowOf(list[k]) \in Row
    <3>1. \A k \in E : list[k] \in Metric
      BY <2>2
    <3>2. \A m \in Metric : RowOf(m) \in Row
      BY DEF RowOf, Row, Metric
    <3> QED
      BY <3>1, <3>2
  <2>4. \A k \in E : ~Skipped(list[k]) => owner[RowOf(list[k])] = s
    BY <2>1 DEF Held, WholeInv
  <2>5. \A k \in E : ~Skipped(list[k]) => owner'[RowOf(list[k])] = s
    BY <1>2, <2>3, <2>4
  <2>6. list = ListOf(s[1])' /\ E = Executed(s)'
    BY <1>2, <2>1
  <2>7. Held(s)'
    BY <2>5, <2>6 DEF Held
  <2>8. \A i \in Id : ValueOf(table, i) + Gain(list, i, E) \in Counter
    BY <2>1 DEF Fits, WholeInv
  <2>9. ASSUME NEW i \in Id PROVE ValueOf(table', i) + Gain(list, i, E) \in Counter
    <3>1. CASE UNCHANGED ValueOf(table, i)
      BY <2>8, <3>1
    <3>2. CASE owner[<<i, "counter">>] \in {NoSession, t}
      <4>1. ASSUME NEW k \in E PROVE ~Counts(list[k], i)
        <5> SUFFICES ASSUME Counts(list[k], i) PROVE FALSE
          OBVIOUS
        <5>1. RowOf(list[k]) = <<i, "counter">> /\ ~Skipped(list[k])
          BY DEF Counts, RowOf
        <5>2. owner[<<i, "counter">>] = s
          BY <2>4, <5>1
        <5> QED
          BY <3>2, <5>2, SessionIs
      <4>2. IsFiniteSet(E) /\ \A k \in E : DeltaOf(list, i)[k] = 0
        BY <2>2, <4>1, DeltaType, FS_Subset
      <4>3. Gain(list, i, E) = 0
        BY <4>2, SumZero DEF Gain
      <4>4. Gain(list, i, {}) = 0
        BY SumEmpty DEF Gain
      <4>5. ValueOf(table', i) + Gain(list, i, {}) \in Counter
        BY FitsEmpty DEF TypeInv
      <4> QED
        BY <4>3, <4>4, <4>5
    <3> QED
      BY <3>1, <3>2
  <2>10. Fits(s)'
    BY <2>6, <2>9 DEF Fits
  <2> QED
    BY <2>7, <2>10
<1> QED
  BY <1>1, <1>2 DEF Keeps

(* One commit more. *)
LEMMA CommitCounts ==
    ASSUME Sessions, NEW t \in Session, session[t] = "sent",
           session' = [session EXCEPT ![t] = "committed"]
    PROVE  /\ Commits(t[1])' = Commits(t[1]) + 1
           /\ \A d \in Caller \ {t[1]} : Commits(d)' = Commits(d)
<1> DEFINE c == t[1]
           S == {k \in Try : session[<<c, k>>] = "committed"}
           T == {k \in Try : session'[<<c, k>>] = "committed"}
<1>1. c \in Caller /\ t[2] \in Try /\ t = <<c, t[2]>>
  BY SessionIs
<1>2. \A s \in Session : session'[s] = IF s = t THEN "committed" ELSE session[s]
  BY DEF Sessions
<1>3. \A d \in Caller, k \in Try : /\ <<d, k>> \in Session
                                  /\ <<d, k>> = t <=> d = c /\ k = t[2]
  BY <1>1 DEF Session
<1>4. T = S \cup {t[2]} /\ t[2] \notin S
  BY <1>1, <1>2, <1>3
<1>5. IsFiniteSet(S)
  BY TryFinite, FS_Subset
<1>6. Cardinality(T) = Cardinality(S) + 1
  <2> HIDE DEF S, T
  <2> QED
    BY <1>4, <1>5, FS_AddElement
<1>7. Commits(c) = Cardinality(S) /\ Commits(c)' = Cardinality(T)
  BY DEF Commits
<1>8. ASSUME NEW d \in Caller \ {c} PROVE Commits(d)' = Commits(d)
  <2>1. {k \in Try : session'[<<d, k>>] = "committed"}
           = {k \in Try : session[<<d, k>>] = "committed"}
    BY <1>2, <1>3
  <2> QED
    BY <2>1 DEF Commits
<1> QED
  BY <1>6, <1>7, <1>8

(* The total grows by what the call adds. *)
LEMMA TotalGrows ==
    ASSUME ControlInv, NEW t \in Session, NEW f \in [Caller -> Int], NEW h \in [Caller -> Int],
           h[t[1]] = f[t[1]] + 1, \A d \in Caller \ {t[1]} : h[d] = f[d], NEW i
    PROVE  TotalOf(h, i) = TotalOf(f, i) + Added(t, i)
<1> DEFINE c == t[1]
           a == Added(t, i)
           p == Weighted(f, i)
           q == Weighted(h, i)
<1>1. c \in Caller
  BY SessionIs
<1>2. /\ \A d \in Caller : p[d] \in Int /\ q[d] \in Int
      /\ IsFiniteSet(Caller) /\ TotalOf(f, i) \in Int
  BY WeightedType
<1>3. \A d \in Caller \ {c} : q[d] = p[d]
  BY DEF Weighted
<1>4. p[c] = f[c] * a /\ q[c] = (f[c] + 1) * a
  BY <1>1 DEF Weighted, Added
<1>5. a \in Int /\ f[c] \in Int
  BY <1>1, ListType, GainType DEF Added
<1> HIDE DEF p, q, a
<1>6. SumOver(q, Caller) = SumOver(p, Caller) - p[c] + q[c]
  <2> HIDE DEF c
  <2> QED
    BY <1>1, <1>2, <1>3, SumChange
<1>7. TotalOf(f, i) = SumOver(p, Caller) /\ TotalOf(h, i) = SumOver(q, Caller)
  BY DEF TotalOf, p, q
<1>8. \A n \in Int : (n + 1) * a = n * a + a
  BY <1>5
<1>9. q[c] = p[c] + a /\ p[c] \in Int /\ q[c] \in Int
  BY <1>1, <1>2, <1>4, <1>5, <1>8
<1>10. SumOver(p, Caller) - p[c] + q[c] = SumOver(p, Caller) + a
  <2> DEFINE x == SumOver(p, Caller)
             y == p[c]
             z == q[c]
  <2>1. x \in Int /\ y \in Int /\ z = y + a
    BY <1>2, <1>7, <1>9
  <2> HIDE DEF x, y, z
  <2>2. x - y + z = x + a
    BY <1>5, <2>1
  <2> QED
    BY <2>2 DEF x, y, z
<1> QED
  BY <1>6, <1>7, <1>10 DEF a

(* A commit keeps the table whole. *)
LEMMA CommitWhole ==
    ASSUME WholeInv, TypeInv', NEW t \in Session, Commit(t)
    PROVE  Whole' /\ \A s \in Session : Tried(s)' /\ Held(s)' /\ Fits(s)'
<1>1. /\ session[t] = "sent" /\ owner' = Unlocked(t) /\ UNCHANGED call
      /\ Sessions /\ ControlInv
  BY DEF Commit, CommitUpdate, CommitBatch, Ends, WholeInv, TypeInv
<1>2. CASE session' = [session EXCEPT ![t] = "fatal"] /\ UNCHANGED table
  <2>1. \A s \in Session : Keeps(s)
    BY <1>1, <1>2, EndKeeps
  <2>2. \A s \in Session : Held(s)' /\ Fits(s)'
    BY <1>2, <2>1, HeldKept DEF Keeps, WholeInv
  <2>3. \A s \in Session : session'[s] = "committed" <=> session[s] = "committed"
    BY <1>1, <1>2 DEF Sessions
  <2>4. \A c \in Caller : ListOf(c)' = ListOf(c)
    BY <1>1 DEF ListOf
  <2>5. Whole'
    BY <1>2, <2>3, <2>4, WholeKept
  <2> QED
    BY <2>1, <2>2, <2>5 DEF Keeps
<1>3. ASSUME session' = [session EXCEPT ![t] = "committed"],
             \A i \in Id : /\ ValueOf(table', i) = ValueOf(table, i) + Added(t, i)
                           /\ \/ UNCHANGED ValueOf(table, i)
                              \/ owner[<<i, "counter">>] \in {NoSession, t}
      PROVE  Whole' /\ \A s \in Session : Tried(s)' /\ Held(s)' /\ Fits(s)'
  <2>1. \A s \in Session : Keeps(s)
    BY <1>1, <1>3, EndKeeps
  <2>2. ASSUME NEW s \in Session PROVE Held(s)' /\ Fits(s)'
    <3>1. CASE s # t
      BY <1>1, <1>3, <2>1, <3>1, OthersHold
    <3>2. CASE s = t
      <4>1. session'[s] = "committed"
        BY <1>1, <1>3, <3>2 DEF Sessions
      <4>2. Executed(s)' = {}
        BY <4>1 DEF Executed
      <4>3. Held(s)'
        BY <4>2 DEF Held
      <4>4. PICK list : list = ListOf(s[1])'
        OBVIOUS
      <4>5. \A i \in Id : ValueOf(table', i) + Gain(list, i, {}) \in Counter
        BY FitsEmpty DEF TypeInv
      <4> QED
        BY <4>2, <4>3, <4>4, <4>5 DEF Fits
    <3> QED
      BY <3>1, <3>2
  <2>3. PICK f, h : f = Committed /\ h = Committed'
    OBVIOUS
  <2>4. /\ f \in [Caller -> Int] /\ h \in [Caller -> Int]
        /\ \A d \in Caller : f[d] = Commits(d) /\ h[d] = Commits(d)'
    <3>1. f \in [Caller -> Int] /\ \A d \in Caller : f[d] = Commits(d)
      BY <2>3, CommitsType
    <3>2. (\A d \in Caller : h[d] = Commits(d)') /\ h = [d \in Caller |-> Commits(d)']
      BY <2>3 DEF Committed
    <3>3. ASSUME NEW d \in Caller PROVE Commits(d)' \in Int
      <4>1. Commits(d) \in Nat
        BY CommitsType
      <4>2. Commits(d)' = Commits(d) \/ Commits(d)' = Commits(d) + 1
        BY <1>1, <1>3, CommitCounts
      <4> QED
        BY <4>1, <4>2
    <3> QED
      BY <3>1, <3>2, <3>3
  <2>5. h[t[1]] = f[t[1]] + 1 /\ \A d \in Caller \ {t[1]} : h[d] = f[d]
    BY <1>1, <1>3, <2>4, CommitCounts, SessionIs
  <2>6. ASSUME NEW i \in Id PROVE ValueOf(table', i) = TotalOf(h, i)'
    <3>1. TotalOf(h, i)' = TotalOf(h, i)
      <4>1. ControlInv' /\ \A c \in Caller : ListOf(c)' = ListOf(c)
        BY <1>1 DEF TypeInv, ListOf
      <4> QED
        BY <1>1, <2>4, <4>1, TotalSame
    <3>2. TotalOf(h, i) = TotalOf(f, i) + Added(t, i)
      BY <1>1, <2>4, <2>5, TotalGrows
    <3>3. ValueOf(table, i) = TotalOf(f, i)
      BY <2>3 DEF WholeInv, Whole
    <3> QED
      BY <1>3, <3>1, <3>2, <3>3
  <2>7. Whole'
    BY <2>3, <2>6 DEF Whole
  <2> QED
    BY <2>1, <2>2, <2>7 DEF Keeps
<1>4. CASE CommitBatch(t)
  BY <1>3, <1>4, BatchAdds DEF CommitBatch, Ends
<1>5. CASE CommitUpdate(t)
  <2>1. CASE OutOfRange(table, OpOf(t).list[1])
    BY <1>2, <1>5, <2>1 DEF CommitUpdate, Ends
  <2>2. CASE ~OutOfRange(table, OpOf(t).list[1])
    <3>1. /\ table' = ApplyMetric(table, OpOf(t).list[1])
          /\ session' = [session EXCEPT ![t] = "committed"]
      BY <1>5, <2>2 DEF CommitUpdate, Ends
    <3> QED
      BY <1>3, <1>5, <2>2, <3>1, UpdateAdds
  <2> QED
    BY <2>1, <2>2
<1> QED
  BY <1>4, <1>5 DEF Commit

-----------------------------------------------------------------------------
(* Every step keeps WholeInv. *)
LEMMA WholeStep ==
    ASSUME WholeInv, [Next]_vars
    PROVE  WholeInv'
<1>1. TypeInv' /\ TypeInv
  BY TypeStep DEF WholeInv
<1>2. ASSUME UNCHANGED table, \A s \in Session : Keeps(s),
             \A s \in Session : session'[s] = "committed" <=> session[s] = "committed",
             \A c \in Caller : ListOf(c)' = ListOf(c) \/ Commits(c) = 0
      PROVE  WholeInv'
  <2>1. \A s \in Session : Tried(s)' /\ Held(s)' /\ Fits(s)'
    BY <1>1, <1>2, HeldKept DEF Keeps, WholeInv
  <2>2. Whole'
    BY <1>1, <1>2, WholeKept
  <2> QED
    BY <1>1, <2>1, <2>2 DEF WholeInv
<1>3. CASE UNCHANGED vars
  <2>1. \A s \in Session : Keeps(s)
    BY <1>3, Elsewhere DEF WholeInv, vars
  <2> QED
    BY <1>2, <1>3, <2>1 DEF vars, ListOf
<1>4. ASSUME NEW c \in Caller, Starts(c) \/ Goes(c) \/ Finishes(c)
      PROVE  WholeInv'
  <2>1. CASE Call(c)
    BY <1>2, <2>1, CallKeeps DEF Call
  <2>2. CASE Connect(c)
    BY <1>2, <2>2, ConnectKeeps DEF Connect
  <2>3. CASE Timer(c)
    BY <1>2, <2>3, TimerKeeps DEF Timer
  <2>4. CASE Exec(c)
    <3>1. /\ \A s \in Session : Tried(s)' /\ Held(s)' /\ Fits(s)'
          /\ \A d \in Caller : ListOf(d)' = ListOf(d)
          /\ \A s \in Session : session'[s] = "committed" <=> session[s] = "committed"
          /\ UNCHANGED table
      BY <1>1, <2>4, ExecHolds DEF Exec
    <3>2. Whole'
      BY <1>1, <3>1, WholeKept
    <3> QED
      BY <1>1, <3>1, <3>2 DEF WholeInv
  <2>5. CASE SendCommit(c)
    BY <1>2, <2>5, SendKeeps DEF SendCommit
  <2>6. CASE Query(c) \/ ScanRow(c)
    BY <1>2, <2>6, ReadKeeps DEF Query, ScanRow
  <2>7. CASE Finishes(c)
    BY <1>2, <2>7, FinishKeeps
  <2> QED
    BY <1>4, <2>1, <2>2, <2>3, <2>4, <2>5, <2>6, <2>7 DEF Starts, Goes
<1>5. ASSUME NEW t \in Session, Commit(t) PROVE WholeInv'
  BY <1>1, <1>5, CommitWhole DEF WholeInv
<1>6. ASSUME NEW t \in Session, Abort(t) PROVE WholeInv'
  <2>1. /\ session[t] \in {"open", "sent"} /\ session' = [session EXCEPT ![t] = "retriable"]
        /\ owner' = Unlocked(t) /\ UNCHANGED <<call, table>>
    BY <1>6 DEF Abort, Ends
  <2>2. \A s \in Session : Keeps(s)
    BY <2>1, EndKeeps
  <2>3. \A s \in Session : session'[s] = "committed" <=> session[s] = "committed"
    BY <2>1 DEF WholeInv, TypeInv, Sessions
  <2>4. \A c \in Caller : ListOf(c)' = ListOf(c)
    BY <2>1 DEF ListOf
  <2> QED
    BY <1>2, <2>1, <2>2, <2>3, <2>4
<1> QED
  BY <1>3, <1>4, <1>5, <1>6, NextIs

(* WholeInv holds at first: no row, no commit. *)
LEMMA WholeInit == Init => WholeInv
<1> SUFFICES ASSUME Init PROVE WholeInv
  OBVIOUS
<1>1. TypeInv
  BY TypeInit
<1>2. \A s \in Session : session[s] = "none"
  BY DEF Init
<1>3. ASSUME NEW s \in Session PROVE Tried(s) /\ Held(s) /\ Fits(s)
  <2>1. Executed(s) = {}
    BY <1>2 DEF Executed
  <2>2. Fits(s)
    BY <1>1, <2>1, FitsEmpty DEF Fits, TypeInv
  <2> QED
    BY <1>2, <2>1, <2>2 DEF Tried, Held
<1>4. ASSUME NEW c \in Caller PROVE Commits(c) = 0
  <2>1. {k \in Try : session[<<c, k>>] = "committed"} = {}
    BY <1>2 DEF Session
  <2> QED
    BY <2>1, FS_EmptySet DEF Commits
<1>5. ASSUME NEW i \in Id PROVE ValueOf(table, i) = TotalOf(Committed, i)
  <2>1. ValueOf(table, i) = 0
    BY DEF Init, NewMemStorage, ValueOf, HasCounter
  <2>2. ASSUME NEW c \in Caller PROVE Weighted(Committed, i)[c] = 0
    <3>1. Gain(ListOf(c), i, DOMAIN ListOf(c)) \in Int
      BY <1>1, ListType, GainType DEF TypeInv
    <3>2. \A n \in Int : 0 * n = 0
      OBVIOUS
    <3>3. Committed[c] = 0
      BY <1>4 DEF Committed
    <3> QED
      BY <3>1, <3>2, <3>3 DEF Weighted
  <2>3. IsFiniteSet(Caller)
    BY PostgresAssumption
  <2>4. TotalOf(Committed, i) = 0
    BY <2>2, <2>3, SumZero DEF TotalOf
  <2> QED
    BY <2>1, <2>4
<1> QED
  BY <1>1, <1>3, <1>5 DEF WholeInv, Whole

(* WholeInv says what the property says. *)
LEMMA WholeMeans == WholeInv => TableIsWholeCalls
<1> SUFFICES ASSUME WholeInv, NEW i \in Id
             PROVE  ValueOf(table, i) = Counters([c \in Caller |-> Commits(c)])[i]
  BY DEF TableIsWholeCalls
<1>1. PICK f : f = Committed
  OBVIOUS
<1>2. f \in [Caller -> Int]
  BY <1>1, CommitsType
<1>3. CounterOf(f, i) = TotalOf(f, i)
  BY <1>2, CounterOfIs DEF WholeInv, TypeInv
<1>4. Counters(f)[i] = CounterOf(f, i)
  BY DEF Counters
<1> QED
  BY <1>1, <1>3, <1>4 DEF WholeInv, Whole, Committed

(* The counters of the table are the sums of the calls committed, whole    *)
(* and in range: no statement of a transaction is seen before its commit   *)
(* or without it (UpdateBatch, pgstorage.go:219), and no two of them add   *)
(* to the same value of a row (ON CONFLICT ... metrics.delta + ...).       *)
THEOREM WholeCalls == Spec => []TableIsWholeCalls
  BY WholeInit, WholeStep, WholeMeans, PTL DEF Spec

-----------------------------------------------------------------------------
(* A list is of one moment.                                                *)

(* f is how often each call was committed at the moment of a query that    *)
(* returned the rows S.                                                    *)
Shows(S, f) ==
    /\ f \in [Caller -> 0 .. Retries + 1]
    /\ \A d \in Caller : f[d] <= Commits(d)
    /\ \A m \in S : m.mtype = "counter" => m.delta = TotalOf(f, m.id)
    /\ \A i \in Id : (\A m \in S : m.id # i) => TotalOf(f, i) = 0

(* A list in the making has such a moment; before it has nothing.          *)
Moment(c) ==
    /\ call[c].op.kind = "list" /\ call[c].pc \in {"scan", "ok"} =>
          \E f : Shows(call[c].rows \cup call[c].out, f)
    /\ call[c].pc # "scan" => call[c].rows = {}
    /\ call[c].pc \notin {"scan", "ok"} => call[c].out = {}
    /\ call[c].pc = "wait" => call[c].op.kind # "list"

MomentInv == WholeInv /\ \A c \in Caller : Moment(c)

(* No commit is ever undone, and no call that was committed changes. *)
Grows ==
    \A c \in Caller : /\ Commits(c) <= Commits(c)'
                      /\ ListOf(c)' = ListOf(c) \/ Commits(c) = 0

(* Every step only adds commits. *)
LEMMA CommitsGrow ==
    ASSUME WholeInv, Next
    PROVE  Grows
<1>1. ASSUME \A s \in Session : session'[s] = "committed" <=> session[s] = "committed",
             \A c \in Caller : ListOf(c)' = ListOf(c) \/ Commits(c) = 0
      PROVE  Grows
  <2> SUFFICES ASSUME NEW c \in Caller
               PROVE  Commits(c) <= Commits(c)' /\ (ListOf(c)' = ListOf(c) \/ Commits(c) = 0)
    BY DEF Grows
  <2>1. PICK f : f = Committed
    OBVIOUS
  <2>2. f = Committed'
    BY <1>1, <2>1, CommitsSame
  <2>3. f[c] = Commits(c) /\ f[c] = Commits(c)'
    BY <2>1, <2>2 DEF Committed
  <2>4. Commits(c) \in Nat /\ Commits(c)' = Commits(c)
    BY <2>3, CommitsType
  <2>5. Commits(c) <= Commits(c)'
    BY <2>4
  <2> QED
    BY <1>1, <2>5
<1>2. ASSUME NEW c \in Caller, Starts(c) \/ Goes(c) \/ Finishes(c)
      PROVE  Grows
  <2>1. CASE Call(c)
    BY <1>1, <2>1, CallKeeps DEF Call
  <2>2. CASE Connect(c)
    BY <1>1, <2>2, ConnectKeeps
  <2>3. CASE Timer(c)
    BY <1>1, <2>3, TimerKeeps DEF Timer
  <2>4. CASE Exec(c)
    <3>1. TypeInv'
      BY TypeStep DEF WholeInv
    <3> QED
      BY <1>1, <2>4, <3>1, ExecHolds
  <2>5. CASE SendCommit(c)
    BY <1>1, <2>5, SendKeeps
  <2>6. CASE Query(c) \/ ScanRow(c)
    BY <1>1, <2>6, ReadKeeps DEF Query, ScanRow
  <2>7. CASE Finishes(c)
    BY <1>1, <2>7, FinishKeeps
  <2> QED
    BY <1>2, <2>1, <2>2, <2>3, <2>4, <2>5, <2>6, <2>7 DEF Starts, Goes
<1>3. ASSUME NEW t \in Session, NEW o \in {"retriable", "fatal"},
             session[t] \in {"open", "sent"}, session' = [session EXCEPT ![t] = o],
             UNCHANGED call
      PROVE  Grows
  <2>1. \A s \in Session : session'[s] = "committed" <=> session[s] = "committed"
    BY <1>3 DEF WholeInv, TypeInv, Sessions
  <2> QED
    BY <1>1, <1>3, <2>1 DEF ListOf
<1>4. ASSUME NEW t \in Session, session[t] = "sent",
             session' = [session EXCEPT ![t] = "committed"], UNCHANGED call
      PROVE  Grows
  <2> SUFFICES ASSUME NEW c \in Caller
               PROVE  Commits(c) <= Commits(c)' /\ (ListOf(c)' = ListOf(c) \/ Commits(c) = 0)
    BY DEF Grows
  <2>1. Commits(c) \in Nat
    BY CommitsType
  <2>2. Commits(c)' = Commits(c) \/ Commits(c)' = Commits(c) + 1
    BY <1>4, CommitCounts DEF WholeInv, TypeInv
  <2> QED
    BY <1>4, <2>1, <2>2 DEF ListOf
<1>5. ASSUME NEW t \in Session, Commit(t) \/ Abort(t) PROVE Grows
  BY <1>3, <1>4, <1>5 DEF Commit, CommitUpdate, CommitBatch, Abort, Ends
<1> QED
  BY <1>2, <1>5, NextIs

(* A moment that is past stays the moment it was. *)
LEMMA StillShows ==
    ASSUME ControlInv, ControlInv', Grows, NEW S \in SUBSET Metric, NEW f, Shows(S, f)
    PROVE  Shows(S, f)'
<1>1. f \in [Caller -> Int] /\ f \in [Caller -> 0 .. Retries + 1]
  BY PostgresAssumption DEF Shows
<1>2. ASSUME NEW d \in Caller PROVE f[d] <= Commits(d)' /\ (ListOf(d)' = ListOf(d) \/ f[d] = 0)
  <2>1. Commits(d) \in Nat /\ f[d] \in Nat /\ f[d] <= Commits(d)
    BY <1>1, CommitsType, PostgresAssumption DEF Shows
  <2>2. Commits(d) <= Commits(d)' /\ (ListOf(d)' = ListOf(d) \/ Commits(d) = 0)
    BY DEF Grows
  <2>3. Commits(d)' \in Nat
    <3>1. (/\ Committed \in [Caller -> Nat]
           /\ \A c \in Caller : Committed[c] = Commits(c) /\ Commits(c) \in Nat)'
      BY CommitsType, PTL
    <3> QED
      BY <3>1
  <2> QED
    BY <2>1, <2>2, <2>3
<1>3. \A i : TotalOf(f, i)' = TotalOf(f, i)
  BY <1>1, <1>2, TotalSame
<1>4. \A m \in S : m.mtype = "counter" => m.delta = TotalOf(f, m.id)'
  BY <1>3 DEF Shows
<1>5. \A i \in Id : (\A m \in S : m.id # i) => TotalOf(f, i)' = 0
  BY <1>3 DEF Shows
<1> QED
  BY <1>1, <1>2, <1>4, <1>5 DEF Shows

(* The rows of a query show the moment it is made. *)
LEMMA QueryShows ==
    ASSUME WholeInv
    PROVE  Shows(RowsOf(table), Committed)
<1>1. ASSUME NEW c \in Caller PROVE Committed[c] \in 0 .. Retries + 1
  <2> DEFINE S == {k \in Try : session[<<c, k>>] = "committed"}
  <2>1. S \subseteq Try /\ IsFiniteSet(Try)
    BY TryFinite
  <2>2. Cardinality(S) <= Cardinality(Try)
    BY <2>1, FS_Subset
  <2>3. Retries + 1 \in Nat /\ 1 \in Int
    BY PostgresAssumption
  <2>4. Cardinality(Try) = Retries + 1
    BY <2>3, FS_Interval DEF Try
  <2>5. Committed[c] = Cardinality(S) /\ Committed[c] \in Nat
    BY CommitsType DEF Commits
  <2> HIDE DEF S
  <2> QED
    BY <2>2, <2>3, <2>4, <2>5
<1>2. Committed \in [Caller -> 0 .. Retries + 1]
  BY <1>1 DEF Committed
<1>3. \A d \in Caller : Committed[d] <= Commits(d)
  BY CommitsType
<1>4. \A i \in Id : ValueOf(table, i) = TotalOf(Committed, i)
  BY DEF WholeInv, Whole
<1>5. ASSUME NEW m \in RowsOf(table), m.mtype = "counter" PROVE m.delta = TotalOf(Committed, m.id)
  <2>1. \E i \in Id : HasCounter(table, i) /\ m = Count(i, table.counters[i])
    BY <1>5 DEF RowsOf, Gauge
  <2>2. m.id \in Id /\ HasCounter(table, m.id) /\ m.delta = table.counters[m.id]
    BY <2>1 DEF Count
  <2> QED
    BY <1>4, <2>2 DEF ValueOf
<1>6. ASSUME NEW i \in Id, \A m \in RowsOf(table) : m.id # i PROVE TotalOf(Committed, i) = 0
  <2>1. ~HasCounter(table, i)
    <3> SUFFICES ASSUME HasCounter(table, i) PROVE FALSE
      OBVIOUS
    <3>1. Count(i, table.counters[i]) \in RowsOf(table)
      BY DEF RowsOf
    <3>2. Count(i, table.counters[i]).id = i
      BY DEF Count
    <3> QED
      BY <1>6, <3>1, <3>2
  <2> QED
    BY <1>4, <2>1 DEF ValueOf
<1> QED
  BY <1>2, <1>3, <1>5, <1>6 DEF Shows

(* The order in which rows are scanned does not change what they show. *)
LEMMA ScanShows ==
    ASSUME NEW rows, NEW out, NEW m \in rows, NEW f, Shows(rows \cup out, f)
    PROVE  Shows((rows \ {m}) \cup ({o \in out : o.id # m.id} \cup {m}), f)
<1> DEFINE S == rows \cup out
           T == (rows \ {m}) \cup ({o \in out : o.id # m.id} \cup {m})
<1>1. T \subseteq S
  OBVIOUS
<1>2. ASSUME NEW i, \A o \in T : o.id # i PROVE \A o \in S : o.id # i
  BY <1>2
<1> HIDE DEF S, T
<1>3. Shows(S, f) => Shows(T, f)
  BY <1>1, <1>2 DEF Shows
<1> QED
  BY <1>3 DEF S, T

(* The lists of callers that a step leaves alone stay of their moment. *)
LEMMA MomentFrame ==
    ASSUME TypeInv, TypeInv', Grows, NEW d \in Caller, Moment(d), call'[d] = call[d]
    PROVE  Moment(d)'
<1>1. ASSUME call[d].op.kind = "list", call[d].pc \in {"scan", "ok"}
      PROVE  \E f : Shows(call[d].rows \cup call[d].out, f)'
  <2>1. PICK S : S = call[d].rows \cup call[d].out
    OBVIOUS
  <2>2. PICK f : Shows(S, f)
    BY <1>1, <2>1 DEF Moment
  <2>3. S \in SUBSET Metric
    BY <2>1 DEF TypeInv, Progress
  <2>4. Shows(S, f)'
    BY <2>2, <2>3, StillShows DEF TypeInv
  <2>5. S = call'[d].rows \cup call'[d].out
    BY <2>1
  <2> QED
    BY <2>4, <2>5
<1> QED
  BY <1>1 DEF Moment

(* Every step keeps MomentInv. *)
LEMMA MomentStep ==
    ASSUME MomentInv, Next
    PROVE  MomentInv'
<1>1. TypeInv /\ TypeInv' /\ WholeInv /\ WholeInv' /\ Grows /\ Shaped
  BY WholeStep, CommitsGrow DEF MomentInv, WholeInv, TypeInv, ControlInv
<1>2. ASSUME NEW c \in Caller, Only(c), Moment(c)' PROVE \A d \in Caller : Moment(d)'
  <2> TAKE d \in Caller
  <2>1. CASE d = c
    BY <1>2, <2>1
  <2>2. CASE d # c
    BY <1>1, <1>2, <2>2, MomentFrame DEF Only, MomentInv
  <2> QED
    BY <2>1, <2>2
<1>3. CASE \E s \in Session : Commit(s) \/ Abort(s)
  BY <1>1, <1>3, DatabaseStep, MomentFrame DEF MomentInv
<1>4. ASSUME NEW c \in Caller, Starts(c) PROVE Moment(c)' /\ Only(c)
  <2>1. Moment(c)
    BY DEF MomentInv
  <2>2. CASE Call(c)
    BY <1>1, <2>1, <2>2, CallCall DEF Moment
  <2>3. CASE Timer(c)
    BY <1>1, <2>1, <2>3, TimerCall DEF Moment
  <2>4. CASE Connect(c)
    <3>1. call[c].pc = "begin"
      BY <2>4 DEF Connect
    <3> QED
      BY <1>1, <2>1, <2>4, <3>1, ConnectCall DEF Moment
  <2> QED
    BY <1>4, <2>2, <2>3, <2>4 DEF Starts
<1>5. ASSUME NEW c \in Caller, Goes(c) PROVE Moment(c)' /\ Only(c)
  <2>1. Moment(c)
    BY DEF MomentInv
  <2>2. CASE Exec(c)
    <3>1. call[c].pc = "exec"
      BY <2>2 DEF Exec, AtMetric
    <3> QED
      BY <1>1, <2>1, <2>2, <3>1, ExecCall DEF Moment
  <2>3. CASE SendCommit(c)
    <3>1. call[c].pc = "exec" /\ call[c].op.kind = "batch"
      BY <2>3 DEF SendCommit
    <3> QED
      BY <1>1, <2>1, <2>3, <3>1, SendCall DEF Moment
  <2>4. CASE Query(c)
    <3>1. PICK S, f : S = RowsOf(table) /\ f = Committed
      OBVIOUS
    <3>2. Shows(S, f) /\ S \in SUBSET Metric
      BY <1>1, <3>1, QueryShows, RowsType DEF TypeInv
    <3>3. Shows(S, f)'
      BY <1>1, <3>2, StillShows DEF TypeInv
    <3>4. call[c].pc = "exec"
      BY <2>4 DEF Query
    <3>5. /\ Only(c) /\ call'[c].pc = "scan"
          /\ call'[c].rows = S /\ call'[c].out = {}
      BY <1>1, <2>1, <2>4, <3>1, <3>4, QueryCall DEF Moment
    <3>6. S = call'[c].rows \cup call'[c].out
      BY <3>5
    <3> QED
      BY <3>3, <3>5, <3>6 DEF Moment
  <2>5. CASE ScanRow(c)
    <3>1. PICK m \in call[c].rows :
             /\ call'[c].rows = call[c].rows \ {m}
             /\ call'[c].out = {o \in call[c].out : o.id # m.id} \cup {m}
      BY <1>1, <2>5, ScanCall
    <3>2. call[c].pc = "scan" /\ call'[c].pc = "scan" /\ Only(c) /\ call'[c].op = call[c].op
      BY <1>1, <2>5, ScanCall DEF ScanRow
    <3>3. call[c].op.kind = "list"
      BY <1>1, <3>2 DEF TypeInv, ControlInv, Control
    <3>4. PICK S : S = (call[c].rows \ {m}) \cup ({o \in call[c].out : o.id # m.id} \cup {m})
      OBVIOUS
    <3>5. PICK f : Shows(S, f)
      BY <2>1, <3>2, <3>3, <3>4, ScanShows DEF Moment
    <3>6. S \in SUBSET Metric
      BY <1>1, <3>4 DEF TypeInv, Progress
    <3>7. Shows(S, f)'
      BY <1>1, <3>5, <3>6, StillShows DEF TypeInv
    <3>8. S = call'[c].rows \cup call'[c].out
      BY <3>1, <3>4
    <3> QED
      BY <3>2, <3>7, <3>8 DEF Moment
  <2> QED
    BY <1>5, <2>2, <2>3, <2>4, <2>5 DEF Goes
<1>6. ASSUME NEW c \in Caller, Finishes(c) PROVE Moment(c)' /\ Only(c)
  <2>1. Moment(c) /\ Control(c)
    BY <1>1 DEF MomentInv, TypeInv, ControlInv
  <2>2. CASE ScanEnds(c)
    <3>1. call[c].pc = "scan" /\ call[c].rows = {} /\ Release(c, "ok", 0)
      BY <2>2 DEF ScanEnds
    <3>2. /\ Only(c) /\ call'[c].pc = "ok" /\ call'[c].rows = {}
          /\ call'[c].out = call[c].out /\ call'[c].op = call[c].op
      BY <1>1, <3>1, ReleaseCall
    <3>3. call[c].op.kind = "list"
      BY <2>1, <3>1 DEF Control
    <3>4. PICK S : S = call[c].rows \cup call[c].out
      OBVIOUS
    <3>5. PICK f : Shows(S, f)
      BY <2>1, <3>1, <3>3, <3>4 DEF Moment
    <3>6. S \in SUBSET Metric
      BY <1>1, <3>4 DEF TypeInv, Progress
    <3>7. Shows(S, f)'
      BY <1>1, <3>5, <3>6, StillShows DEF TypeInv
    <3>8. S = call'[c].rows \cup call'[c].out
      BY <3>1, <3>2, <3>4
    <3> QED
      BY <3>2, <3>7, <3>8 DEF Moment
  <2>3. CASE Answered(c)
    <3>1. PICK pc : pc = Returned(c, TRUE)
      OBVIOUS
    <3>2. Release(c, pc, 0) /\ call[c].pc = "wait" /\ pc \in {"ok", "void"}
      BY <2>3, <3>1 DEF Answered, Returned
    <3>3. call[c].op.kind # "list" /\ call[c].out = {}
      BY <2>1, <3>2 DEF Moment
    <3>4. /\ Only(c) /\ call'[c].pc = pc /\ call'[c].rows = {}
          /\ call'[c].out = {} /\ call'[c].op = call[c].op
      BY <1>1, <3>2, <3>3, ReleaseCall
    <3> QED
      BY <3>2, <3>3, <3>4 DEF Moment
  <2>4. CASE Refused(c) \/ Lost(c) \/ ScanFails(c)
    <3>1. PICK pc, n : Release(c, pc, n) /\ pc \in {"backoff", "error", "void"}
      <4>1. CASE Refused(c)
        BY <2>1, <4>1, AfterIs DEF Refused
      <4>2. CASE Lost(c)
        <5>1. PICK retry \in BOOLEAN :
                 Release(c, After(c, retry), IF After(c, retry) = "backoff" THEN 1 ELSE 0)
          BY <4>2 DEF Lost
        <5> QED
          BY <2>1, <5>1, AfterIs
      <4>3. CASE ScanFails(c)
        BY <4>3 DEF ScanFails
      <4> QED
        BY <2>4, <4>1, <4>2, <4>3
    <3>2. /\ Only(c) /\ call'[c].pc = pc /\ call'[c].rows = {} /\ call'[c].out = {}
      BY <1>1, <3>1, ReleaseCall
    <3> QED
      BY <3>1, <3>2 DEF Moment
  <2> QED
    BY <1>6, <2>2, <2>3, <2>4 DEF Finishes
<1> QED
  BY <1>1, <1>2, <1>3, <1>4, <1>5, <1>6, NextIs DEF MomentInv

(* Nothing changes while nothing happens. *)
LEMMA MomentStutter ==
    ASSUME MomentInv, UNCHANGED vars
    PROVE  MomentInv'
<1>1. TypeInv /\ TypeInv' /\ WholeInv'
  BY WholeStep DEF MomentInv, WholeInv
<1>2. Grows
  <2> SUFFICES ASSUME NEW c \in Caller
               PROVE  Commits(c) <= Commits(c)' /\ (ListOf(c)' = ListOf(c) \/ Commits(c) = 0)
    BY DEF Grows
  <2>1. Commits(c) \in Nat
    BY CommitsType
  <2>2. Commits(c)' = Commits(c)
    BY DEF Commits, vars
  <2> QED
    BY <2>1, <2>2 DEF vars, ListOf
<1> QED
  BY <1>1, <1>2, MomentFrame DEF MomentInv, vars

(* MomentInv holds at first: nobody has asked for a list. *)
LEMMA MomentInit == Init => MomentInv
<1>1. Init => \A c \in Caller : Moment(c)
  BY DEF Init, NotCalled, Moment
<1> QED
  BY <1>1, WholeInit DEF MomentInv

(* MomentInv says what the property says. *)
LEMMA MomentMeans == MomentInv => ListIsOfOneMoment
<1> SUFFICES ASSUME MomentInv, NEW c \in Caller, call[c].op.kind = "list", call[c].pc = "ok"
             PROVE  \E f \in [Caller -> 0 .. Retries + 1] :
                       /\ \A d \in Caller : f[d] <= Commits(d)
                       /\ \A i \in Id :
                             \/ \E m \in call[c].out :
                                   m.id = i /\ (m.mtype = "gauge" \/ m.delta = Counters(f)[i])
                             \/ Counters(f)[i] = 0 /\ \A m \in call[c].out : m.id # i
  BY DEF ListIsOfOneMoment
<1>1. call[c].rows = {} /\ call[c].rows \cup call[c].out = call[c].out
  BY DEF MomentInv, Moment
<1>2. PICK f : Shows(call[c].out, f)
  BY <1>1 DEF MomentInv, Moment
<1>3. call[c].out \subseteq Metric
  BY DEF MomentInv, WholeInv, TypeInv, Progress
<1>4. f \in [Caller -> 0 .. Retries + 1] /\ f \in [Caller -> Int]
  BY <1>2, PostgresAssumption DEF Shows
<1>5. ASSUME NEW i \in Id PROVE Counters(f)[i] = TotalOf(f, i)
  BY <1>4, CounterOfIs DEF Counters, MomentInv, WholeInv, TypeInv
<1>6. ASSUME NEW i \in Id
      PROVE  \/ \E m \in call[c].out :
                   m.id = i /\ (m.mtype = "gauge" \/ m.delta = Counters(f)[i])
             \/ Counters(f)[i] = 0 /\ \A m \in call[c].out : m.id # i
  <2>1. CASE \E m \in call[c].out : m.id = i
    <3>1. PICK m \in call[c].out : m.id = i
      BY <2>1
    <3>2. m.mtype \in {"gauge", "counter"}
      BY <1>3, <3>1 DEF Metric
    <3> QED
      BY <1>2, <1>5, <3>1, <3>2 DEF Shows
  <2>2. CASE \A m \in call[c].out : m.id # i
    BY <1>2, <1>5, <2>2 DEF Shows
  <2> QED
    BY <2>1, <2>2
<1> QED
  BY <1>2, <1>4, <1>6 DEF Shows

(* A list that GetAllMetrics (pgstorage.go:183) returns without an error   *)
(* shows the counters of one moment between whole commits, in whatever     *)
(* order its rows are scanned and whatever is committed in the meantime.   *)
THEOREM ListsAreOfOneMoment == Spec => []ListIsOfOneMoment
<1>1. MomentInv /\ [Next]_vars => MomentInv'
  BY MomentStep, MomentStutter
<1> QED
  BY <1>1, MomentInit, MomentMeans, PTL DEF Spec
=============================================================================
