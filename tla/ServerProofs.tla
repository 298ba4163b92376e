---------------------------- MODULE ServerProofs ----------------------------
(* Theorems about MetricsServer, for every value of its constants: types,  *)
(* what an answer of OK means, what the audit records, that counters are   *)
(* the sums of their increments, and that answers are fresh.               *)
EXTENDS MetricsServer, FoldProofs, FiniteSetTheorems, TLAPS

-----------------------------------------------------------------------------
(* The operators of MetricsStore keep its types.                           *)

(* Addition in two's complement stays in range. *)
LEMMA WrapType ==
    ASSUME NEW n \in Int
    PROVE  Wrap(n) \in Counter
  BY TwosComplementType, StoreAssumption DEF Wrap, Counter

(* The empty store is a store. *)
LEMMA NewMemStorageType == NewMemStorage \in Store
  BY DEF NewMemStorage, Store

(* Setting a gauge yields a store. *)
LEMMA SetGaugeType ==
    ASSUME NEW ms \in Store, NEW i \in Id, NEW v \in Value
    PROVE  SetGauge(ms, i, v) \in Store
  BY DEF SetGauge, Store

(* Increasing a counter yields a store: the sum wraps into range. *)
LEMMA AddCounterType ==
    ASSUME NEW ms \in Store, NEW i \in Id, NEW d \in Counter
    PROVE  AddCounter(ms, i, d) \in Store
<1> DEFINE old == IF HasCounter(ms, i) THEN ms.counters[i] ELSE 0
<1>1. Half \in Nat \ {0}
  BY StoreAssumption
<1>2. old \in Int /\ d \in Int
  BY <1>1 DEF HasCounter, Store, Counter
<1>3. Wrap(old + d) \in Counter
  BY <1>2, WrapType
<1>4. AddCounter(ms, i, d) = [ms EXCEPT !.counters[i] = Wrap(old + d)]
  BY DEF AddCounter, Store
<1>5. QED
  BY <1>3, <1>4 DEF Store

-----------------------------------------------------------------------------
Fields == {"pc", "in", "next", "old", "status", "reply", "before"}

Shaped ==
    /\ req = [n \in Number |-> req[n]]
    /\ \A n \in Number : req[n] = [f \in Fields |-> req[n][f]]

Only(n) == \A m \in Number \ {n} : req'[m] = req[m]

(* What the lemmas below say of every step of a request. *)
Keeps(n) == /\ Shaped' /\ Only(n)
            /\ req'[n].in = req[n].in /\ req'[n].before = req[n].before

(* What a request is when it arrives. *)
LEMMA ArriveReq ==
    ASSUME Shaped, NEW n \in Number, Arrive(n)
    PROVE  /\ Shaped' /\ Only(n)
           /\ req'[n].in \in Input
           /\ req'[n].pc = "run" /\ req'[n].next = req[n].next
           /\ req'[n].status = req[n].status /\ req'[n].old = req[n].old
           /\ req'[n].before = Done
<1>1. PICK in \in Input : req' = [req EXCEPT ![n].pc = "run", ![n].in = in, ![n].before = Done]
  BY DEF Arrive
<1> DEFINE done == Done
<1>2. req' = [req EXCEPT ![n].pc = "run", ![n].in = in, ![n].before = done]
  BY <1>1
<1> HIDE DEF done
<1>3. /\ Shaped' /\ Only(n)
      /\ req'[n].in = in /\ req'[n].pc = "run" /\ req'[n].next = req[n].next
      /\ req'[n].status = req[n].status /\ req'[n].old = req[n].old
      /\ req'[n].before = done
  BY <1>2 DEF Shaped, Fields, Only
<1> QED  BY <1>3 DEF done

(* An answer ends a request. *)
LEMMA AnswerReq ==
    ASSUME Shaped, NEW n \in Number, NEW status, NEW reply, Answer(n, status, reply)
    PROVE  /\ Keeps(n)
           /\ req'[n].pc = "done" /\ req'[n].status = status /\ req'[n].next = req[n].next
           /\ req'[n].old = req[n].old /\ req'[n].reply = reply
  BY DEF Answer, Shaped, Fields, Only, Keeps

(* The counter is loaded under mu. *)
LEMMA LockReq ==
    ASSUME Shaped, NEW n \in Number, Lock(n)
    PROVE  /\ Keeps(n)
           /\ req'[n].pc = "locked" /\ req'[n].status = req[n].status
           /\ req'[n].next = req[n].next
           /\ req'[n].old = store.counters[Current(n).id]
<1> DEFINE old == store.counters[Current(n).id]
<1>1. req' = [req EXCEPT ![n].pc = "locked", ![n].old = old]
  BY DEF Lock
<1> HIDE DEF old
<1>2. Only(n) /\ req'[n] = [req[n] EXCEPT !.pc = "locked", !.old = old]
  BY <1>1 DEF Shaped, Only
<1>3. /\ req'[n].in = req[n].in /\ req'[n].before = req[n].before
      /\ req'[n].pc = "locked" /\ req'[n].status = req[n].status
      /\ req'[n].next = req[n].next /\ req'[n].old = old
  BY <1>2 DEF Shaped, Fields
<1>4. Shaped'
  BY <1>1 DEF Shaped, Fields
<1>5. Keeps(n)
  BY <1>2, <1>3, <1>4 DEF Keeps
<1> QED  BY <1>3, <1>5 DEF old

(* One item more is applied. *)
LEMMA ApplyReq ==
    ASSUME Shaped, NEW n \in Number, Apply(n)
    PROVE  /\ Keeps(n)
           /\ req'[n].pc \in {"run", "readback"}
           /\ req'[n].status = req[n].status /\ req'[n].next = req[n].next + 1
           /\ req'[n].old = req[n].old
<1> DEFINE pc == IF Route(n) \in Single /\ Current(n).mtype = "counter" THEN "readback" ELSE "run"
           k  == req[n].next + 1
<1>1. req' = [req EXCEPT ![n].pc = pc, ![n].next = k]
  BY DEF Apply, Shaped, Fields
<1>2. pc \in {"run", "readback"}
  OBVIOUS
<1> HIDE DEF pc, k
<1>3. Only(n) /\ req'[n] = [req[n] EXCEPT !.pc = pc, !.next = k]
  BY <1>1 DEF Shaped, Only
<1>4. /\ req'[n].in = req[n].in /\ req'[n].before = req[n].before
      /\ req'[n].pc = pc /\ req'[n].status = req[n].status /\ req'[n].next = k
      /\ req'[n].old = req[n].old
  BY <1>3 DEF Shaped, Fields
<1>5. Shaped'
  BY <1>1 DEF Shaped, Fields
<1>6. Keeps(n)
  BY <1>3, <1>4, <1>5 DEF Keeps
<1> QED  BY <1>2, <1>4, <1>6 DEF k

(* The counter is read back. *)
LEMMA ReadBackReq ==
    ASSUME Shaped, NEW n \in Number, ReadBack(n)
    PROVE  /\ Keeps(n)
           /\ req'[n].pc = "run" /\ req'[n].status = req[n].status
           /\ req'[n].next = req[n].next /\ req'[n].old = req[n].old
           /\ req'[n].reply = store.counters[Items(n)[1].id]
<1> DEFINE reply == store.counters[Items(n)[1].id]
<1>1. req' = [req EXCEPT ![n].pc = "run", ![n].reply = reply]
  BY DEF ReadBack
<1> HIDE DEF reply
<1>2. Only(n) /\ req'[n] = [req[n] EXCEPT !.pc = "run", !.reply = reply]
  BY <1>1 DEF Shaped, Only
<1>3. /\ req'[n].in = req[n].in /\ req'[n].before = req[n].before
      /\ req'[n].pc = "run" /\ req'[n].status = req[n].status
      /\ req'[n].next = req[n].next /\ req'[n].old = req[n].old /\ req'[n].reply = reply
  BY <1>2 DEF Shaped, Fields
<1>4. Shaped'
  BY <1>1 DEF Shaped, Fields
<1>5. Keeps(n)
  BY <1>2, <1>3, <1>4 DEF Keeps
<1> QED  BY <1>3, <1>5 DEF reply

-----------------------------------------------------------------------------
(* Until a request that is refused is answered, nothing of it is applied;  *)
(* what has been applied of one that is not is valid.                      *)
Phase(n) ==
    /\ req[n].pc \in {"none", "run", "locked", "readback", "done"}
    /\ req[n].next \in Nat \ {0}
    /\ req[n].pc = "none" => req[n].next = 1
    /\ req[n].pc # "none" => req[n].in \in Input
    /\ req[n].pc = "run" /\ Refused(req[n].in) => req[n].next = 1
    /\ req[n].pc \in {"locked", "readback"} => Route(n) \notin Get /\ ~Refused(req[n].in)
    /\ req[n].pc = "locked" => ~AllApplied(n) /\ Valid(Current(n))

AppliedValid(n) ==
    req[n].pc # "none" /\ Items(n) # Malformed =>
       \A k \in DOMAIN Items(n) : k < req[n].next => Valid(Items(n)[k])

Fulfilled(n) ==
    req[n].pc = "done" /\ Route(n) \notin Get =>
       \/ /\ req[n].status = "ok" /\ ~Refused(req[n].in)
          /\ AllApplied(n) /\ \A k \in DOMAIN Items(n) : Valid(Items(n)[k])
       \/ req[n].status # "ok" /\ Refused(req[n].in) /\ req[n].next = 1
       \/ /\ req[n].status # "ok" /\ ~Refused(req[n].in)
          /\ ~AllApplied(n) /\ ~Valid(Current(n))
          /\ \A k \in 1 .. req[n].next - 1 : Valid(Items(n)[k])

Sound(n)   == Phase(n) /\ AppliedValid(n) /\ Fulfilled(n)
RequestInv == Shaped /\ \A n \in Number : Sound(n)

(* The requests a step leaves alone stay sound. *)
LEMMA SoundFrame ==
    ASSUME NEW n \in Number, \A m \in Number : Sound(m), Only(n), Sound(n)'
    PROVE  \A m \in Number : Sound(m)'
<1> TAKE m \in Number
<1>1. CASE m = n
  BY <1>1
<1>2. CASE m # n
  BY <1>2 DEF Only, Sound, Phase, AppliedValid, Fulfilled, AllApplied, Items, Route, Current
<1> QED  BY <1>1, <1>2

(* What a body decodes to is a sequence of items. *)
LEMMA ItemsTyped ==
    ASSUME NEW n \in Number, req[n].in \in Input, Items(n) # Malformed
    PROVE  /\ Items(n) \in Seq(Item) /\ Len(Items(n)) \in Nat
           /\ DOMAIN Items(n) = 1 .. Len(Items(n))
  BY ServerAssumption DEF Items

(* A request that arrives is sound, and each of its steps keeps it so. *)
LEMMA RequestStep ==
    ASSUME RequestInv, NEW n \in Number, Arrive(n) \/ Handle(n), req[n].pc = "none" \/ Handle(n)
    PROVE  RequestInv'
<1> SUFFICES Shaped' /\ Only(n) /\ Sound(n)'
  BY SoundFrame DEF RequestInv
<1>0. Shaped /\ Phase(n) /\ AppliedValid(n) /\ Fulfilled(n)
  BY DEF RequestInv, Sound
<1>a. req[n].pc # "none" /\ Items(n) # Malformed =>
         /\ Items(n) \in Seq(Item) /\ Len(Items(n)) \in Nat
         /\ DOMAIN Items(n) = 1 .. Len(Items(n))
  BY <1>0, ItemsTyped DEF Phase
<1>1. CASE Arrive(n) /\ req[n].pc = "none"
  <2>1. /\ Shaped' /\ Only(n) /\ req'[n].in \in Input /\ req'[n].pc = "run"
        /\ req'[n].next = 1
    BY <1>0, <1>1, ArriveReq DEF Phase
  <2>2. Items(n)' # Malformed => Items(n)' \in Seq(Item)
    BY <2>1, ServerAssumption DEF Items
  <2>3. AppliedValid(n)'
    BY <2>1, <2>2 DEF AppliedValid
  <2> QED  BY <2>1, <2>3 DEF Sound, Phase, Fulfilled
<1>2. CASE Refuse(n)
  <2>1. /\ Keeps(n) /\ req'[n].pc = "done" /\ req'[n].status = "bad request"
        /\ req'[n].next = req[n].next /\ req[n].next = 1
        /\ req[n].pc = "run" /\ Refused(req[n].in)
    BY <1>0, <1>2, AnswerReq DEF Refuse, Phase
  <2> QED  BY <1>0, <2>1 DEF Keeps, Sound, Phase, AppliedValid, Fulfilled, Items, Route
<1>3. CASE Lock(n)
  <2>1. /\ Keeps(n) /\ req'[n].pc = "locked" /\ req'[n].next = req[n].next
        /\ Updating(n) /\ ~AllApplied(n) /\ Valid(Current(n))
    BY <1>0, <1>3, LockReq DEF Lock
  <2> QED  BY <1>0, <2>1
           DEF Keeps, Sound, Phase, AppliedValid, Fulfilled, AllApplied, Items, Route, Updating,
               Current
<1>4. CASE Apply(n)
  <2>1. /\ Keeps(n) /\ req'[n].pc \in {"run", "readback"} /\ req'[n].next = req[n].next + 1
        /\ req[n].pc = "locked"
    BY <1>0, <1>4, ApplyReq DEF Apply
  <2>2. /\ Route(n) \notin Get /\ ~Refused(req[n].in) /\ Items(n) # Malformed
        /\ Valid(Items(n)[req[n].next]) /\ req[n].next \in Nat \ {0}
    BY <1>0, <2>1 DEF Phase, Refused, Items, Current
  <2>3. AppliedValid(n)'
    <3>1. \A k \in DOMAIN Items(n) : k < req[n].next + 1 => Valid(Items(n)[k])
      BY <1>0, <1>a, <2>1, <2>2 DEF AppliedValid
    <3> QED  BY <2>1, <3>1 DEF Keeps, AppliedValid, Items
  <2>4. Phase(n)'
    BY <1>0, <2>1, <2>2 DEF Keeps, Phase, Route
  <2> QED  BY <2>1, <2>3, <2>4 DEF Keeps, Sound, Fulfilled
<1>5. CASE StopAtInvalid(n)
  <2>1. \E status \in {"internal", "bad request"} : Answer(n, status, Missing)
    BY <1>5 DEF StopAtInvalid
  <2>2. /\ Keeps(n) /\ req'[n].pc = "done" /\ req'[n].status \in {"internal", "bad request"}
        /\ req'[n].next = req[n].next
    BY <1>0, <2>1, AnswerReq
  <2>3. /\ ~AllApplied(n) /\ ~Valid(Current(n)) /\ req[n].pc = "run"
        /\ ~Refused(req[n].in) /\ Items(n) # Malformed
    BY <1>5 DEF StopAtInvalid, Updating, Refused, Items
  <2>4. \A k \in 1 .. req[n].next - 1 : Valid(Items(n)[k])
    BY <1>0, <1>a, <2>3 DEF AppliedValid, AllApplied, Phase
  <2>5. Phase(n)' /\ AppliedValid(n)'
    BY <1>0, <2>2, <2>3 DEF Keeps, Phase, AppliedValid, Items
  <2>6. Fulfilled(n)'
    BY <2>2, <2>3, <2>4 DEF Keeps, Fulfilled, AllApplied, Items, Route, Current
  <2> QED  BY <2>2, <2>5, <2>6 DEF Keeps, Sound
<1>6. CASE ReadBack(n)
  <2>1. /\ Keeps(n) /\ req'[n].pc = "run" /\ req'[n].next = req[n].next
        /\ req[n].pc = "readback"
    BY <1>0, <1>6, ReadBackReq DEF ReadBack
  <2> QED  BY <1>0, <2>1 DEF Keeps, Sound, Phase, AppliedValid, Fulfilled, Items
<1>7. CASE Finish(n)
  <2>1. PICK reply : Answer(n, "ok", reply)
    BY <1>7 DEF Finish
  <2>2. /\ Keeps(n) /\ req'[n].pc = "done" /\ req'[n].status = "ok"
        /\ req'[n].next = req[n].next
    BY <1>0, <2>1, AnswerReq
  <2>3. AllApplied(n) /\ req[n].pc = "run" /\ ~Refused(req[n].in) /\ Items(n) # Malformed
    BY <1>7 DEF Finish, Updating, Refused, Items
  <2>4. \A k \in DOMAIN Items(n) : Valid(Items(n)[k])
    BY <1>0, <1>a, <2>3 DEF AppliedValid, AllApplied, Phase
  <2>5. Phase(n)' /\ AppliedValid(n)'
    BY <1>0, <2>2, <2>3 DEF Keeps, Phase, AppliedValid, Items
  <2>6. Fulfilled(n)'
    BY <2>2, <2>3, <2>4 DEF Keeps, Fulfilled, AllApplied, Items, Route
  <2> QED  BY <2>2, <2>5, <2>6 DEF Keeps, Sound
<1>8. CASE GetMetricValue(n) \/ ListAllMetricsHTML(n)
  <2>1. PICK status, reply : Answer(n, status, reply)
    BY <1>8 DEF GetMetricValue, ListAllMetricsHTML
  <2>2. Keeps(n) /\ req'[n].pc = "done" /\ req'[n].next = req[n].next
    BY <1>0, <2>1, AnswerReq
  <2>3. Route(n) \in Get /\ req[n].pc = "run"
    BY <1>8 DEF GetMetricValue, ListAllMetricsHTML, Get
  <2> QED  BY <1>0, <2>2, <2>3 DEF Keeps, Sound, Phase, AppliedValid, Fulfilled, Items, Route
<1> QED  BY <1>1, <1>2, <1>3, <1>4, <1>5, <1>6, <1>7, <1>8 DEF Handle, Keeps

(* Deliveries do not touch requests. *)
LEMMA AuditSteps ==
    ASSUME NEW o \in Observer, NEW n \in Number, Deliver(o, n) \/ DeliverFails(o, n)
    PROVE  UNCHANGED req
  BY DEF Deliver, DeliverFails

(* Requests arrive in the order of their numbers. *)
InOrder == \E k \in 0 .. MaxRequests : Arrived = 1 .. k

(* The number of a request that arrives is new. *)
LEMMA ArrivesOnce ==
    ASSUME InOrder, NEW n \in Number, Arrive(n)
    PROVE  req[n].pc = "none" /\ Arrived \cup {n} = 1 .. n
<1>1. PICK k \in 0 .. MaxRequests : Arrived = 1 .. k
  BY DEF InOrder
<1>2. Cardinality(1 .. k) = k
  BY <1>1, ServerAssumption, FS_Interval
<1>3. n = k + 1
  BY <1>1, <1>2 DEF Arrive
<1> QED  BY <1>1, <1>3 DEF Arrived, Number

(* A step of a request is made after it arrived and before it is answered. *)
LEMMA HandleReq ==
    ASSUME Shaped, NEW n \in Number, Handle(n)
    PROVE  /\ Keeps(n)
           /\ req[n].pc \in {"run", "locked", "readback"}
           /\ req'[n].pc \in {"run", "locked", "readback", "done"}
<1>1. CASE Lock(n) \/ Apply(n) \/ ReadBack(n)
  BY <1>1, LockReq, ApplyReq, ReadBackReq DEF Lock, Apply, ReadBack, Updating
<1>2. CASE Refuse(n) \/ StopAtInvalid(n) \/ Finish(n) \/ GetMetricValue(n) \/ ListAllMetricsHTML(n)
  <2>1. (\E status, reply : Answer(n, status, reply)) /\ req[n].pc = "run"
    BY <1>2 DEF Refuse, StopAtInvalid, Updating, Finish, GetMetricValue, ListAllMetricsHTML
  <2> QED  BY <2>1, AnswerReq
<1> QED  BY <1>1, <1>2 DEF Handle

(* Every step keeps InOrder. *)
LEMMA InOrderStep ==
    ASSUME RequestInv, InOrder, Next
    PROVE  InOrder'
<1>1. ASSUME NEW n \in Number, Arrive(n) PROVE InOrder'
  <2>1. Arrived' = Arrived \cup {n}
    BY <1>1, ArriveReq DEF RequestInv, Arrived, Only
  <2>2. Arrived' = 1 .. n
    BY <1>1, <2>1, ArrivesOnce
  <2> QED  BY <2>2, ServerAssumption DEF InOrder, Number
<1>2. ASSUME NEW n \in Number, Handle(n) PROVE InOrder'
  <2>1. Arrived' = Arrived
    BY <1>2, HandleReq DEF RequestInv, Arrived, Only, Keeps
  <2> QED  BY <2>1 DEF InOrder
<1>3. ASSUME UNCHANGED req PROVE InOrder'
  BY <1>3 DEF InOrder, Arrived
<1>4. (\E o \in Observer, n \in Number : Deliver(o, n) \/ DeliverFails(o, n)) \/ Exit =>
         UNCHANGED req
  BY AuditSteps DEF Exit
<1> QED  BY <1>1, <1>2, <1>3, <1>4 DEF Next

(* Both invariants hold at first. *)
LEMMA ServerInit == Init => RequestInv /\ InOrder
<1> SUFFICES ASSUME Init PROVE RequestInv /\ InOrder
  OBVIOUS
<1>1. Shaped
  BY DEF Init, NotArrived, Shaped, Fields
<1>2. \A n \in Number : req[n].pc = "none" /\ req[n].next = 1
  BY DEF Init, NotArrived
<1>3. RequestInv
  BY <1>1, <1>2 DEF RequestInv, Sound, Phase, AppliedValid, Fulfilled
<1>4. Arrived = 1 .. 0
  BY <1>2 DEF Arrived
<1> QED  BY <1>3, <1>4, ServerAssumption DEF InOrder

(* Every step keeps both invariants. *)
LEMMA ServerStep ==
    ASSUME RequestInv, InOrder, [Next]_vars
    PROVE  RequestInv' /\ InOrder'
<1>1. CASE \E n \in Number : Arrive(n) \/ Handle(n)
  BY <1>1, RequestStep, ArrivesOnce, InOrderStep DEF Next
<1>2. CASE UNCHANGED req
  BY <1>2 DEF RequestInv, Shaped, Sound, Phase, AppliedValid, Fulfilled, AllApplied, Items, Route,
              Current, InOrder, Arrived
<1> QED  BY <1>1, <1>2, AuditSteps DEF Next, Exit, vars

(* An update answered with OK has been applied in full, one that its route *)
(* refuses not at all, one refused halfway up to its first invalid metric  *)
(* (internal/service/metrics_service.go:76,                                *)
(* internal/handler/handler.go:367).                                       *)
THEOREM OkIsApplied == Spec => []OkMeansApplied
<1>1. RequestInv => OkMeansApplied
  BY DEF RequestInv, Sound, Fulfilled, OkMeansApplied, Done
<1> QED  BY <1>1, ServerInit, ServerStep, PTL DEF Spec

-----------------------------------------------------------------------------
(* A delivery under way, or made, is of an update that was audited; and    *)
(* none is made twice.                                                     *)
Heard(n) ==
    req[n].pc = "done" /\ req[n].status = "ok" /\ Route(n) \notin Get /\ Audited(n)

AuditInv ==
    /\ pending \subseteq Observer \X Number
    /\ log \in [Observer -> Seq(Number)]
    /\ \A o \in Observer, n \in Number : <<o, n>> \in pending => Heard(n)
    /\ \A o \in Observer : \A k \in DOMAIN log[o] :
          Heard(log[o][k]) /\ <<o, log[o][k]>> \notin pending
    /\ \A o \in Observer : \A j, k \in DOMAIN log[o] : log[o][j] = log[o][k] => j = k

(* A request that is answered stays as it is, and none is audited before. *)
LEMMA HeardStays ==
    ASSUME RequestInv, InOrder, NEW n \in Number, Arrive(n) \/ Handle(n)
    PROVE  /\ ~Heard(n)
           /\ \A m \in Number : Heard(m) => Heard(m)'
<1>1. Only(n) /\ req[n].pc # "done"
  BY ArrivesOnce, ArriveReq, HandleReq DEF RequestInv, Keeps
<1> QED  BY <1>1 DEF Only, Heard, Audited, Route, Items

(* A delivery, whether the observer hears it or not, keeps AuditInv. *)
LEMMA Delivered ==
    ASSUME AuditInv, NEW o \in Observer, NEW n \in Number, <<o, n>> \in pending,
           pending' = pending \ {<<o, n>>}, UNCHANGED req,
           Receive(o, n) \/ UNCHANGED log
    PROVE  AuditInv'
<1>1. \A m : Heard(m)' <=> Heard(m)
  BY DEF Heard, Audited, Route, Items
<1>2. CASE UNCHANGED log
  BY <1>1, <1>2 DEF AuditInv
<1>3. CASE Receive(o, n)
  <2>1. /\ log' = [log EXCEPT ![o] = Append(log[o], n)]
        /\ log[o] \in Seq(Number)
    BY <1>3 DEF Receive, AuditInv
  <2>2. log' \in [Observer -> Seq(Number)]
    BY <2>1 DEF AuditInv
  <2>3. /\ DOMAIN log'[o] = DOMAIN log[o] \cup {Len(log[o]) + 1}
        /\ \A k \in DOMAIN log[o] : log'[o][k] = log[o][k]
        /\ log'[o][Len(log[o]) + 1] = n
    BY <2>1 DEF AuditInv
  <2>4. \A p \in Observer \ {o} : log'[p] = log[p]
    BY <2>1 DEF AuditInv
  <2>5. Heard(n) /\ \A k \in DOMAIN log[o] : log[o][k] # n
    BY DEF AuditInv
  <2>6. \A p \in Observer : \A k \in DOMAIN log'[p] :
           Heard(log'[p][k]) /\ <<p, log'[p][k]>> \notin pending'
    <3> TAKE p \in Observer
    <3>1. CASE p = o
      BY <2>3, <2>5, <3>1 DEF AuditInv
    <3>2. CASE p # o
      BY <2>4, <3>2 DEF AuditInv
    <3> QED  BY <3>1, <3>2
  <2>7. \A p \in Observer : \A j, k \in DOMAIN log'[p] : log'[p][j] = log'[p][k] => j = k
    <3> TAKE p \in Observer
    <3>1. CASE p = o
      <4>1. \A j, k \in DOMAIN log[o] : log[o][j] = log[o][k] => j = k
        BY DEF AuditInv
      <4>2. ASSUME NEW j \in DOMAIN log'[o], NEW k \in DOMAIN log'[o], log'[o][j] = log'[o][k]
            PROVE  j = k
        <5>1. CASE j \in DOMAIN log[o] /\ k \in DOMAIN log[o]
          BY <2>3, <4>1, <4>2, <5>1
        <5>2. CASE j \notin DOMAIN log[o] \/ k \notin DOMAIN log[o]
          BY <2>3, <2>5, <4>2, <5>2
        <5> QED  BY <5>1, <5>2
      <4> QED  BY <3>1, <4>2
    <3>2. CASE p # o
      BY <2>4, <3>2 DEF AuditInv
    <3> QED  BY <3>1, <3>2
  <2>8. /\ pending' \subseteq Observer \X Number
        /\ \A p \in Observer, m \in Number : <<p, m>> \in pending' => Heard(m)
    BY DEF AuditInv
  <2> QED  BY <1>1, <2>2, <2>6, <2>7, <2>8 DEF AuditInv
<1> QED  BY <1>2, <1>3

(* Every step keeps AuditInv. *)
LEMMA AuditStep ==
    ASSUME RequestInv, InOrder, AuditInv, [Next]_vars
    PROVE  AuditInv'
<1>1. ASSUME NEW n \in Number, Arrive(n) \/ (Handle(n) /\ ~Finish(n))
      PROVE  AuditInv'
  <2>1. UNCHANGED audit
    BY <1>1 DEF Arrive, Handle, Refuse, Lock, Apply, StopAtInvalid, ReadBack, GetMetricValue,
                ListAllMetricsHTML
  <2> QED  BY <1>1, <2>1, HeardStays DEF AuditInv, audit
<1>2. ASSUME NEW n \in Number, Finish(n) PROVE AuditInv'
  <2>1. PICK reply : Answer(n, "ok", reply)
    BY <1>2 DEF Finish
  <2>2. Keeps(n) /\ req'[n].pc = "done" /\ req'[n].status = "ok"
    BY <2>1, AnswerReq DEF RequestInv
  <2>3. Audited(n) => Heard(n)'
    BY <1>2, <2>2 DEF Finish, Updating, Keeps, Heard, Audited, Route, Items
  <2>4. /\ pending' = pending \/ (Audited(n) /\ pending' = pending \cup (Observer \X {n}))
        /\ UNCHANGED log
    BY <1>2 DEF Finish
  <2>5. ~Heard(n) /\ \A m \in Number : Heard(m) => Heard(m)'
    BY <1>2, HeardStays DEF Handle
  <2> QED  BY <2>3, <2>4, <2>5 DEF AuditInv
<1>3. ASSUME NEW o \in Observer, NEW n \in Number, Deliver(o, n) \/ DeliverFails(o, n)
      PROVE  AuditInv'
  BY <1>3, Delivered DEF Deliver, DeliverFails
<1>4. CASE Exit
  BY <1>4 DEF Exit, AuditInv, Heard, Audited, Route, Items
<1>5. CASE UNCHANGED vars
  BY <1>5 DEF vars, AuditInv, Heard, Audited, Route, Items
<1> QED  BY <1>1, <1>2, <1>3, <1>4, <1>5 DEF Next, Handle

(* AuditInv holds at first. *)
LEMMA AuditInit == Init => AuditInv
  BY DEF Init, AuditInv

(* An observer hears of an update at most once, and only of one that came  *)
(* over HTTP, was answered with OK and was applied in full; of a read,     *)
(* never (internal/audit/audit.go:61).                                     *)
THEOREM AuditHolds == Spec => []AuditIsTrue
<1>1. RequestInv /\ AuditInv => AuditIsTrue
  <2> SUFFICES ASSUME RequestInv, AuditInv, NEW o \in Observer,
                      NEW j \in DOMAIN log[o], NEW k \in DOMAIN log[o]
               PROVE  LET n == log[o][j]
                      IN  /\ Route(n) \notin Get \cup {"UpdateMetrics"} /\ Items(n) # <<>>
                          /\ req[n].status = "ok" /\ AllApplied(n)
                          /\ n = log[o][k] => j = k
    BY DEF AuditIsTrue
  <2>1. log[o][j] \in Number /\ Heard(log[o][j])
    <3>1. log[o] \in Seq(Number) /\ \A i \in DOMAIN log[o] : Heard(log[o][i])
      BY DEF AuditInv
    <3> QED  BY <3>1
  <2>2. Fulfilled(log[o][j])
    BY <2>1 DEF RequestInv, Sound
  <2>3. log[o][j] = log[o][k] => j = k
    BY DEF AuditInv
  <2> QED  BY <2>1, <2>2, <2>3 DEF Heard, Audited, Fulfilled
<1> QED  BY <1>1, AuditInit, ServerInit, ServerStep, AuditStep, PTL DEF Spec

-----------------------------------------------------------------------------
Status == {"none", "ok", "bad request", "not found", "internal"}

Typed(n) == /\ req[n].in \in Input \cup {Missing}
            /\ req[n].old \in Counter \cup {Missing}
            /\ req[n].status \in Status
            /\ req[n].before \subseteq Number

TypeInv ==
    /\ store \in Store
    /\ mu \in Number \cup {0}
    /\ \A n \in Number : Typed(n)
    /\ failed \subseteq Observer \X Number
    /\ exited \in BOOLEAN

(* A valid item has a name and the value of its kind. *)
LEMMA CurrentTyped ==
    ASSUME NEW n \in Number, Sound(n), req[n].pc # "none", ~Refused(req[n].in),
           ~AllApplied(n), Valid(Current(n))
    PROVE  /\ Current(n).id \in Id
           /\ Current(n).mtype = "gauge" => Current(n).value \in Value
           /\ Current(n).mtype # "gauge" => Current(n).delta \in Counter
<1>1. Items(n) \in Seq(Item) /\ Len(Items(n)) \in Nat /\ DOMAIN Items(n) = 1 .. Len(Items(n))
  BY ItemsTyped DEF Sound, Phase, Refused, Items
<1>2. Current(n) \in Item
  BY <1>1 DEF Sound, Phase, AllApplied, Current
<1> QED  BY <1>2 DEF Valid, Item

(* The requests a step leaves alone stay well typed. *)
LEMMA TypedFrame ==
    ASSUME NEW n \in Number, \A m \in Number : Typed(m), Only(n), Typed(n)'
    PROVE  \A m \in Number : Typed(m)'
<1> TAKE m \in Number
<1>1. CASE m = n
  BY <1>1
<1>2. CASE m # n
  BY <1>2 DEF Only, Typed
<1> QED  BY <1>1, <1>2

(* A step of a request keeps the types. *)
LEMMA TypeRequestStep ==
    ASSUME RequestInv, InOrder, TypeInv, NEW n \in Number, Arrive(n) \/ Handle(n)
    PROVE  TypeInv'
<1>0. Shaped /\ Sound(n) /\ Typed(n)
  BY DEF RequestInv, TypeInv
<1>1. CASE Arrive(n)
  <2>1. Only(n) /\ Typed(n)'
    BY <1>0, <1>1, ArriveReq DEF Typed, Done
  <2> QED  BY <1>1, <2>1, TypedFrame DEF Arrive, audit, TypeInv
<1>2. CASE Refuse(n) \/ StopAtInvalid(n) \/ Finish(n) \/ GetMetricValue(n) \/ ListAllMetricsHTML(n)
  <2>1. \E status \in Status : \E reply : Answer(n, status, reply)
    <3>1. Refuse(n) => Answer(n, "bad request", Missing)
      BY DEF Refuse
    <3>2. StopAtInvalid(n) => Answer(n, "internal", Missing) \/ Answer(n, "bad request", Missing)
      BY DEF StopAtInvalid
    <3>3. Finish(n) => \E reply : Answer(n, "ok", reply)
      BY DEF Finish
    <3>4. GetMetricValue(n) =>
            Answer(n, "not found", Missing) \/ (\E reply : Answer(n, "ok", reply))
      BY DEF GetMetricValue
    <3>5. ListAllMetricsHTML(n) => \E reply : Answer(n, "ok", reply)
      BY DEF ListAllMetricsHTML
    <3> QED  BY <1>2, <3>1, <3>2, <3>3, <3>4, <3>5 DEF Status
  <2>2. Only(n) /\ Typed(n)'
    BY <1>0, <2>1, AnswerReq DEF Typed, Keeps
  <2>3. UNCHANGED <<store, mu, failed, exited>>
    BY <1>2 DEF Refuse, StopAtInvalid, Finish, GetMetricValue, ListAllMetricsHTML, audit
  <2> QED  BY <2>2, <2>3, TypedFrame DEF TypeInv
<1>3. CASE Lock(n)
  <2>1. Current(n).id \in Id
    BY <1>0, <1>3, CurrentTyped DEF Lock, Updating
  <2>2. store.counters[Current(n).id] \in Counter \cup {Missing}
    BY <2>1 DEF TypeInv, Store
  <2>3. Only(n) /\ Typed(n)'
    BY <1>0, <1>3, <2>2, LockReq DEF Typed, Keeps
  <2> QED  BY <1>3, <2>3, TypedFrame DEF Lock, audit, TypeInv
<1>4. CASE Apply(n)
  <2> DEFINE item   == Current(n)
             loaded == [store EXCEPT !.counters[item.id] = req[n].old]
  <2>1. /\ item.id \in Id
        /\ item.mtype = "gauge" => item.value \in Value
        /\ item.mtype # "gauge" => item.delta \in Counter
    BY <1>0, <1>4, CurrentTyped DEF Apply, Sound, Phase
  <2>2. loaded \in Store
    BY <1>0, <2>1 DEF TypeInv, Typed, Store
  <2>3. store' = IF item.mtype = "gauge" THEN SetGauge(store, item.id, item.value)
                                         ELSE AddCounter(loaded, item.id, item.delta)
    BY <1>4 DEF Apply
  <2>4. store' \in Store
    <3> HIDE DEF item, loaded
    <3>1. CASE item.mtype = "gauge"
      BY <2>1, <2>3, <3>1, SetGaugeType DEF TypeInv
    <3>2. CASE item.mtype # "gauge"
      BY <2>1, <2>2, <2>3, <3>2, AddCounterType
    <3> QED  BY <3>1, <3>2
  <2>5. Only(n) /\ Typed(n)'
    BY <1>0, <1>4, ApplyReq DEF Typed, Keeps
  <2> QED  BY <1>4, <2>4, <2>5, TypedFrame DEF Apply, audit, TypeInv
<1>5. CASE ReadBack(n)
  <2>1. Only(n) /\ Typed(n)'
    BY <1>0, <1>5, ReadBackReq DEF Typed, Keeps
  <2> QED  BY <1>5, <2>1, TypedFrame DEF ReadBack, audit, TypeInv
<1> QED  BY <1>1, <1>2, <1>3, <1>4, <1>5 DEF Handle

(* The store and the requests have their types at first. *)
LEMMA TypeInit == Init => TypeInv
<1> SUFFICES ASSUME Init PROVE TypeInv
  OBVIOUS
<1>1. \A n \in Number : Typed(n)
  BY DEF Init, NotArrived, Typed, Status
<1> QED  BY <1>1, NewMemStorageType DEF Init, TypeInv

(* Every step keeps them. *)
LEMMA TypeStep == RequestInv /\ InOrder /\ TypeInv /\ [Next]_vars => TypeInv'
<1> SUFFICES ASSUME RequestInv, InOrder, TypeInv, [Next]_vars PROVE TypeInv'
  OBVIOUS
<1>1. ASSUME NEW o \in Observer, NEW n \in Number, Deliver(o, n) \/ DeliverFails(o, n)
      PROVE  TypeInv'
  BY <1>1 DEF Deliver, DeliverFails, TypeInv, Typed
<1>2. CASE Exit
  BY <1>2 DEF Exit, TypeInv, Typed
<1>3. CASE UNCHANGED vars
  BY <1>3 DEF vars, TypeInv, Typed
<1> QED  BY <1>1, <1>2, <1>3, TypeRequestStep DEF Next

(* The variables keep their types; counters stay in the range of int64,    *)
(* however many increments are added (internal/repository/storage.go:63).  *)
THEOREM TypeCorrect == Spec => []TypeOK
<1>1. RequestInv /\ AuditInv /\ TypeInv => TypeOK
  <2> SUFFICES ASSUME RequestInv, AuditInv, TypeInv PROVE TypeOK
    OBVIOUS
  <2>1. \A n \in Number : Typed(n) /\ Phase(n)
    BY DEF RequestInv, TypeInv, Sound
  <2>2. DOMAIN req = Number
    BY DEF RequestInv, Shaped
  <2> QED  BY <2>1, <2>2 DEF TypeOK, TypeInv, AuditInv, Typed, Phase, Status
<1> QED  BY <1>1, TypeInit, TypeStep, AuditInit, AuditStep, ServerInit, ServerStep, PTL DEF Spec

-----------------------------------------------------------------------------
(* Counters as sums of increments.                                         *)

(* Only items of a request that has arrived have been applied. *)
Inside ==
    \A n \in Number : req[n].next > 1 =>
       Items(n) # Malformed /\ req[n].next <= Len(Items(n)) + 1

(* x is an item that was applied, and increments counter i. *)
Counts(x, i) ==
    /\ x[2] < req[x[1]].next
    /\ Items(x[1])[x[2]].mtype = "counter" /\ Items(x[1])[x[2]].id = i

(* The members of Increments. *)
LEMMA IncrementsAre ==
    ASSUME RequestInv, NEW R \in SUBSET Number, NEW i
    PROVE  Increments(R, i) = {x \in R \X (Nat \ {0}) : Counts(x, i)}
<1>1. \A n \in Number : req[n].next \in Nat \ {0}
  BY DEF RequestInv, Sound, Phase
<1>2. ASSUME NEW x \in Increments(R, i)
      PROVE  x \in R \X (Nat \ {0}) /\ Counts(x, i)
  <2>1. PICK n \in R : x \in Applied(n, i)
    BY <1>2 DEF Increments
  <2>2. PICK k \in 1 .. (req[n].next - 1) :
           x = <<n, k>> /\ Items(n)[k].mtype = "counter" /\ Items(n)[k].id = i
    BY <2>1 DEF Applied
  <2> QED
    BY <1>1, <2>2 DEF Counts
<1>3. ASSUME NEW n \in R, NEW k \in Nat \ {0}, Counts(<<n, k>>, i)
      PROVE  <<n, k>> \in Increments(R, i)
  <2>1. k \in 1 .. (req[n].next - 1)
    BY <1>1, <1>3 DEF Counts
  <2> QED
    BY <1>3, <2>1 DEF Counts, Increments, Applied
<1> QED
  BY <1>2, <1>3

(* They are finitely many. *)
LEMMA IncrementsFinite ==
    ASSUME RequestInv, NEW i
    PROVE  \A R \in SUBSET Number : IsFiniteSet(Increments(R, i))
<1> DEFINE G == {R \in SUBSET Number : IsFiniteSet(Increments(R, i))}
<1>1. \A n \in Number : IsFiniteSet(Applied(n, i))
  <2> TAKE n \in Number
  <2> DEFINE K == {k \in 1 .. (req[n].next - 1) :
                     Items(n)[k].mtype = "counter" /\ Items(n)[k].id = i}
  <2>1. req[n].next - 1 \in Int
    BY DEF RequestInv, Sound, Phase
  <2>2. IsFiniteSet(K)
    BY <2>1, FS_Interval, FS_Subset
  <2>3. Applied(n, i) = {n} \X K
    BY DEF Applied
  <2>4. IsFiniteSet({n})
    BY FS_Singleton
  <2> HIDE DEF K
  <2> QED
    BY <2>2, <2>3, <2>4, FS_Product
<1>2. {} \in G
  BY FS_EmptySet DEF Increments
<1>3. ASSUME NEW R \in SUBSET Number, R # {}, \A n \in R : R \ {n} \in G
      PROVE  R \in G
  <2>1. PICK n \in R : TRUE
    BY <1>3
  <2>2. Increments(R, i) = Increments(R \ {n}, i) \cup Applied(n, i)
    BY <2>1 DEF Increments
  <2> DEFINE A == Increments(R \ {n}, i)
             B == Applied(n, i)
  <2>3. IsFiniteSet(A) /\ IsFiniteSet(B)
    BY <1>1, <1>3, <2>1
  <2> HIDE DEF A, B
  <2>4. IsFiniteSet(A \cup B)
    BY <2>3, FS_Union
  <2> QED
    BY <2>2, <2>4 DEF A, B
<1>4. IsFiniteSet(Number)
  BY ServerAssumption, FS_Interval DEF Number
<1> HIDE DEF G
<1>5. \A R \in SUBSET Number : R \in G
  BY <1>2, <1>3, <1>4, SetInduction
<1> QED
  BY <1>5 DEF G

(* An increment has a delta. *)
LEMMA DeltaTyped ==
    ASSUME RequestInv, Inside, NEW i, NEW x \in Increments(Number, i)
    PROVE  Items(x[1])[x[2]].delta \in Counter /\ Items(x[1])[x[2]].delta \in Int
<1>1. PICK n \in Number, k \in Nat \ {0} : x = <<n, k>> /\ Counts(x, i)
  BY IncrementsAre
<1>2. k < req[n].next /\ Items(n)[k].mtype = "counter"
  BY <1>1 DEF Counts
<1>3. /\ req[n].pc # "none" /\ req[n].in \in Input
      /\ req[n].next \in Nat /\ AppliedValid(n)
  BY <1>1, <1>2 DEF RequestInv, Sound, Phase
<1>4. Items(n) # Malformed /\ req[n].next <= Len(Items(n)) + 1
  BY <1>1, <1>2, <1>3 DEF Inside
<1>5. /\ Items(n) \in Seq(Item) /\ Len(Items(n)) \in Nat
      /\ DOMAIN Items(n) = 1 .. Len(Items(n))
  BY <1>3, <1>4, ItemsTyped
<1>6. k \in DOMAIN Items(n)
  BY <1>1, <1>2, <1>3, <1>4, <1>5
<1>7. Items(n)[k] \in Item /\ Valid(Items(n)[k])
  BY <1>2, <1>3, <1>4, <1>5, <1>6 DEF AppliedValid
<1>8. Items(n)[k].delta \in Counter
  BY <1>2, <1>7 DEF Valid, Item
<1> QED
  BY <1>1, <1>8, StoreAssumption DEF Counter

(* SumOf is a sum of what any function agrees with on the deltas. *)
SumRule ==
    \A S, g : IsFiniteSet(S) /\ (\A x \in S : g[x] \in Int /\ g[x] = Items(x[1])[x[2]].delta)
                 => SumOf(S) = SumOver(g, S)

LEMMA SumOfIs == SumRule
<1> SUFFICES ASSUME NEW S, NEW g, IsFiniteSet(S),
                    \A x \in S : g[x] \in Int /\ g[x] = Items(x[1])[x[2]].delta
             PROVE  SumOf(S) = SumOver(g, S)
  BY DEF SumRule
<1> DEFINE IsIt(h) == h = [s \in SUBSET S |->
                             IF s = {} THEN 0
                             ELSE LET x == CHOOSE x \in s : TRUE
                                  IN  Items(x[1])[x[2]].delta + h[s \ {x}]]
<1>1. \A s \in SUBSET S : s # {} => (CHOOSE x \in s : TRUE) \in S
  OBVIOUS
<1>2. \A h : IsIt(h) <=> IsSum(h, g, S)
  BY <1>1 DEF IsSum
<1> HIDE DEF IsIt
<1>3. \E h : IsIt(h)
  BY <1>2, SumExists
<1> DEFINE m == SumOf(S)
<1>4. PICK h : IsIt(h) /\ m = h[S]
  BY <1>3 DEF IsIt, SumOf, MapThenSumSet, MapThenFoldSet
<1> HIDE DEF m
<1>5. m = SumOver(g, S)
  BY <1>2, <1>4, SumOverIs
<1> QED
  BY <1>5 DEF m

(* The same of the next state. *)
LEMMA SumOfIsNext == SumRule'
  BY SumOfIs, PTL

(* Requests keep what they have applied, and their items. *)
Keeping ==
    \A m \in Number : req[m].next > 1 => req'[m].in = req[m].in /\ req'[m].next >= req[m].next

(* A request that applies nothing has applied what it had. *)
LEMMA AppliedSame ==
    ASSUME NEW m \in Number, req'[m].next = req[m].next,
           req[m].next \in Nat \ {0},
           req[m].next > 1 => req'[m].in = req[m].in, NEW i
    PROVE  Applied(m, i)' = Applied(m, i)
<1>1. CASE req[m].next = 1
  BY <1>1 DEF Applied
<1>2. CASE req[m].next > 1
  BY <1>2 DEF Applied, Items
<1> QED
  BY <1>1, <1>2

(* Items that were applied stay so, and keep their deltas. *)
LEMMA SumSameNext ==
    ASSUME RequestInv, Inside, RequestInv', Keeping, NEW i, NEW S \in SUBSET Increments(Number, i)
    PROVE  S \in SUBSET Increments(Number, i)' /\ SumOf(S)' = SumOf(S)
<1> DEFINE g == [x \in S |-> Items(x[1])[x[2]].delta]
<1>0. \A m \in Number : req[m].next \in Nat \ {0} /\ req'[m].next \in Nat \ {0}
  BY DEF RequestInv, Sound, Phase
<1>1. ASSUME NEW x \in S
      PROVE  /\ x \in Increments(Number, i)'
             /\ Items(x[1])'[x[2]].delta = Items(x[1])[x[2]].delta
             /\ Items(x[1])[x[2]].delta \in Int
  <2>1. PICK m \in Number : x \in Applied(m, i)
    BY DEF Increments
  <2>2. PICK k \in 1 .. (req[m].next - 1) :
           x = <<m, k>> /\ Items(m)[k].mtype = "counter" /\ Items(m)[k].id = i
    BY <2>1 DEF Applied
  <2>3. req'[m].in = req[m].in /\ k \in 1 .. (req'[m].next - 1)
    BY <1>0, <2>2 DEF Keeping
  <2>4. Items(m)' = Items(m)
    BY <2>3 DEF Items
  <2>5. x \in Applied(m, i)'
    BY <2>2, <2>3, <2>4 DEF Applied
  <2>6. x \in Increments(Number, i)'
    BY <2>5 DEF Increments, Number
  <2>7. Items(x[1])'[x[2]].delta = Items(x[1])[x[2]].delta
    BY <2>2, <2>4
  <2> QED
    BY <2>6, <2>7, DeltaTyped
<1>2. IsFiniteSet(S)
  BY IncrementsFinite, FS_Subset
<1>3. \A x \in S : /\ g[x] \in Int
                   /\ g[x] = Items(x[1])[x[2]].delta /\ g[x] = Items(x[1])'[x[2]].delta
  BY <1>1
<1> HIDE DEF g
<1>4. SumOf(S) = SumOver(g, S) /\ SumOf(S)' = SumOver(g, S)
  BY <1>2, <1>3, SumOfIs, SumOfIsNext DEF SumRule
<1> QED
  BY <1>1, <1>4

(* What a step of a request applies: at most the item that Apply applies. *)
LEMMA StepKeeps ==
    ASSUME RequestInv, InOrder, NEW n \in Number, Arrive(n) \/ Handle(n)
    PROVE  /\ Keeping
           /\ \A m \in Number : req'[m].next # req[m].next => m = n /\ Apply(n)
           /\ \A m \in Number : req[m].next > 1 => req'[m].in = req[m].in
<1>0. Shaped
  BY DEF RequestInv
<1>a. \A m \in Number : req[m].next \in Nat \ {0}
  BY DEF RequestInv, Sound, Phase
<1>b. \A m \in Number : req[m].pc = "none" => req[m].next = 1
  BY DEF RequestInv, Sound, Phase
<1>c. \A k \in Nat : k >= k /\ k + 1 >= k
  OBVIOUS
<1>1. CASE Arrive(n)
  <2>0. req[n].next = 1
    BY <1>b, <1>1, ArrivesOnce
  <2>1. Only(n) /\ req'[n].next = req[n].next /\ req[n].next = 1
    BY <1>0, <1>1, <2>0, ArriveReq
  <2>2. \A m \in Number : req'[m].next = req[m].next /\ (req[m].next > 1 => req'[m].in = req[m].in)
    BY <2>1 DEF Only
  <2> QED
    BY <1>a, <1>c, <2>2 DEF Keeping
<1>2. CASE Handle(n)
  <2>1. Keeps(n)
    BY <1>0, <1>2, HandleReq
  <2>2. req'[n].next = req[n].next \/ (Apply(n) /\ req'[n].next = req[n].next + 1)
    <3>1. CASE Lock(n) \/ ReadBack(n)
      BY <1>0, <3>1, LockReq, ReadBackReq
    <3>2. CASE Apply(n)
      BY <1>0, <3>2, ApplyReq
    <3>3. CASE \E status, reply : Answer(n, status, reply)
      BY <1>0, <3>3, AnswerReq
    <3>4. Refuse(n) \/ StopAtInvalid(n) \/ Finish(n) \/ GetMetricValue(n) \/ ListAllMetricsHTML(n)
             => \E status, reply : Answer(n, status, reply)
      BY DEF Refuse, StopAtInvalid, Finish, GetMetricValue, ListAllMetricsHTML
    <3> QED
      BY <1>2, <3>1, <3>2, <3>3, <3>4 DEF Handle
  <2> QED
    <3>1. \A m \in Number : req'[m].in = req[m].in /\ (m # n => req'[m].next = req[m].next)
      BY <2>1 DEF Keeps, Only
    <3> QED
      BY <1>a, <1>c, <2>2, <3>1 DEF Keeping
<1> QED
  BY <1>1, <1>2

(* A request that holds mu has loaded the counter as it is. *)
Locks ==
    \A n \in Number :
       /\ req[n].pc = "locked" <=> mu = n
       /\ req[n].pc = "locked" => req[n].old = store.counters[Current(n).id]

(* A sum of increments is an integer. *)
LEMMA SumOfType ==
    ASSUME RequestInv, Inside, NEW i, NEW S \in SUBSET Increments(Number, i)
    PROVE  SumOf(S) \in Int
<1> DEFINE g == [x \in S |-> Items(x[1])[x[2]].delta]
<1>1. \A x \in S : g[x] = Items(x[1])[x[2]].delta /\ g[x] \in Int
  BY DeltaTyped
<1>2. IsFiniteSet(S)
  BY IncrementsFinite, FS_Subset
<1> HIDE DEF g
<1> QED
  BY <1>1, <1>2, SumOfIs, SumType DEF SumRule

(* A step that applies nothing keeps the counters the sums they are. *)
LEMMA QuietSum ==
    ASSUME RequestInv, RequestInv', Inside, CounterIsSum, Keeping,
           \A m \in Number : req'[m].next = req[m].next, UNCHANGED store
    PROVE  CounterIsSum'
<1> DEFINE IsSumOf(i) == store.counters[i] = IF Increments(Number, i) = {} THEN Missing
                                             ELSE Wrap(SumOf(Increments(Number, i)))
<1> SUFFICES ASSUME NEW i \in Id PROVE IsSumOf(i)'
  BY DEF CounterIsSum
<1>1. \A m \in Number : Applied(m, i)' = Applied(m, i)
  BY AppliedSame DEF Keeping, RequestInv, Sound, Phase
<1>2. Increments(Number, i)' = Increments(Number, i)
  BY <1>1 DEF Increments, Number
<1>3. PICK S : S = Increments(Number, i)
  OBVIOUS
<1>4. SumOf(S)' = SumOf(S)
  BY <1>3, SumSameNext
<1>5. store.counters[i] = IF S = {} THEN Missing ELSE Wrap(SumOf(S))
  BY <1>3 DEF CounterIsSum
<1> QED
  BY <1>2, <1>3, <1>4, <1>5 DEF Wrap

(* Sums may be wrapped before they are added to. *)
LEMMA WrapAdd ==
    ASSUME NEW p \in Int, NEW q \in Int
    PROVE  Wrap(Wrap(p) + q) = Wrap(p + q)
  BY TwosComplementAdd, StoreAssumption DEF Wrap

(* The item Apply applies becomes an increment of its counter, and of no   *)
(* other, in the sums as in the store.                                     *)
LEMMA ApplyStore ==
    ASSUME RequestInv, TypeInv, Locks, NEW n \in Number, Apply(n)
    PROVE  /\ Current(n).id \in Id
           /\ Current(n).mtype = "gauge" => store'.counters = store.counters
           /\ Current(n).mtype # "gauge" =>
                 /\ Current(n).mtype = "counter" /\ Current(n).delta \in Counter
                 /\ store'.counters = [store.counters EXCEPT ![Current(n).id] =
                       Wrap((IF @ = Missing THEN 0 ELSE @) + Current(n).delta)]
<1>1. Sound(n) /\ req[n].pc = "locked"
  BY DEF Apply, RequestInv
<1>2. /\ Current(n).id \in Id
      /\ Current(n).mtype = "gauge" => Current(n).value \in Value
      /\ Current(n).mtype # "gauge" => Current(n).delta \in Counter
  BY <1>1, CurrentTyped DEF Sound, Phase
<1>3. Current(n).mtype # "gauge" => Current(n).mtype = "counter"
  BY <1>1 DEF Sound, Phase, Valid
<1> DEFINE item   == Current(n)
           loaded == [store EXCEPT !.counters[item.id] = req[n].old]
<1>4. store' = IF item.mtype = "gauge" THEN SetGauge(store, item.id, item.value)
                                       ELSE AddCounter(loaded, item.id, item.delta)
  BY DEF Apply
<1>5. store \in Store
  BY DEF TypeInv
<1>6. req[n].old = store.counters[item.id]
  BY <1>1 DEF Locks
<1>7. loaded = store
  BY <1>2, <1>5, <1>6 DEF Store
<1> HIDE DEF item, loaded
<1>8. SetGauge(store, item.id, item.value).counters = store.counters
  BY <1>5 DEF SetGauge, Store
<1>9. AddCounter(store, item.id, item.delta).counters =
         [store.counters EXCEPT ![item.id] = Wrap((IF @ = Missing THEN 0 ELSE @) + item.delta)]
  BY <1>5 DEF AddCounter, HasCounter, Store
<1> QED
  BY <1>2, <1>3, <1>4, <1>7, <1>8, <1>9 DEF item

(* Apply keeps the counters the sums they are. *)
LEMMA ApplySum ==
    ASSUME RequestInv, RequestInv', InOrder, TypeInv, Inside, Locks, CounterIsSum,
           NEW n \in Number, Apply(n)
    PROVE  CounterIsSum'
<1> DEFINE item == Current(n)
           IsSumOf(i) == store.counters[i] = IF Increments(Number, i) = {} THEN Missing
                                             ELSE Wrap(SumOf(Increments(Number, i)))
<1> SUFFICES ASSUME NEW i \in Id PROVE IsSumOf(i)'
  BY DEF CounterIsSum
<1>0. PICK k : k = req[n].next
  OBVIOUS
<1>1. /\ Keeps(n) /\ req'[n].next = k + 1
      /\ k \in Nat \ {0}
      /\ Keeping
  BY <1>0, ApplyReq, StepKeeps DEF RequestInv, Sound, Phase, Handle
<1>2. \A m \in Number \ {n} : Applied(m, i)' = Applied(m, i)
  BY <1>1, AppliedSame DEF Keeps, Only, Keeping, RequestInv, Sound, Phase
<1>3. Items(n)' = Items(n)
  BY <1>1 DEF Keeps, Items
<1>4. item = Items(n)[k]
  BY <1>0 DEF Current
<1> DEFINE counted == item.mtype = "counter" /\ item.id = i
<1>5. Applied(n, i)' = IF counted THEN Applied(n, i) \cup {<<n, k>>} ELSE Applied(n, i)
  BY <1>0, <1>1, <1>3, <1>4 DEF Applied
<1>6. Increments(Number, i)' = IF counted THEN Increments(Number, i) \cup {<<n, k>>}
                                          ELSE Increments(Number, i)
  BY <1>2, <1>5 DEF Increments, Number
<1>7. <<n, k>> \notin Increments(Number, i)
  BY <1>0, <1>1 DEF Increments, Applied
<1>8. PICK S : S = Increments(Number, i)
  OBVIOUS
<1>9. SumOf(S)' = SumOf(S) /\ SumOf(S) \in Int
  BY <1>1, <1>8, SumSameNext, SumOfType
<1>10. store.counters[i] = IF S = {} THEN Missing ELSE Wrap(SumOf(S))
  BY <1>8 DEF CounterIsSum
<1>11. CASE ~counted
  <2>1. store'.counters[i] = store.counters[i]
    BY <1>11, ApplyStore DEF TypeInv, Store
  <2> QED
    BY <1>6, <1>8, <1>9, <1>10, <1>11, <2>1 DEF Wrap
<1>12. CASE counted
  <2> DEFINE d == item.delta
             x == <<n, k>>
             T == S \cup {x}
             Delta(y) == Items(y[1])[y[2]].delta
             g == [y \in T |-> IF y = x THEN d ELSE Delta(y)]
  <2>1. d \in Counter /\ item.mtype # "gauge"
    BY <1>12, ApplyStore
  <2>2. d \in Int
    BY <2>1, StoreAssumption DEF Counter
  <2>3. /\ IsFiniteSet(S) /\ IsFiniteSet(T)
        /\ S \in SUBSET Increments(Number, i) /\ x \notin S
    BY <1>7, <1>8, IncrementsFinite, FS_AddElement
  <2>4. ASSUME NEW y \in S
        PROVE  g[y] = Delta(y) /\ g[y] \in Int /\ g[y] = Delta(y)'
    <3>1. PICK m \in Number : y \in Applied(m, i)
      BY <2>3 DEF Increments
    <3>2. y[1] = m /\ req[m].next > 1
      BY <3>1 DEF Applied, RequestInv, Sound, Phase
    <3>3. Items(y[1])' = Items(y[1])
      BY <1>1, <3>2 DEF Keeping, Items
    <3>4. g[y] = Delta(y)
      BY <2>3
    <3> HIDE DEF g
    <3> QED
      BY <2>3, <3>3, <3>4, DeltaTyped
  <2>5. g[x] = d /\ g[x] = Delta(x)'
    BY <1>3, <1>4
  <2> HIDE DEF g
  <2>6. SumOf(S) = SumOver(g, S)
    BY <2>3, <2>4, SumOfIs DEF SumRule
  <2>7. \A y \in T : g[y] \in Int /\ g[y] = Delta(y)'
    BY <2>2, <2>4, <2>5
  <2>8. SumOf(T)' = SumOver(g, T)
    BY <2>3, <2>7, SumOfIsNext DEF SumRule
  <2>9. SumOver(g, T) = d + SumOver(g, S)
    BY <2>3, <2>5, <2>7, SumAdd
  <2>10. S = {} => SumOf(S) = 0
    BY <2>6, SumEmpty
  <2>11. store'.counters[i] =
            Wrap((IF store.counters[i] = Missing THEN 0 ELSE store.counters[i]) + d)
    BY <1>12, <2>1, ApplyStore DEF TypeInv, Store
  <2> DEFINE sum == SumOf(S)
  <2>12. sum \in Int /\ Wrap(sum) \in Counter /\ Wrap(sum) # Missing
    BY <1>9, WrapType, StoreAssumption DEF Counter
  <2>13. store'.counters[i] = Wrap(sum + d)
    <3> HIDE DEF sum
    <3>1. CASE S = {}
      BY <1>10, <2>10, <2>11, <3>1 DEF sum
    <3>2. CASE S # {}
      BY <1>10, <2>2, <2>11, <2>12, <3>2, WrapAdd DEF sum
    <3> QED
      BY <3>1, <3>2
  <2>14. SumOf(T)' = sum + d
    BY <2>2, <2>6, <2>8, <2>9, <2>12
  <2>15. T = Increments(Number, i)' /\ T # {}
    BY <1>6, <1>8, <1>12
  <2> QED
    BY <2>13, <2>14, <2>15 DEF Wrap
<1> QED
  BY <1>11, <1>12

(* Apply applies an item that is there. *)
LEMMA InsideStep ==
    ASSUME RequestInv, InOrder, Inside, NEW n \in Number, Arrive(n) \/ Handle(n)
    PROVE  Inside'
<1>1. /\ \A m \in Number : req'[m].next # req[m].next => m = n /\ Apply(n)
      /\ \A m \in Number : req[m].next > 1 => req'[m].in = req[m].in
  BY StepKeeps
<1> SUFFICES ASSUME NEW m \in Number, req'[m].next > 1
             PROVE  Items(m)' # Malformed /\ req'[m].next <= Len(Items(m)') + 1
  BY DEF Inside
<1>2. CASE req'[m].next = req[m].next
  BY <1>1, <1>2 DEF Inside, Items
<1>3. CASE req'[m].next # req[m].next
  <2>1. m = n /\ Apply(n)
    BY <1>1, <1>3
  <2>2. /\ req[n].pc = "locked" /\ ~Refused(req[n].in) /\ ~AllApplied(n)
        /\ req[n].in \in Input /\ req[n].next \in Nat
    BY <2>1 DEF Apply, RequestInv, Sound, Phase
  <2>3. Items(n) # Malformed
    BY <2>2 DEF Refused, Items
  <2>4. Len(Items(n)) \in Nat
    BY <2>2, <2>3, ItemsTyped
  <2>5. req'[n].in = req[n].in /\ req'[n].next = req[n].next + 1
    BY <2>1, ApplyReq DEF RequestInv, Keeps
  <2>6. req[n].next <= Len(Items(n))
    BY <2>2, <2>4 DEF AllApplied
  <2>7. Items(n)' = Items(n)
    BY <2>5 DEF Items
  <2> QED
    BY <2>1, <2>2, <2>3, <2>4, <2>5, <2>6, <2>7
<1> QED
  BY <1>2, <1>3

(* mu excludes: while a request holds it no other changes the counters. *)
LEMMA LocksStep ==
    ASSUME RequestInv, InOrder, Locks, NEW n \in Number, Arrive(n) \/ Handle(n)
    PROVE  Locks'
<1>0. Shaped /\ 0 \notin Number
  BY DEF RequestInv, Number
<1>1. Only(n)
  BY <1>0, ArriveReq, HandleReq DEF Keeps
<1>2. \A m \in Number \ {n} : /\ req'[m].pc = req[m].pc /\ req'[m].old = req[m].old
                              /\ Current(m)' = Current(m)
  BY <1>1 DEF Only, Current, Items
<1>3. CASE Lock(n)
  <2>1. /\ Keeps(n) /\ req'[n].pc = "locked" /\ req'[n].next = req[n].next
        /\ req'[n].old = store.counters[Current(n).id]
    BY <1>0, <1>3, LockReq
  <2>2. Current(n)' = Current(n)
    BY <2>1 DEF Keeps, Current, Items
  <2>3. mu = 0 /\ mu' = n /\ UNCHANGED store
    BY <1>3 DEF Lock
  <2> QED
    BY <1>0, <1>2, <2>1, <2>2, <2>3 DEF Locks
<1>4. CASE Apply(n)
  <2>1. req[n].pc = "locked" /\ mu' = 0 /\ req'[n].pc # "locked"
    BY <1>0, <1>4, ApplyReq DEF Apply
  <2> QED
    BY <1>0, <1>2, <2>1 DEF Locks
<1>5. CASE ~Lock(n) /\ ~Apply(n)
  <2>1. UNCHANGED <<mu, store>>
    BY <1>5 DEF Arrive, Handle, Refuse, StopAtInvalid, ReadBack, Finish, GetMetricValue,
                ListAllMetricsHTML
  <2>2. req[n].pc # "locked" /\ req'[n].pc # "locked"
    <3>1. CASE Arrive(n)
      BY <1>0, <3>1, ArriveReq, ArrivesOnce
    <3>2. CASE ReadBack(n)
      BY <1>0, <3>2, ReadBackReq DEF ReadBack
    <3>3. CASE (\E status, reply : Answer(n, status, reply)) /\ req[n].pc = "run"
      BY <1>0, <3>3, AnswerReq
    <3>4. Refuse(n) \/ StopAtInvalid(n) \/ Finish(n) \/ GetMetricValue(n) \/ ListAllMetricsHTML(n)
             => (\E status, reply : Answer(n, status, reply)) /\ req[n].pc = "run"
      BY DEF Refuse, StopAtInvalid, Updating, Finish, GetMetricValue, ListAllMetricsHTML
    <3> QED
      BY <1>5, <3>1, <3>2, <3>3, <3>4 DEF Handle
  <2> QED
    BY <1>2, <2>1, <2>2 DEF Locks
<1> QED
  BY <1>3, <1>4, <1>5

(* Only Apply writes the store. *)
LEMMA StoreKept ==
    ASSUME NEW n \in Number, Arrive(n) \/ Handle(n), ~Apply(n)
    PROVE  UNCHANGED store
  BY DEF Arrive, Handle, Refuse, Lock, StopAtInvalid, ReadBack, Finish, GetMetricValue,
         ListAllMetricsHTML

(* What the sums rest on. *)
SumInv == Inside /\ Locks /\ CounterIsSum

(* A step of a request keeps SumInv. *)
LEMMA SumRequestStep ==
    ASSUME RequestInv, RequestInv', InOrder, TypeInv, SumInv, NEW n \in Number,
           Arrive(n) \/ Handle(n)
    PROVE  SumInv'
<1>1. Inside' /\ Locks'
  BY InsideStep, LocksStep DEF SumInv
<1>2. CASE Apply(n)
  BY <1>1, <1>2, ApplySum DEF SumInv
<1>3. CASE ~Apply(n)
  BY <1>1, <1>3, QuietSum, StepKeeps, StoreKept DEF SumInv
<1> QED
  BY <1>2, <1>3

(* A step of no request does. *)
LEMMA SumQuietStep ==
    ASSUME RequestInv, RequestInv', SumInv, UNCHANGED <<store, mu, req>>
    PROVE  SumInv'
<1>1. Inside'
  BY DEF SumInv, Inside, Items
<1>2. Locks'
  BY DEF SumInv, Locks, Current, Items
<1>3. Keeping
  BY DEF Keeping, RequestInv, Sound, Phase
<1> QED
  BY <1>1, <1>2, <1>3, QuietSum DEF SumInv

(* SumInv holds at first. *)
LEMMA SumInit == Init => SumInv
<1> SUFFICES ASSUME Init PROVE SumInv
  OBVIOUS
<1>1. \A n \in Number : req[n].pc = "none" /\ req[n].next = 1
  BY DEF Init, NotArrived
<1>2. Inside
  BY <1>1 DEF Inside
<1>3. Locks
  BY <1>1 DEF Locks, Init, Number
<1>4. \A i : Increments(Number, i) = {}
  BY <1>1 DEF Increments, Applied
<1>5. \A i \in Id : store.counters[i] = Missing
  BY DEF Init, NewMemStorage
<1> QED
  BY <1>2, <1>3, <1>4, <1>5 DEF SumInv, CounterIsSum

(* Every step keeps SumInv. *)
LEMMA SumStep ==
    ASSUME RequestInv, RequestInv', InOrder, TypeInv, SumInv, [Next]_vars
    PROVE  SumInv'
<1>1. CASE \E n \in Number : Arrive(n) \/ Handle(n)
  BY <1>1, SumRequestStep
<1>2. CASE UNCHANGED <<store, mu, req>>
  BY <1>2, SumQuietStep
<1>3. (\E o \in Observer, n \in Number : Deliver(o, n) \/ DeliverFails(o, n)) \/ Exit
         \/ UNCHANGED vars => UNCHANGED <<store, mu, req>>
  BY DEF Deliver, DeliverFails, Exit, vars
<1> QED
  BY <1>1, <1>2, <1>3 DEF Next

(* No increment is lost or counted twice, whatever updates overlap: a      *)
(* counter is the sum, in two's complement, of all that were applied       *)
(* (internal/repository/storage.go:63).                                    *)
THEOREM CountersAreSums == Spec => []CounterIsSum
<1>1. SumInv => CounterIsSum
  BY DEF SumInv
<1> QED
  BY <1>1, SumInit, SumStep, TypeInit, TypeStep, ServerInit, ServerStep, PTL DEF Spec

(* A request keeps what it and those before it have applied. *)
Settled(m) ==
    /\ req'[m].before = req[m].before
    /\ \A p \in req[m].before \cup {m} :
          req'[p].next = req[p].next /\ (req[p].next > 1 => req'[p].in = req[p].in)

(* An answer made of increments that were applied is fresh afterwards. *)
LEMMA FreshNext ==
    ASSUME RequestInv, RequestInv', Inside, Keeping, NEW m \in Number, Settled(m),
           req[m].before \subseteq Number, NEW i, NEW S \in SUBSET Increments(Number, i), S # {},
           Increments(req[m].before \cup {m}, i) \subseteq S, NEW v, v = Wrap(SumOf(S))
    PROVE  Fresh(m, i, v)'
<1> DEFINE R == req[m].before \cup {m}
           Q == Increments(R, i)
<1>1. R' = R /\ R \subseteq Number
  BY DEF Settled
<1>2. \A p \in R : Applied(p, i)' = Applied(p, i)
  BY <1>1, AppliedSame DEF Settled, RequestInv, Sound, Phase
<1> HIDE DEF R
<1>3. Q' = Q
  BY <1>1, <1>2 DEF Increments
<1>4. S \in SUBSET Increments(Number, i)' /\ SumOf(S)' = SumOf(S)
  BY SumSameNext
<1>5. Q' \subseteq S
  BY <1>3 DEF R
<1>6. v = Wrap(SumOf(S)')
  BY <1>4
<1> QED
  BY <1>4, <1>5, <1>6 DEF Fresh, Wrap, R

(* To be fresh is about the value alone. *)
LEMMA FreshReply ==
    ASSUME NEW n, NEW i, NEW v, Fresh(n, i, v)', v = req'[n].reply
    PROVE  Fresh(n, i, req[n].reply)'
  BY DEF Fresh

Reads == {"GetMetricValue", "GetMetricValueJSON"}

(* The request has the value it answers for counter i. *)
Told(n, i) ==
    /\ \/ req[n].pc = "run" /\ Route(n) \in Single /\ req[n].next = 2
       \/ req[n].pc = "done" /\ Route(n) \in Single \cup Reads /\ req[n].status = "ok"
    /\ Items(n)[1].mtype = "counter" /\ Items(n)[1].id = i

(* The list a request has been answered with is fresh. *)
ListFresh(n, i) ==
    req[n].pc = "done" /\ SeesAll(n) =>
       /\ \A e \in Entries(n, i) : Fresh(n, i, e.delta)
       /\ Increments(req[n].before, i) # {} => Entries(n, i) # {}

FreshInv ==
    /\ \A n \in Number : req[n].before \subseteq Done
    /\ \A n \in Number : req[n].pc = "readback" =>
          Route(n) \in Single /\ req[n].next = 2 /\ Items(n)[1].mtype = "counter"
    /\ \A n \in Number, i \in Id : Told(n, i) => Fresh(n, i, req[n].reply)
    /\ \A n \in Number, i \in Id : ListFresh(n, i)

(* Requests that are answered are left as they are. *)
LEMMA DoneStays ==
    ASSUME RequestInv, InOrder, NEW n \in Number, Arrive(n) \/ Handle(n)
    PROVE  n \notin Done /\ Done \subseteq Done' /\ Only(n)
<1>1. req[n].pc # "done" /\ Only(n)
  BY ArrivesOnce, ArriveReq, HandleReq DEF RequestInv, Keeps
<1> QED
  BY <1>1 DEF Done, Only

(* A request other than the one that makes the step settles. *)
LEMMA SettledOthers ==
    ASSUME RequestInv, InOrder, FreshInv, NEW n \in Number, Arrive(n) \/ Handle(n),
           NEW m \in Number, m # n \/ (Handle(n) /\ ~Apply(n))
    PROVE  Settled(m) /\ req[m].before \subseteq Number
<1>1. n \notin Done /\ Only(n) /\ req[m].before \subseteq Done /\ Done \subseteq Number
  BY DoneStays DEF FreshInv, Done
<1>2. \A p \in req[m].before : req'[p] = req[p]
  BY <1>1 DEF Only
<1>3. CASE m # n
  BY <1>1, <1>2, <1>3 DEF Only, Settled
<1>4. CASE m = n /\ Handle(n) /\ ~Apply(n)
  <2>1. Keeps(n) /\ req'[n].next = req[n].next
    BY <1>4, HandleReq, StepKeeps DEF RequestInv
  <2> QED
    BY <1>1, <1>2, <1>4, <2>1 DEF Settled, Keeps
<1> QED
  BY <1>1, <1>3, <1>4

(* A fresh value stays fresh. *)
LEMMA FreshStays ==
    ASSUME RequestInv, RequestInv', InOrder, Inside, FreshInv, NEW n \in Number,
           Arrive(n) \/ Handle(n), NEW m \in Number, m # n \/ (Handle(n) /\ ~Apply(n)),
           NEW i, NEW v, Fresh(m, i, v)
    PROVE  Fresh(m, i, v)'
<1>1. Settled(m) /\ req[m].before \subseteq Number /\ Keeping
  BY SettledOthers, StepKeeps
<1>2. PICK S \in SUBSET Increments(Number, i) :
         /\ S # {} /\ Increments(req[m].before \cup {m}, i) \subseteq S
         /\ v = Wrap(SumOf(S))
  BY DEF Fresh
<1> QED
  BY <1>1, <1>2, FreshNext

(* What a counter holds is fresh. *)
LEMMA FreshRead ==
    ASSUME RequestInv, RequestInv', InOrder, SumInv, FreshInv, NEW n \in Number,
           Handle(n), ~Apply(n), NEW i \in Id, Increments(Number, i) # {},
           NEW v, v = store.counters[i]
    PROVE  Fresh(n, i, v)'
<1>1. Settled(n) /\ req[n].before \subseteq Number /\ Keeping
  BY SettledOthers, StepKeeps
<1>2. PICK S : S = Increments(Number, i)
  OBVIOUS
<1>3. S \in SUBSET Increments(Number, i) /\ S # {}
  BY <1>2
<1>4. Increments(req[n].before \cup {n}, i) \subseteq S
  BY <1>1, <1>2 DEF Increments
<1>5. v = Wrap(SumOf(S))
  BY <1>2 DEF SumInv, CounterIsSum
<1> QED
  BY <1>1, <1>3, <1>4, <1>5, FreshNext DEF SumInv

(* A read of a single metric has one item, an update of one too. *)
LEMMA OneItem ==
    ASSUME RequestInv, NEW n \in Number, req[n].pc # "none", ~Refused(req[n].in),
           Route(n) \in Single \cup Reads
    PROVE  Items(n) # Malformed /\ Len(Items(n)) = 1 /\ Items(n)[1] \in Item
<1>1. req[n].in \in Input /\ Items(n) # Malformed
  BY DEF RequestInv, Sound, Phase, Refused, Items
<1>2. Items(n) \in Seq(Item) /\ DOMAIN Items(n) = 1 .. Len(Items(n))
  BY <1>1, ItemsTyped
<1>3. Len(Items(n)) = 1
  BY <1>1, ServerAssumption DEF Items, Route, Single, Reads, Batch
<1> QED
  BY <1>1, <1>2, <1>3

(* Apply sends a request that has one counter to read it back. *)
LEMMA ApplyFresh ==
    ASSUME RequestInv, NEW n \in Number, Apply(n)
    PROVE  /\ req'[n].pc = "readback" => /\ Route(n)' \in Single /\ req'[n].next = 2
                                         /\ Items(n)'[1].mtype = "counter"
           /\ \A i : ~Told(n, i)'
<1>1. /\ req[n].pc = "locked" /\ ~Refused(req[n].in) /\ req[n].next \in Nat \ {0}
      /\ Items(n) # Malformed /\ ~AllApplied(n)
  BY DEF Apply, RequestInv, Sound, Phase, Refused, Items
<1>2. /\ Keeps(n) /\ req'[n].next = req[n].next + 1 /\ req'[n].pc \in {"run", "readback"}
  BY ApplyReq DEF RequestInv
<1>3. Items(n)' = Items(n) /\ Route(n)' = Route(n)
  BY <1>2 DEF Keeps, Items, Route
<1>4. req'[n].pc = IF Route(n) \in Single /\ Current(n).mtype = "counter" THEN "readback" ELSE "run"
  BY DEF Apply, RequestInv, Shaped, Fields
<1>5. ASSUME Route(n) \in Single PROVE req[n].next = 1
  <2>1. Len(Items(n)) = 1
    BY <1>1, <1>5, OneItem
  <2>2. ~(req[n].next > 1)
    BY <1>1, <2>1 DEF AllApplied
  <2> QED
    BY <1>1, <2>2
<1>6. Route(n) \in Single => Current(n) = Items(n)[1] /\ req'[n].next = 2
  BY <1>2, <1>5 DEF Current
<1> QED
  BY <1>2, <1>3, <1>4, <1>6 DEF Told

(* The answer a request has after its step is fresh. *)
LEMMA FreshOwn ==
    ASSUME RequestInv, RequestInv', InOrder, SumInv, FreshInv, NEW n \in Number,
           Arrive(n) \/ Handle(n), NEW i \in Id, Told(n, i)'
    PROVE  Fresh(n, i, req[n].reply)'
<1>0. Shaped
  BY DEF RequestInv
<1>1. CASE Arrive(n)
  <2>1. req[n].next = 1
    BY <1>1, ArrivesOnce DEF RequestInv, Sound, Phase
  <2>2. req'[n].next = 1 /\ req'[n].pc = "run"
    BY <1>0, <1>1, <2>1, ArriveReq
  <2> QED
    BY <2>2 DEF Told
<1>2. CASE Refuse(n) \/ StopAtInvalid(n)
  <2>1. \E status \in {"bad request", "internal"} : Answer(n, status, Missing)
    BY <1>2 DEF Refuse, StopAtInvalid
  <2>2. req'[n].pc = "done" /\ req'[n].status # "ok"
    BY <1>0, <2>1, AnswerReq
  <2> QED
    BY <2>2 DEF Told
<1>3. CASE Lock(n)
  BY <1>0, <1>3, LockReq DEF Told
<1>4. CASE Apply(n)
  BY <1>4, ApplyFresh
<1>5. CASE ListAllMetricsHTML(n)
  <2>1. Answer(n, "ok", GetAllMetrics(store)) /\ Route(n) = "ListAllMetricsHTML"
    BY <1>5 DEF ListAllMetricsHTML
  <2>2. Keeps(n) /\ req'[n].pc = "done"
    BY <1>0, <2>1, AnswerReq
  <2> QED
    BY <2>1, <2>2 DEF Keeps, Told, Route, Single, Reads
<1>6. CASE ReadBack(n)
  <2>1. /\ Keeps(n) /\ req'[n].reply = store.counters[Items(n)[1].id]
        /\ req'[n].next = req[n].next
    BY <1>0, <1>6, ReadBackReq
  <2>2. Items(n)[1].mtype = "counter" /\ Items(n)[1].id = i
    BY <2>1 DEF Told, Keeps, Items
  <2>3. req[n].next = 2
    BY <1>6 DEF ReadBack, FreshInv
  <2>4. <<n, 1>> \in Applied(n, i)
    BY <2>2, <2>3 DEF Applied
  <2>5. Increments(Number, i) # {}
    BY <2>4 DEF Increments
  <2>6. ~Apply(n) /\ Handle(n)
    BY <1>6 DEF Apply, ReadBack, Handle
  <2>7. PICK v : v = store.counters[i]
    OBVIOUS
  <2>8. Fresh(n, i, v)'
    BY <2>5, <2>6, <2>7, FreshRead
  <2> QED
    BY <2>1, <2>2, <2>7, <2>8, FreshReply
<1>7. CASE Finish(n)
  <2>1. /\ req[n].pc = "run" /\ AllApplied(n) /\ ~Refused(req[n].in)
        /\ ~Apply(n) /\ Handle(n)
    BY <1>7 DEF Finish, Updating, Apply, Handle
  <2> DEFINE reply == IF Route(n) \in Batch THEN Missing
                      ELSE IF Items(n)[1].mtype = "gauge" THEN Items(n)[1].value
                      ELSE req[n].reply
  <2>2. Answer(n, "ok", reply)
    BY <1>7 DEF Finish
  <2>3. Keeps(n) /\ req'[n].pc = "done" /\ req'[n].reply = reply
    BY <1>0, <2>2, AnswerReq
  <2>4. Route(n) \in Single \cup Reads /\ Items(n)[1].mtype = "counter" /\ Items(n)[1].id = i
    BY <2>3 DEF Told, Keeps, Items, Route
  <2>5. Route(n) \in Single
    BY <1>7, <2>4 DEF Finish, Updating, Get, Reads
  <2>6. req'[n].reply = req[n].reply
    BY <2>3, <2>4, <2>5 DEF Single, Batch
  <2>7. Len(Items(n)) = 1 /\ req[n].next \in Nat
    BY <2>1, <2>4, OneItem DEF RequestInv, Sound, Phase
  <2>8. req[n].next = 2
    <3>1. req[n].next > 1
      BY <2>1, <2>7 DEF AllApplied
    <3>2. req[n].next <= 1 + 1
      BY <2>7, <3>1 DEF SumInv, Inside
    <3> QED
      BY <2>7, <3>1, <3>2
  <2>9. PICK v : v = req[n].reply
    OBVIOUS
  <2>10. Fresh(n, i, v)
    BY <2>1, <2>4, <2>5, <2>8, <2>9 DEF Told, FreshInv
  <2>11. Fresh(n, i, v)'
    BY <2>1, <2>10, FreshStays DEF SumInv
  <2> QED
    BY <2>6, <2>9, <2>11, FreshReply
<1>8. CASE GetMetricValue(n)
  <2> DEFINE q == Items(n)[1]
             v == IF q.mtype = "gauge" THEN store.gauges[q.id] ELSE store.counters[q.id]
  <2>1. \/ Answer(n, "not found", Missing)
        \/ q.mtype = "gauge" /\ Answer(n, "ok", Missing)
        \/ v # Missing /\ Answer(n, "ok", v)
    BY <1>8 DEF GetMetricValue
  <2>2. Keeps(n) /\ ~Apply(n) /\ Handle(n)
    BY <1>0, <1>8, <2>1, AnswerReq DEF GetMetricValue, Apply, Handle
  <2>3. q.mtype = "counter" /\ q.id = i
    BY <2>2 DEF Told, Keeps, Items
  <2>4. \/ Answer(n, "not found", Missing)
        \/ store.counters[i] # Missing /\ Answer(n, "ok", store.counters[i])
    BY <2>1, <2>3
  <2>5. CASE Answer(n, "not found", Missing)
    <3>1. req'[n].pc = "done" /\ req'[n].status = "not found"
      BY <1>0, <2>5, AnswerReq
    <3> QED
      BY <3>1 DEF Told
  <2>6. CASE store.counters[i] # Missing /\ Answer(n, "ok", store.counters[i])
    <3>1. req'[n].reply = store.counters[i]
      BY <1>0, <2>6, AnswerReq
    <3>2. Increments(Number, i) # {}
      BY <2>6 DEF SumInv, CounterIsSum
    <3>3. PICK c : c = store.counters[i]
      OBVIOUS
    <3>4. Fresh(n, i, c)'
      BY <2>2, <3>2, <3>3, FreshRead
    <3> QED
      BY <3>1, <3>3, <3>4, FreshReply
  <2> QED
    BY <2>4, <2>5, <2>6
<1> QED
  BY <1>1, <1>2, <1>3, <1>4, <1>5, <1>6, <1>7, <1>8 DEF Handle

(* Who answers a list with OK has just taken it from the store. *)
LEMMA ListStep ==
    ASSUME RequestInv, InOrder, NEW n \in Number, Arrive(n) \/ Handle(n),
           req'[n].pc = "done", SeesAll(n)'
    PROVE  ListAllMetricsHTML(n) /\ req'[n].reply = GetAllMetrics(store) /\ Keeps(n)
<1>0. Shaped
  BY DEF RequestInv
<1>1. Handle(n) /\ Keeps(n)
  BY <1>0, ArriveReq, HandleReq
<1>2. Route(n) = "ListAllMetricsHTML" /\ req'[n].status = "ok"
  BY <1>1 DEF Keeps, Route, SeesAll
<1>3. ~Updating(n) /\ ~GetMetricValue(n)
  BY <1>2 DEF Updating, Get, GetMetricValue
<1>4. ~Lock(n) /\ ~Apply(n) /\ ~ReadBack(n)
  BY <1>0, LockReq, ApplyReq, ReadBackReq
<1>5. ~Refuse(n)
  <2>1. ~Answer(n, "bad request", Missing)
    BY <1>0, <1>2, AnswerReq
  <2> QED
    BY <2>1 DEF Refuse
<1>6. ListAllMetricsHTML(n)
  BY <1>1, <1>3, <1>4, <1>5 DEF Handle, StopAtInvalid, Finish
<1> QED
  BY <1>0, <1>1, <1>6, AnswerReq DEF ListAllMetricsHTML

(* What a request has seen others increase stays as it is. *)
LEMMA BeforeStays ==
    ASSUME RequestInv, InOrder, FreshInv, NEW n \in Number, Arrive(n) \/ Handle(n),
           NEW m \in Number, m # n \/ (Handle(n) /\ ~Apply(n)), NEW i
    PROVE  Increments(req[m].before, i)' = Increments(req[m].before, i)
<1>1. Settled(m) /\ req[m].before \subseteq Number
  BY SettledOthers
<1>2. PICK R : R = req[m].before
  OBVIOUS
<1>3. req'[m].before = R
  BY <1>1, <1>2 DEF Settled
<1>4. \A p \in R : Applied(p, i)' = Applied(p, i)
  BY <1>1, <1>2, AppliedSame DEF Settled, RequestInv, Sound, Phase
<1> QED
  BY <1>2, <1>3, <1>4 DEF Increments

(* The list a request has after a step is fresh. *)
LEMMA ListStays ==
    ASSUME RequestInv, RequestInv', InOrder, SumInv, FreshInv, NEW n \in Number,
           Arrive(n) \/ Handle(n), NEW m \in Number, NEW i \in Id
    PROVE  ListFresh(m, i)'
<1> SUFFICES ASSUME req'[m].pc = "done", SeesAll(m)'
             PROVE  /\ \A e \in Entries(m, i)' : Fresh(m, i, e.delta)'
                    /\ Increments(req[m].before, i)' # {} => Entries(m, i)' # {}
  BY DEF ListFresh
<1>0. Inside
  BY DEF SumInv
<1>1. CASE m # n
  <2>1. req'[m] = req[m]
    BY <1>1, DoneStays DEF Only
  <2>2. Entries(m, i)' = Entries(m, i) /\ ListFresh(m, i) /\ req[m].pc = "done" /\ SeesAll(m)
    BY <2>1 DEF Entries, SeesAll, Route, FreshInv
  <2>3. ASSUME NEW e \in Entries(m, i)' PROVE Fresh(m, i, e.delta)'
    BY <1>0, <1>1, <2>2, <2>3, FreshStays DEF ListFresh
  <2> QED
    BY <1>1, <2>2, <2>3, BeforeStays DEF ListFresh
<1>2. CASE m = n
  <2>1. /\ ListAllMetricsHTML(n) /\ req'[n].reply = GetAllMetrics(store) /\ Keeps(n)
        /\ Handle(n) /\ ~Apply(n)
    BY <1>2, ListStep DEF Handle, ListAllMetricsHTML, Apply
  <2>2. Entries(n, i)' = {e \in GetAllMetrics(store) : e.mtype = "counter" /\ e.id = i}
    BY <2>1 DEF Entries
  <2>3. Entries(n, i)' = {Count(i, store.counters[i]) : j \in {k \in {i} : HasCounter(store, k)}}
    BY <2>2 DEF GetAllMetrics, Count, Gauge
  <2>4. HasCounter(store, i) <=> Increments(Number, i) # {}
    <3>1. Increments(Number, i) # {} => Wrap(SumOf(Increments(Number, i))) # Missing
      <4>1. PICK S : S = Increments(Number, i)
        OBVIOUS
      <4>2. SumOf(S) \in Int
        BY <1>0, <4>1, SumOfType
      <4>3. Wrap(SumOf(S)) \in Int
        BY <4>2, WrapType, StoreAssumption DEF Counter
      <4> QED
        BY <4>1, <4>3, StoreAssumption
    <3> QED
      BY <3>1 DEF SumInv, CounterIsSum, HasCounter
  <2>5. ASSUME NEW e \in Entries(n, i)' PROVE Fresh(n, i, e.delta)'
    <3>1. e.delta = store.counters[i] /\ HasCounter(store, i)
      BY <2>3, <2>5 DEF Count
    <3> QED
      BY <2>1, <2>4, <3>1, FreshRead
  <2>6. ASSUME Increments(req[n].before, i)' # {} PROVE Entries(n, i)' # {}
    <3>1. Increments(req[n].before, i) # {}
      BY <2>1, <2>6, BeforeStays
    <3>2. req[n].before \subseteq Number
      BY DEF FreshInv, Done
    <3>3. Increments(Number, i) # {}
      BY <3>1, <3>2 DEF Increments
    <3> QED
      BY <2>3, <2>4, <3>3
  <2> QED
    BY <1>2, <2>5, <2>6
<1> QED
  BY <1>1, <1>2

(* A step of a request keeps FreshInv. *)
LEMMA FreshRequestStep ==
    ASSUME RequestInv, RequestInv', InOrder, SumInv, FreshInv, NEW n \in Number,
           Arrive(n) \/ Handle(n)
    PROVE  FreshInv'
<1>0. Only(n) /\ Done \subseteq Done'
  BY DoneStays
<1>1. \A m \in Number \ {n} : req'[m] = req[m] /\ Route(m)' = Route(m) /\ Items(m)' = Items(m)
  BY <1>0 DEF Only, Route, Items
<1>2. ASSUME NEW m \in Number PROVE req'[m].before \subseteq Done'
  <2>1. CASE m # n
    BY <1>0, <1>1, <2>1 DEF FreshInv
  <2>2. CASE m = n /\ Arrive(n)
    BY <1>0, <2>2, ArriveReq DEF RequestInv
  <2>3. CASE m = n /\ Handle(n)
    BY <1>0, <2>3, HandleReq DEF RequestInv, Keeps, FreshInv
  <2> QED
    BY <2>1, <2>2, <2>3
<1>3. ASSUME NEW m \in Number, req'[m].pc = "readback"
      PROVE  Route(m)' \in Single /\ req'[m].next = 2 /\ Items(m)'[1].mtype = "counter"
  <2>1. CASE m # n
    BY <1>1, <1>3, <2>1 DEF FreshInv
  <2>2. CASE m = n /\ Apply(n)
    BY <1>3, <2>2, ApplyFresh
  <2>3. CASE m = n /\ ~Apply(n)
    <3>1. \/ req'[n].pc = "run" \/ req'[n].pc = "locked" \/ req'[n].pc = "done"
      <4>1. Arrive(n) => req'[n].pc = "run"
        BY ArriveReq DEF RequestInv
      <4>2. Lock(n) \/ ReadBack(n) => req'[n].pc \in {"locked", "run"}
        BY LockReq, ReadBackReq DEF RequestInv
      <4>3. (\E status, reply : Answer(n, status, reply)) => req'[n].pc = "done"
        BY AnswerReq DEF RequestInv
      <4>4. Refuse(n) \/ StopAtInvalid(n) \/ Finish(n) \/ GetMetricValue(n)
               \/ ListAllMetricsHTML(n) => \E status, reply : Answer(n, status, reply)
        BY DEF Refuse, StopAtInvalid, Finish, GetMetricValue, ListAllMetricsHTML
      <4> QED
        BY <2>3, <4>1, <4>2, <4>3, <4>4 DEF Handle
    <3> QED
      BY <1>3, <2>3, <3>1
  <2> QED
    BY <2>1, <2>2, <2>3
<1>4. ASSUME NEW m \in Number, NEW i \in Id, Told(m, i)' PROVE Fresh(m, i, req[m].reply)'
  <2>1. CASE m # n
    <3>1. Told(m, i) /\ req'[m].reply = req[m].reply
      BY <1>1, <1>4, <2>1 DEF Told
    <3>2. PICK v : v = req[m].reply
      OBVIOUS
    <3>3. Fresh(m, i, v)
      BY <3>1, <3>2 DEF FreshInv
    <3>4. Fresh(m, i, v)'
      BY <2>1, <3>3, FreshStays DEF SumInv
    <3> QED
      BY <3>1, <3>2, <3>4, FreshReply
  <2>2. CASE m = n
    BY <1>4, <2>2, FreshOwn
  <2> QED
    BY <2>1, <2>2
<1>5. \A m \in Number, i \in Id : ListFresh(m, i)'
  BY ListStays
<1> QED
  BY <1>2, <1>3, <1>4, <1>5 DEF FreshInv

(* FreshInv holds at first. *)
LEMMA FreshInit == Init => FreshInv
  BY DEF Init, NotArrived, FreshInv, Told, ListFresh

(* Every step keeps FreshInv. *)
LEMMA FreshStep ==
    ASSUME RequestInv, RequestInv', InOrder, SumInv, FreshInv, [Next]_vars
    PROVE  FreshInv'
<1>1. CASE \E n \in Number : Arrive(n) \/ Handle(n)
  BY <1>1, FreshRequestStep
<1>2. CASE UNCHANGED req
  <2>1. Keeping /\ \A m \in Number : Settled(m)
    BY <1>2 DEF Keeping, Settled, RequestInv, Sound, Phase
  <2>2. /\ Done' = Done /\ \A m \in Number : Route(m)' = Route(m) /\ Items(m)' = Items(m)
        /\ Done \subseteq Number
    BY <1>2 DEF Done, Route, Items
  <2>3. ASSUME NEW m \in Number, NEW i \in Id, NEW v, Fresh(m, i, v) PROVE Fresh(m, i, v)'
    <3>1. req[m].before \subseteq Number
      BY <2>2 DEF FreshInv
    <3>2. PICK S \in SUBSET Increments(Number, i) :
             /\ S # {} /\ Increments(req[m].before \cup {m}, i) \subseteq S
             /\ v = Wrap(SumOf(S))
      BY <2>3 DEF Fresh
    <3> QED
      BY <2>1, <3>1, <3>2, FreshNext DEF SumInv
  <2>4. ASSUME NEW m \in Number, NEW i \in Id, Told(m, i)' PROVE Fresh(m, i, req[m].reply)'
    <3>1. PICK v : v = req[m].reply
      OBVIOUS
    <3>2. Fresh(m, i, v) /\ v = req'[m].reply
      BY <1>2, <2>2, <2>4, <3>1 DEF Told, FreshInv
    <3> QED
      BY <2>3, <3>2, FreshReply
  <2>5. ASSUME NEW m \in Number, NEW i \in Id PROVE ListFresh(m, i)'
    <3>1. ListFresh(m, i) /\ Entries(m, i)' = Entries(m, i) /\ (SeesAll(m)' <=> SeesAll(m))
      BY <1>2 DEF FreshInv, Entries, SeesAll, Route
    <3>2. Increments(req[m].before, i)' = Increments(req[m].before, i)
      BY <1>2 DEF Increments, Applied, Items
    <3>3. \A e \in Entries(m, i) : Fresh(m, i, e.delta) => Fresh(m, i, e.delta)'
      BY <2>3
    <3> QED
      BY <1>2, <3>1, <3>2, <3>3 DEF ListFresh
  <2> QED
    BY <1>2, <2>2, <2>4, <2>5 DEF FreshInv
<1> QED
  BY <1>1, <1>2, AuditSteps DEF Next, Exit, vars

(* A client is answered with what the counter was after its own increment, *)
(* those of every request answered before it sent this one, and others     *)
(* that were applied, and no others, although the service reads the        *)
(* counter back after it released the lock; and so with each counter of a  *)
(* list, which lacks none of those that were answered before               *)
(* (internal/service/metrics_service.go:37,                                *)
(* internal/repository/storage.go:91).                                     *)
THEOREM RepliesAreFresh == Spec => []CounterReplyIsFresh
<1>1. FreshInv => CounterReplyIsFresh
  BY DEF FreshInv, Told, ListFresh, CounterReplyIsFresh, Sees, Done, Single, Reads
<1> QED
  BY <1>1, FreshInit, FreshStep, SumInit, SumStep, TypeInit, TypeStep, ServerInit, ServerStep, PTL
  DEF Spec
=============================================================================
