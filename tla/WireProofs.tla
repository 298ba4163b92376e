----------------------------- MODULE WireProofs -----------------------------
(***************************************************************************)
(* TypeOK, TextsAreOwn, AnswerFollowsDeployment and ConfigAsDocumented of  *)
(* module Wire, for every set of calls, attempts, buffers and readers, and *)
(* for every source of the configurations.                                 *)
(*                                                                         *)
(* The invariant has four parts.  AgentInv: the buffers that calls in      *)
(* progress hold are their own, none of them is in the pool, the text in   *)
(* the first is the call's, and what is sent is the call's text under the  *)
(* agent's key.  ServerInv: the same for the buffers and readers of the    *)
(* requests being served, and what each of them has read, and will read,   *)
(* of its body is the text of its call or an end cut short.  Only an       *)
(* attempt relates the two: the request it sends finds its body sealed.    *)
(* A step keeps its process's part by a frame lemma: it is enough to look  *)
(* at the one call, or request, that moves, and to show that what the      *)
(* others hold is left alone.  AnswerInv says which checks a request has   *)
(* passed where; the texts are known from ServerInv, so it need not speak  *)
(* of any object the requests share.  TypeInv, at last, bounds the         *)
(* attempts and says what the pools are of, and that a request that no     *)
(* longer uses an object no longer names it.                               *)
(*                                                                         *)
(* The configuration is read in one step: what it then is follows from the *)
(* operators of module Config, source by source.                           *)
(***************************************************************************)
EXTENDS Wire, TLAPS

-----------------------------------------------------------------------------
(* Shapes: functions and records with the fields they start with.          *)

(* The values of f at D are records with the fields F. *)
Records(f, D, F) == /\ f = [x \in D |-> f[x]]
                    /\ \A x \in D : f[x] = [k \in F |-> f[x][k]]

CallFields == {"path", "pc", "json", "gzipped", "body", "hash", "tries", "status"}
ReqFields  == {"pc", "body", "whole", "buffer", "reader", "status", "sum"}
PoolName   == {"agent", "server", "reader"}

OnlyCall(c) == \A d \in Call \ {c} : call'[d] = call[d]
OnlyReq(r)  == \A q \in Request \ {r} : req'[q] = req[q]
OnlyPool(p) == \A q \in PoolName \ {p} : pool'[q] = pool[q]
ShapedPool  == Records(pool, PoolName, {"idle", "made"})

(* Get takes the object out of its pool and changes no other. *)
LEMMA GetPool ==
    ASSUME ShapedPool, NEW p \in PoolName, NEW x, Get(p, x)
    PROVE  /\ ShapedPool' /\ OnlyPool(p)
           /\ pool'[p].idle = pool[p].idle \ {x}
           /\ pool'[p].made = pool[p].made \cup {x}
  BY DEF ShapedPool, Records, OnlyPool, Get, PoolName

(* Put gives the objects back and changes no other pool. *)
LEMMA PutPool ==
    ASSUME ShapedPool, NEW p \in PoolName, NEW xs, Put(p, xs)
    PROVE  /\ ShapedPool' /\ OnlyPool(p)
           /\ pool'[p].idle = pool[p].idle \cup (xs \ {None})
           /\ pool'[p].made = pool[p].made
  BY DEF ShapedPool, Records, OnlyPool, Put, PoolName

-----------------------------------------------------------------------------
(* The agent.                                                              *)

(* The buffers of a call in progress. *)
Held(c) == IF call[c].pc \in {"encoded", "ready", "waiting"}
           THEN {call[c].json, call[c].gzipped} \ {None} ELSE {}

(* What call c sends is its own text under the agent's keys. *)
Sealed(c) == /\ call[c].body = Encrypt(Gzip(JSON(c)), agent["CryptoKey"])
             /\ call[c].hash = HMAC(agent["Key"], JSON(c))

(* The buffers of a call are buffers, out of the pool, and hold its text. *)
CallInv(c) ==
    /\ Held(c) \subseteq Buffer
    /\ Held(c) \subseteq pool["agent"].made \ pool["agent"].idle
    /\ call[c].pc = "idle" => call[c].json = None /\ call[c].gzipped = None
    /\ call[c].pc = "encoded" => /\ call[c].json \in Buffer /\ call[c].gzipped = None
                                 /\ text[call[c].json] = JSON(c)
    /\ call[c].pc \in {"ready", "waiting"} /\ ~OverGRPC => Sealed(c)

CallsShaped == Records(call, Call, CallFields)
ReqsShaped  == Records(req, Request, ReqFields)
TextShaped  == text = [b \in Buffer |-> text[b]]

(* No two calls share a buffer; nothing has begun before the start. *)
AgentInv ==
    /\ CallsShaped /\ ShapedPool /\ TextShaped
    /\ source # None => /\ agent = None
                        /\ \A c \in Call : call[c].pc = "idle"
    /\ \A c \in Call : CallInv(c)
    /\ \A c, d \in Call : c # d => Held(c) \cap Held(d) = {}

(* The calls a step leaves alone keep their buffers. *)
LEMMA CallFrame ==
    ASSUME AgentInv, source = None, UNCHANGED conf, NEW c \in Call,
           CallsShaped', ShapedPool', TextShaped', OnlyCall(c), CallInv(c)',
           \A d \in Call \ {c} : /\ Held(d) \subseteq pool'["agent"].made \ pool'["agent"].idle
                                 /\ \A b \in Held(d) : text'[b] = text[b]
                                 /\ Held(c)' \cap Held(d) = {}
    PROVE  AgentInv'
<1>1. ASSUME NEW d \in Call \ {c} PROVE Held(d)' = Held(d) /\ CallInv(d)'
  <2>1. call'[d] = call[d]
    BY DEF OnlyCall
  <2>2. Held(d)' = Held(d)
    BY <2>1 DEF Held
  <2>3. CallInv(d)
    BY DEF AgentInv
  <2>4. Sealed(d) /\ ~OverGRPC' => Sealed(d)' /\ ~OverGRPC
    BY <2>1 DEF Sealed, OverGRPC, conf
  <2>5. call[d].pc = "encoded" => text'[call[d].json] = JSON(d)
    <3>1. call[d].pc = "encoded" => call[d].json \in Held(d)
      BY <2>3, WireAssumption DEF CallInv, Held
    <3> QED  BY <2>3, <3>1 DEF CallInv
  <2>6. OverGRPC' <=> OverGRPC
    BY DEF OverGRPC, conf
  <2> QED  BY <2>1, <2>2, <2>3, <2>4, <2>5, <2>6 DEF CallInv
<1>2. \A d \in Call : CallInv(d)'
  BY <1>1
<1>3. \A d, e \in Call : d # e => Held(d)' \cap Held(e)' = {}
  BY <1>1 DEF AgentInv
<1> QED  BY <1>2, <1>3 DEF AgentInv, conf

(* Encode keeps the invariant: the buffer it takes was held by no call. *)
LEMMA EncodeStep ==
    ASSUME AgentInv, source = None, NEW c \in Call, Encode(c)
    PROVE  AgentInv'
<1>1. PICK b \in Buffer :
         /\ MayGet("agent", b) /\ Get("agent", b)
         /\ text' = [text EXCEPT ![b] = JSON(c)]
         /\ call' = [call EXCEPT ![c].pc = "encoded", ![c].json = b]
  BY DEF Encode
<1>2. /\ CallsShaped' /\ OnlyCall(c)
      /\ call'[c].pc = "encoded" /\ call'[c].json = b /\ call'[c].gzipped = call[c].gzipped
  <2>1. CallsShaped
    BY DEF AgentInv
  <2>2. CallsShaped' /\ OnlyCall(c)
    BY <1>1, <2>1 DEF CallsShaped, Records, CallFields, OnlyCall
  <2>3. call'[c].pc = "encoded" /\ call'[c].json = b /\ call'[c].gzipped = call[c].gzipped
    BY <1>1, <2>1 DEF CallsShaped, Records, CallFields
  <2> QED  BY <2>2, <2>3
<1>3. /\ ShapedPool'
      /\ pool'["agent"].idle = pool["agent"].idle \ {b}
      /\ pool'["agent"].made = pool["agent"].made \cup {b}
  BY <1>1, GetPool DEF AgentInv, PoolName
<1>4. TextShaped' /\ text'[b] = JSON(c) /\ \A x \in Buffer \ {b} : text'[x] = text[x]
  BY <1>1 DEF AgentInv, TextShaped
<1>5. \A d \in Call : b \notin Held(d)
  BY <1>1 DEF MayGet, AgentInv, CallInv
<1>6. call[c].pc = "idle" /\ call[c].gzipped = None
  BY DEF Encode, AgentInv, CallInv
<1>7. Held(c)' = {b}
  BY <1>2, <1>6, WireAssumption DEF Held
<1>8. CallInv(c)'
  BY <1>2, <1>3, <1>4, <1>6, <1>7 DEF CallInv
<1>9. \A d \in Call \ {c} : Held(d) \subseteq Buffer
                           /\ Held(d) \subseteq pool["agent"].made \ pool["agent"].idle
  BY DEF AgentInv, CallInv
<1> QED  BY <1>2, <1>3, <1>4, <1>5, <1>7, <1>8, <1>9, CallFrame DEF Encode

(* So does EncodeFails, which puts the buffer back at once. *)
LEMMA EncodeFailsStep ==
    ASSUME AgentInv, source = None, NEW c \in Call, EncodeFails(c)
    PROVE  AgentInv'
<1>1. PICK b \in Buffer :
         /\ MayGet("agent", b)
         /\ pool' = [pool EXCEPT !["agent"].idle = @ \cup {b}, !["agent"].made = @ \cup {b}]
  BY DEF EncodeFails
<1>2. CallsShaped' /\ OnlyCall(c) /\ call'[c].pc = "done"
  BY DEF EncodeFails, AgentInv, CallsShaped, Records, CallFields, OnlyCall
<1>3. /\ ShapedPool'
      /\ pool'["agent"].idle = pool["agent"].idle \cup {b}
      /\ pool'["agent"].made = pool["agent"].made \cup {b}
  BY <1>1 DEF AgentInv, ShapedPool, Records, PoolName
<1>5. \A d \in Call : b \notin Held(d)
  BY <1>1 DEF MayGet, AgentInv, CallInv
<1>7. Held(c)' = {}
  BY <1>2 DEF Held
<1>8. CallInv(c)'
  BY <1>2, <1>7 DEF CallInv
<1>9. \A d \in Call : Held(d) \subseteq pool["agent"].made \ pool["agent"].idle
  BY DEF AgentInv, CallInv
<1>10. TextShaped' /\ UNCHANGED text /\ UNCHANGED conf
  BY DEF EncodeFails, AgentInv, TextShaped
<1> QED  BY <1>2, <1>3, <1>5, <1>7, <1>8, <1>9, <1>10, CallFrame

(* Compress, which also seals the body of its call. *)
LEMMA CompressStep ==
    ASSUME AgentInv, source = None, NEW c \in Call, Compress(c)
    PROVE  AgentInv' /\ Sealed(c)'
<1> DEFINE json == text[call[c].json]
           body == Encrypt(Gzip(json), agent["CryptoKey"])
           hash == HMAC(agent["Key"], json)
<1>1. PICK b \in Buffer :
         /\ MayGet("agent", b) /\ Get("agent", b)
         /\ text' = [text EXCEPT ![b] = Gzip(json)]
         /\ call' = [call EXCEPT ![c].pc = "ready", ![c].gzipped = b,
                                 ![c].body = body, ![c].hash = hash]
  BY DEF Compress
<1>0. json = JSON(c) /\ call[c].pc = "encoded" /\ call[c].json \in Buffer
  BY DEF Compress, AgentInv, CallInv
<1>00. body = Encrypt(Gzip(JSON(c)), agent["CryptoKey"]) /\ hash = HMAC(agent["Key"], JSON(c))
  BY <1>0
<1> HIDE DEF json, body, hash
<1>2. /\ CallsShaped' /\ OnlyCall(c)
      /\ call'[c].pc = "ready" /\ call'[c].json = call[c].json /\ call'[c].gzipped = b
      /\ call'[c].body = body /\ call'[c].hash = hash
  <2>1. CallsShaped
    BY DEF AgentInv
  <2>2. CallsShaped' /\ OnlyCall(c)
    BY <1>1, <2>1 DEF CallsShaped, Records, CallFields, OnlyCall
  <2>3. call'[c].pc = "ready" /\ call'[c].json = call[c].json
    BY <1>1, <2>1 DEF CallsShaped, Records, CallFields
  <2>4. call'[c].gzipped = b /\ call'[c].body = body
    BY <1>1, <2>1 DEF CallsShaped, Records, CallFields
  <2>5. call'[c].hash = hash
    BY <1>1, <2>1 DEF CallsShaped, Records, CallFields
  <2> QED  BY <2>2, <2>3, <2>4, <2>5
<1>3. /\ ShapedPool'
      /\ pool'["agent"].idle = pool["agent"].idle \ {b}
      /\ pool'["agent"].made = pool["agent"].made \cup {b}
  BY <1>1, GetPool DEF AgentInv, PoolName
<1>4. TextShaped' /\ \A x \in Buffer \ {b} : text'[x] = text[x]
  BY <1>1 DEF AgentInv, TextShaped
<1>5. \A d \in Call : b \notin Held(d)
  BY <1>1 DEF MayGet, AgentInv, CallInv
<1>7. Held(c)' = {call[c].json, b} /\ call[c].json \in Held(c)
  BY <1>0, <1>2, WireAssumption DEF Held
<1>9. \A d \in Call : Held(d) \subseteq Buffer
                      /\ Held(d) \subseteq pool["agent"].made \ pool["agent"].idle
  BY DEF AgentInv, CallInv
<1>8. Sealed(c)'
  BY <1>00, <1>2 DEF Sealed, Compress, conf
<1>10. CallInv(c)'
  BY <1>0, <1>2, <1>3, <1>5, <1>7, <1>8, <1>9 DEF CallInv
<1>11. \A d \in Call \ {c} : Held(c)' \cap Held(d) = {}
  BY <1>5, <1>7 DEF AgentInv
<1> QED  BY <1>2, <1>3, <1>4, <1>5, <1>8, <1>9, <1>10, <1>11, CallFrame DEF Compress

(* A call that goes on keeps what it has. *)
LEMMA GoOnStep ==
    ASSUME AgentInv, source = None, NEW c \in Call, Attempt(c) \/ Retry(c)
    PROVE  /\ AgentInv'
           /\ ~OverGRPC => Sealed(c)
<1>1. /\ CallsShaped' /\ OnlyCall(c)
      /\ call'[c].pc \in {"ready", "waiting"}
      /\ call'[c].body = call[c].body /\ call'[c].hash = call[c].hash
      /\ call'[c].json = call[c].json /\ call'[c].gzipped = call[c].gzipped
  <2>1. CallsShaped
    BY DEF AgentInv
  <2>2. CASE Retry(c)
    BY <2>1, <2>2 DEF Retry, CallsShaped, Records, CallFields, OnlyCall
  <2>3. CASE Attempt(c)
    <3> DEFINE n == call[c].tries + 1
    <3>1. call' = [call EXCEPT ![c].pc = "waiting", ![c].tries = n]
      BY <2>1, <2>3 DEF Attempt, CallsShaped, Records, CallFields
    <3> HIDE DEF n
    <3> QED  BY <2>1, <3>1 DEF CallsShaped, Records, CallFields, OnlyCall
  <2> QED  BY <2>2, <2>3
<1>2. UNCHANGED <<conf, text, pool>>
  BY DEF Attempt, Retry
<1>3. call[c].pc \in {"ready", "waiting"} \/ (call[c].pc = "idle" /\ OverGRPC)
  BY DEF Attempt, Retry
<1>4. Held(c)' = Held(c)
  BY <1>1, <1>3 DEF Held, AgentInv, CallInv
<1>5. ~OverGRPC => Sealed(c)
  BY <1>3 DEF AgentInv, CallInv
<1>6. CallInv(c)'
  <2>1. ~OverGRPC' => Sealed(c)'
    BY <1>1, <1>2, <1>5 DEF OverGRPC, Sealed, conf
  <2> QED  BY <1>1, <1>2, <1>4, <2>1 DEF CallInv, AgentInv
<1>7. ShapedPool' /\ TextShaped'
  BY <1>2 DEF AgentInv, ShapedPool, TextShaped
<1>8. \A d \in Call \ {c} : /\ Held(d) \subseteq pool'["agent"].made \ pool'["agent"].idle
                           /\ \A b \in Held(d) : text'[b] = text[b]
                           /\ Held(c)' \cap Held(d) = {}
  BY <1>2, <1>4 DEF AgentInv, CallInv
<1> QED  BY <1>1, <1>2, <1>5, <1>6, <1>7, <1>8, CallFrame

(* Return: the buffers that go back are of this call alone. *)
LEMMA ReturnStep ==
    ASSUME AgentInv, source = None, NEW c \in Call, NEW status, Return(c, status),
           call[c].pc = "waiting"
    PROVE  AgentInv'
<1> DEFINE buffers == {call[c].json, call[c].gzipped}
<1>1. CallsShaped' /\ OnlyCall(c) /\ call'[c].pc = "done"
  BY DEF Return, AgentInv, CallsShaped, Records, CallFields, OnlyCall
<1>2. Put("agent", buffers) /\ text' = Reset(text, buffers)
  BY DEF Return
<1>3. Held(c) = buffers \ {None}
  BY DEF Held
<1>4. /\ ShapedPool'
      /\ pool'["agent"].idle = pool["agent"].idle \cup Held(c)
      /\ pool'["agent"].made = pool["agent"].made
  BY <1>2, <1>3, PutPool DEF AgentInv, PoolName
<1> HIDE DEF buffers
<1>5. TextShaped' /\ \A b \in Buffer \ buffers : text'[b] = text[b]
  BY <1>2 DEF AgentInv, TextShaped, Reset
<1>6. \A d \in Call \ {c} : /\ Held(d) \subseteq Buffer /\ Held(d) \cap Held(c) = {}
                           /\ Held(d) \subseteq pool["agent"].made \ pool["agent"].idle
  BY DEF AgentInv, CallInv
<1>7. \A d \in Call \ {c} : /\ Held(d) \subseteq pool'["agent"].made \ pool'["agent"].idle
                           /\ \A b \in Held(d) : text'[b] = text[b]
  BY <1>3, <1>4, <1>5, <1>6, WireAssumption
<1>8. Held(c)' = {} /\ CallInv(c)'
  BY <1>1 DEF CallInv, Held
<1> QED  BY <1>1, <1>4, <1>5, <1>7, <1>8, CallFrame DEF Return

-----------------------------------------------------------------------------
(* The server.                                                             *)

(* The states in which a request holds a buffer for its answer. *)
Serving == {"entered", "verify", "route", "handled"}

(* The buffer and the reader a request holds. *)
Buf(r) == IF req[r].pc \in Serving THEN {req[r].buffer} ELSE {}
Rdr(r) == IF req[r].pc \in {"verify", "route"} THEN {req[r].reader} \ {None} ELSE {}

(* What reaches the server of a call, if it is whole. *)
Sent(c) == Encrypt(Gzip(JSON(c)), agent["CryptoKey"])

(* The server can open what the agent seals. *)
Opens == agent["CryptoKey"] \in {Empty, server["CryptoKey"]}

(* Of a text x what has come through. *)
Arrived(r, x) == IF req[r].whole THEN x ELSE Cut(x)

(* What a request holds is out of the pools, and its texts are its own. *)
ReqInv(r) ==
    /\ Buf(r) \subseteq Buffer
    /\ Buf(r) \subseteq pool["server"].made \ pool["server"].idle
    /\ Rdr(r) \subseteq Reader
    /\ Rdr(r) \subseteq pool["reader"].made \ pool["reader"].idle
    /\ req[r].pc # "none" /\ ~OverGRPC => Sealed(r[1])
    /\ req[r].pc \in {"received", "entered"} => req[r].body = Arrived(r, Sent(r[1]))
    /\ \A z \in Rdr(r) : input[z] = Arrived(r, Gzip(JSON(r[1])))
    /\ req[r].pc = "verify" => req[r].reader # None
    /\ req[r].pc = "route" /\ req[r].reader = None => req[r].body = JSON(r[1])
    /\ req[r].pc = "handled" /\ req[r].status = 200 => reply[req[r].buffer] = JSON(r[1])
    /\ req[r].pc = "answered" =>
          /\ (req[r].status = 200 => req[r].body = JSON(r[1]))
          /\ ~OverGRPC => req[r].sum = HMAC(server["Key"], req[r].body)

ReplyShaped == reply = [b \in Buffer |-> reply[b]]
InputShaped == input = [z \in Reader |-> input[z]]

(* The first part of TextsAreOwn. *)
AppliedOwn == \A e \in applied : e[2] = JSON(e[1][1])

(* No two requests share a buffer or a reader. *)
ServerInv ==
    /\ ReqsShaped /\ ShapedPool /\ ReplyShaped /\ InputShaped
    /\ source # None => \A r \in Request : req[r].pc = "none"
    /\ \A r \in Request : ReqInv(r)
    /\ \A q, r \in Request : q # r => Buf(q) \cap Buf(r) = {} /\ Rdr(q) \cap Rdr(r) = {}
    /\ AppliedOwn

(* What request q needs of a step that is not its own. *)
Spares(q) ==
    /\ Buf(q) \subseteq pool'["server"].made \ pool'["server"].idle
    /\ Rdr(q) \subseteq pool'["reader"].made \ pool'["reader"].idle
    /\ \A b \in Buf(q) : reply'[b] = reply[b]
    /\ \A z \in Rdr(q) : input'[z] = input[z]
    /\ Sealed(q[1]) => Sealed(q[1])'

(* A request whose belongings are spared keeps its part of the invariant. *)
LEMMA Spared ==
    ASSUME NEW q \in Request, ReqInv(q), Spares(q), UNCHANGED conf, req'[q] = req[q]
    PROVE  Buf(q)' = Buf(q) /\ Rdr(q)' = Rdr(q) /\ ReqInv(q)'
<1>1. Buf(q)' = Buf(q) /\ Rdr(q)' = Rdr(q)
  BY DEF Buf, Rdr
<1>2. (OverGRPC' <=> OverGRPC) /\ Sent(q[1])' = Sent(q[1])
  BY DEF OverGRPC, Sent, conf
<1>3. req[q].pc = "handled" => req[q].buffer \in Buf(q)
  BY DEF Buf, Serving
<1>4. req[q].pc # "none" /\ ~OverGRPC => Sealed(q[1])'
  BY DEF ReqInv, Spares
<1>5. req[q].pc = "handled" /\ req[q].status = 200 => reply'[req[q].buffer] = JSON(q[1])
  BY <1>3 DEF ReqInv, Spares
<1>6. server' = server
  BY DEF conf
<1>7. \A z \in Rdr(q) : input'[z] = Arrived(q, Gzip(JSON(q[1])))
  BY DEF ReqInv, Spares
<1>8. \A x : Arrived(q, x)' = Arrived(q, x')
  BY DEF Arrived
<1> QED  BY <1>1, <1>2, <1>4, <1>5, <1>6, <1>7, <1>8 DEF ReqInv, Spares

(* The requests a step leaves alone keep what they hold. *)
LEMMA ReqFrame ==
    ASSUME ServerInv, source = None, UNCHANGED conf, NEW r \in Request,
           ReqsShaped', ShapedPool', ReplyShaped', InputShaped', AppliedOwn',
           OnlyReq(r), ReqInv(r)',
           \A q \in Request \ {r} :
              Spares(q) /\ Buf(r)' \cap Buf(q) = {} /\ Rdr(r)' \cap Rdr(q) = {}
    PROVE  ServerInv'
<1>1. ASSUME NEW q \in Request \ {r} PROVE Buf(q)' = Buf(q) /\ Rdr(q)' = Rdr(q) /\ ReqInv(q)'
  BY Spared DEF OnlyReq, ServerInv
<1>2. \A q \in Request : ReqInv(q)'
  BY <1>1
<1>3. \A p, q \in Request : p # q => Buf(p)' \cap Buf(q)' = {} /\ Rdr(p)' \cap Rdr(q)' = {}
  BY <1>1 DEF ServerInv
<1> QED  BY <1>2, <1>3 DEF ServerInv, conf

(* Decrypt, case by case. *)
LEMMA DecryptIs ==
    ASSUME NEW x, NEW key
    PROVE  /\ key = Empty => Decrypt(x, key) = x
           /\ x = Tail => Decrypt(x, key) = Tail
           /\ x = Gzip(Tail) => Decrypt(x, key) \in {x, Tail}
           /\ x[1] = "sealed" /\ key # Empty => Decrypt(x, key) = IF x[2] = key THEN x[3] ELSE x
           /\ x[1] = "gzip" /\ x # Gzip(Tail) => Decrypt(x, key) = x
<1>1. Tail[1] = "cut" /\ Gzip(Tail)[1] = "gzip"
  BY DEF Tail, Gzip
<1>2. CASE key = Empty
  BY <1>1, <1>2 DEF Decrypt
<1>3. CASE key # Empty /\ x \in {Tail, Gzip(Tail)}
  BY <1>1, <1>3 DEF Decrypt
<1>4. CASE key # Empty /\ x \notin {Tail, Gzip(Tail)}
  BY <1>1, <1>4 DEF Decrypt
<1> QED  BY <1>2, <1>3, <1>4

(* A gzip text cut short. *)
LEMMA CutGzip == \A x : Cut(Gzip(x)) = Gzip(Tail)
  BY DEF Cut, Gzip, IsGzip

(* A request under way goes on with what its call has sealed. *)
LEMMA StaysSealed ==
    ASSUME ServerInv, NEW r \in Request, req[r].pc # "none", UNCHANGED <<conf, call>>
    PROVE  ~OverGRPC' => Sealed(r[1])'
  BY DEF ServerInv, ReqInv, Sealed, OverGRPC, conf

(* A body opens to a gzip text if it is whole and the server has the key   *)
(* it was sealed with, if any, and then only to its own text, or if it was *)
(* sent in the clear and cut short.                                        *)
LEMMA OpenedIs ==
    ASSUME NEW r \in Request, req[r].body = Arrived(r, Sent(r[1]))
    PROVE  /\ IsGzip(Opened(r)) => Opened(r) = Arrived(r, Gzip(JSON(r[1])))
           /\ req[r].whole => (IsGzip(Opened(r)) <=> Opens)
<1> DEFINE key == server["CryptoKey"]
           x   == req[r].body
           g   == Gzip(JSON(r[1]))
<1>1. ~IsGzip(Tail) /\ IsGzip(g) /\ Cut(g) = Gzip(Tail) /\ g # Gzip(Tail) /\ g[1] # "sealed"
  BY DEF IsGzip, Tail, Gzip, Cut, JSON
<1>2. Opened(r) = Decrypt(x, key)
  BY DEF Opened
<1>3. CASE agent["CryptoKey"] = Empty
  <2>1. Sent(r[1]) = g
    BY <1>3 DEF Sent, Encrypt
  <2>2. CASE req[r].whole
    <3>1. x = g /\ x # Tail
      BY <1>1, <2>1, <2>2 DEF Arrived
    <3>2. Decrypt(x, key) = x
      BY <1>1, <3>1, DecryptIs DEF IsGzip
    <3> QED  BY <1>1, <1>2, <1>3, <2>2, <3>1, <3>2 DEF Arrived, Opens
  <2>3. CASE ~req[r].whole
    <3>1. x = Gzip(Tail)
      BY <1>1, <2>1, <2>3 DEF Arrived
    <3>2. Decrypt(x, key) \in {x, Tail}
      BY <3>1, DecryptIs
    <3> QED  BY <1>1, <1>2, <2>3, <3>1, <3>2 DEF Arrived
  <2> QED  BY <2>2, <2>3
<1>4. CASE agent["CryptoKey"] # Empty
  <2>1. Sent(r[1]) = <<"sealed", agent["CryptoKey"], g>>
    BY <1>4 DEF Sent, Encrypt
  <2>2. ~IsGzip(Sent(r[1])) /\ Cut(Sent(r[1])) = Tail
    BY <2>1 DEF IsGzip, Cut
  <2>3. CASE req[r].whole
    <3>1. x = Sent(r[1]) /\ x[1] = "sealed" /\ x[2] = agent["CryptoKey"] /\ x[3] = g
      BY <2>1, <2>3 DEF Arrived
    <3>2. Decrypt(x, key) = IF agent["CryptoKey"] = key THEN g ELSE x
      BY <1>4, <3>1, DecryptIs
    <3> QED  BY <1>1, <1>2, <1>4, <2>2, <2>3, <3>1, <3>2 DEF Arrived, Opens
  <2>4. CASE ~req[r].whole
    <3>1. x = Tail
      BY <2>2, <2>4 DEF Arrived
    <3>2. Decrypt(x, key) = Tail
      BY <3>1, DecryptIs
    <3> QED  BY <1>1, <1>2, <2>4, <3>2
  <2> QED  BY <2>3, <2>4
<1> QED  BY <1>3, <1>4

(* A request that is refused holds its buffer, and no reader. *)
LEMMA RefuseReq ==
    ASSUME ReqsShaped, ReplyShaped, NEW r \in Request, NEW b \in Buffer, NEW status,
           Refuse(r, b, status)
    PROVE  /\ ReqsShaped' /\ OnlyReq(r) /\ ReplyShaped'
           /\ req'[r].pc = "handled" /\ req'[r].buffer = b /\ req'[r].status = status
           /\ \A x \in Buffer \ {b} : reply'[x] = reply[x]
<1>1. /\ req' = [req EXCEPT ![r].pc = "handled", ![r].buffer = b, ![r].reader = None,
                            ![r].status = status]
      /\ reply' = [reply EXCEPT ![b] = Error]
  BY DEF Refuse
<1>2. ReqsShaped' /\ OnlyReq(r)
  BY <1>1 DEF ReqsShaped, Records, ReqFields, OnlyReq
<1>3. req'[r].pc = "handled" /\ req'[r].buffer = b
  BY <1>1 DEF ReqsShaped, Records, ReqFields
<1>4. req'[r].status = status
  BY <1>1 DEF ReqsShaped, Records, ReqFields
<1>5. ReplyShaped' /\ \A x \in Buffer \ {b} : reply'[x] = reply[x]
  BY <1>1 DEF ReplyShaped
<1> QED  BY <1>2, <1>3, <1>4, <1>5

(* What the invariant says of the buffers and readers, for use in the steps. *)
LEMMA ServingHolds ==
    ASSUME ServerInv, NEW r \in Request
    PROVE  /\ Buf(r) \subseteq Buffer /\ Rdr(r) \subseteq Reader
           /\ Buf(r) \subseteq pool["server"].made \ pool["server"].idle
           /\ Rdr(r) \subseteq pool["reader"].made \ pool["reader"].idle
           /\ req[r].pc \in Serving => Buf(r) = {req[r].buffer} /\ req[r].buffer \in Buffer
           /\ \A q \in Request \ {r} : Buf(r) \cap Buf(q) = {} /\ Rdr(r) \cap Rdr(q) = {}
  BY DEF ServerInv, ReqInv, Buf

(* Transmit: the body that arrives is the sealed one, or its beginning. *)
LEMMA TransmitStep ==
    ASSUME ServerInv, source = None, NEW r \in Request, Transmit(r)
    PROVE  ServerInv'
<1>1. PICK whole \in BOOLEAN :
         req' = [req EXCEPT ![r].pc = "received", ![r].whole = whole,
                            ![r].body = IF whole THEN BodyOf(r[1]) ELSE Cut(BodyOf(r[1]))]
  BY DEF Transmit
<1> DEFINE body == IF whole THEN BodyOf(r[1]) ELSE Cut(BodyOf(r[1]))
<1>0. Sealed(r[1])
  BY DEF Transmit, ServerInv, ReqInv
<1>2. body = IF whole THEN Sent(r[1]) ELSE Cut(Sent(r[1]))
  BY <1>0 DEF Sealed, Sent, BodyOf
<1>3. req' = [req EXCEPT ![r].pc = "received", ![r].whole = whole, ![r].body = body]
  BY <1>1
<1> HIDE DEF body
<1>4. /\ ReqsShaped' /\ OnlyReq(r) /\ req'[r].pc = "received"
      /\ req'[r].body = body /\ req'[r].whole = whole
  <2>1. ReqsShaped
    BY DEF ServerInv
  <2>2. ReqsShaped' /\ OnlyReq(r)
    BY <1>3, <2>1 DEF ReqsShaped, Records, ReqFields, OnlyReq
  <2>3. req'[r].pc = "received" /\ req'[r].body = body /\ req'[r].whole = whole
    BY <1>3, <2>1 DEF ReqsShaped, Records, ReqFields
  <2> QED  BY <2>2, <2>3
<1>5. UNCHANGED <<conf, call, reply, input, pool, applied>>
  BY DEF Transmit
<1>6. Buf(r)' = {} /\ Rdr(r)' = {}
  BY <1>4 DEF Buf, Rdr, Serving
<1>7. Sent(r[1])' = Sent(r[1]) /\ Sealed(r[1])'
  BY <1>0, <1>5 DEF Sent, Sealed, conf
<1>8. ReqInv(r)'
  BY <1>2, <1>4, <1>6, <1>7 DEF ReqInv, Arrived
<1>9. ASSUME NEW q \in Request PROVE Spares(q)
  BY <1>5, ServingHolds DEF Spares, Sealed, conf
<1>10. ShapedPool' /\ ReplyShaped' /\ InputShaped' /\ AppliedOwn'
  BY <1>5 DEF ServerInv, ShapedPool, ReplyShaped, InputShaped, AppliedOwn
<1> QED  BY <1>4, <1>5, <1>6, <1>8, <1>9, <1>10, ReqFrame

(* ServeGRPC applies and answers the text of its call. *)
LEMMA ServeGRPCStep ==
    ASSUME ServerInv, source = None, NEW r \in Request, ServeGRPC(r)
    PROVE  ServerInv'
<1> DEFINE status == IF Trusted THEN 200 ELSE 403
           body   == JSON(r[1])
<1>1. req' = [req EXCEPT ![r].pc = "answered", ![r].body = body, ![r].status = status]
  BY DEF ServeGRPC
<1>2. OverGRPC'
  BY DEF ServeGRPC, OverGRPC, conf
<1> HIDE DEF status, body
<1>4. ReqsShaped' /\ OnlyReq(r) /\ req'[r].pc = "answered" /\ req'[r].body = body
  BY <1>1 DEF ServerInv, ReqsShaped, Records, ReqFields, OnlyReq
<1>5. UNCHANGED <<conf, call, reply, input, pool>>
  BY DEF ServeGRPC
<1>6. Buf(r)' = {} /\ Rdr(r)' = {}
  BY <1>4 DEF Buf, Rdr, Serving
<1>8. ReqInv(r)'
  BY <1>2, <1>4, <1>6 DEF ReqInv, body
<1>9. ASSUME NEW q \in Request PROVE Spares(q)
  BY <1>5, ServingHolds DEF Spares, Sealed, conf
<1>10. ShapedPool' /\ ReplyShaped' /\ InputShaped'
  BY <1>5 DEF ServerInv, ShapedPool, ReplyShaped, InputShaped
<1>11. AppliedOwn'
  BY DEF ServeGRPC, ServerInv, AppliedOwn
<1> QED  BY <1>4, <1>5, <1>6, <1>8, <1>9, <1>10, <1>11, ReqFrame

(* Enter: the buffer it takes was held by no request. *)
LEMMA EnterStep ==
    ASSUME ServerInv, source = None, NEW r \in Request, Enter(r)
    PROVE  ServerInv'
<1>1. PICK b \in Buffer :
          /\ MayGet("server", b) /\ Get("server", b)
          /\ \/ Refuse(r, b, 403)
             \/ /\ req' = [req EXCEPT ![r].pc = "entered", ![r].buffer = b]
                /\ reply' = [reply EXCEPT ![b] = Blank]
  BY DEF Enter
<1>2. ReqsShaped /\ ReplyShaped /\ ShapedPool
  BY DEF ServerInv
<1>3. /\ ReqsShaped' /\ OnlyReq(r) /\ ReplyShaped'
      /\ req'[r].buffer = b /\ \A x \in Buffer \ {b} : reply'[x] = reply[x]
      /\ \/ req'[r].pc = "handled" /\ req'[r].status = 403
         \/ /\ req'[r].pc = "entered" /\ req'[r].body = req[r].body
            /\ req'[r].whole = req[r].whole
  <2>1. CASE Refuse(r, b, 403)
    BY <1>2, <2>1, RefuseReq
  <2>2. CASE /\ req' = [req EXCEPT ![r].pc = "entered", ![r].buffer = b]
             /\ reply' = [reply EXCEPT ![b] = Blank]
    <3>1. ReqsShaped' /\ OnlyReq(r)
      BY <1>2, <2>2 DEF ReqsShaped, Records, ReqFields, OnlyReq
    <3>2. /\ req'[r].buffer = b /\ req'[r].pc = "entered"
          /\ req'[r].body = req[r].body /\ req'[r].whole = req[r].whole
      BY <1>2, <2>2 DEF ReqsShaped, Records, ReqFields
    <3>3. ReplyShaped' /\ \A x \in Buffer \ {b} : reply'[x] = reply[x]
      BY <1>2, <2>2 DEF ReplyShaped
    <3> QED  BY <3>1, <3>2, <3>3
  <2> QED  BY <1>1, <2>1, <2>2
<1>4. /\ ShapedPool' /\ pool'["reader"] = pool["reader"]
      /\ pool'["server"].idle = pool["server"].idle \ {b}
      /\ pool'["server"].made = pool["server"].made \cup {b}
  BY <1>1, <1>2, GetPool DEF PoolName, OnlyPool
<1>5. UNCHANGED <<conf, call, input, applied>>
  BY DEF Enter
<1>6. Buf(r)' = {b} /\ Rdr(r)' = {}
  BY <1>3 DEF Buf, Rdr, Serving
<1>7. req[r].pc = "received" /\ req[r].body = Arrived(r, Sent(r[1]))
  BY DEF Enter, ServerInv, ReqInv
<1>8. Sent(r[1])' = Sent(r[1])
  BY <1>5 DEF Sent, conf
<1>9. ReqInv(r)'
  BY <1>3, <1>4, <1>5, <1>6, <1>7, <1>8, StaysSealed DEF ReqInv, Arrived
<1>10. ASSUME NEW q \in Request PROVE Spares(q) /\ b \notin Buf(q)
  <2>1. b \notin Buf(q)
    BY <1>1, ServingHolds DEF MayGet
  <2>2. Sealed(q[1]) => Sealed(q[1])'
    BY <1>5 DEF Sealed, conf
  <2> QED  BY <1>3, <1>4, <1>5, <2>1, <2>2, ServingHolds DEF Spares
<1>11. InputShaped' /\ AppliedOwn'
  BY <1>5 DEF ServerInv, InputShaped, AppliedOwn
<1> QED  BY <1>3, <1>4, <1>5, <1>6, <1>9, <1>10, <1>11, ReqFrame

(* Open: the reader it takes was held by no request, and reads the own text. *)
LEMMA OpenStep ==
    ASSUME ServerInv, source = None, NEW r \in Request, Open(r)
    PROVE  ServerInv'
<1> DEFINE pc == IF Verifies(r) THEN "verify" ELSE "route"
           x  == Opened(r)
<1>1. PICK z \in Reader :
          /\ MayGet("reader", z) /\ Get("reader", z)
          /\ input' = [input EXCEPT ![z] = x]
          /\ req' = [req EXCEPT ![r].pc = pc, ![r].reader = z]
  BY DEF Open
<1>2. pc \in {"verify", "route"}
  OBVIOUS
<1>3. req[r].pc = "entered" /\ x = Arrived(r, Gzip(JSON(r[1])))
  BY OpenedIs DEF Open, ServerInv, ReqInv
<1> HIDE DEF pc, x
<1>4. /\ ReqsShaped' /\ OnlyReq(r)
      /\ req'[r].pc = pc /\ req'[r].reader = z /\ req'[r].buffer = req[r].buffer
      /\ req'[r].whole = req[r].whole
  <2>1. ReqsShaped
    BY DEF ServerInv
  <2>2. ReqsShaped' /\ OnlyReq(r)
    BY <1>1, <2>1 DEF ReqsShaped, Records, ReqFields, OnlyReq
  <2>3. req'[r].pc = pc /\ req'[r].reader = z /\ req'[r].buffer = req[r].buffer
    BY <1>1, <2>1 DEF ReqsShaped, Records, ReqFields
  <2>4. req'[r].whole = req[r].whole
    BY <1>1, <2>1 DEF ReqsShaped, Records, ReqFields
  <2> QED  BY <2>2, <2>3, <2>4
<1>5. /\ ShapedPool' /\ pool'["server"] = pool["server"]
      /\ pool'["reader"].idle = pool["reader"].idle \ {z}
      /\ pool'["reader"].made = pool["reader"].made \cup {z}
  BY <1>1, GetPool DEF PoolName, OnlyPool, ServerInv
<1>6. InputShaped' /\ input'[z] = x /\ \A y \in Reader \ {z} : input'[y] = input[y]
  BY <1>1 DEF ServerInv, InputShaped
<1>7. UNCHANGED <<conf, call, reply, applied>>
  BY DEF Open
<1>8. Buf(r)' = Buf(r) /\ Rdr(r)' = {z}
  BY <1>2, <1>3, <1>4, WireAssumption DEF Buf, Rdr, Serving
<1>9. ReqInv(r)'
  BY <1>2, <1>3, <1>4, <1>5, <1>6, <1>7, <1>8, StaysSealed, ServingHolds, WireAssumption
     DEF ReqInv, Arrived
<1>10. ASSUME NEW q \in Request PROVE Spares(q) /\ z \notin Rdr(q)
  <2>1. z \notin Rdr(q)
    BY <1>1, ServingHolds DEF MayGet
  <2>2. Sealed(q[1]) => Sealed(q[1])'
    BY <1>7 DEF Sealed, conf
  <2> QED  BY <1>5, <1>6, <1>7, <2>1, <2>2, ServingHolds DEF Spares
<1>11. ReplyShaped' /\ AppliedOwn'
  BY <1>7 DEF ServerInv, ReplyShaped, AppliedOwn
<1> QED  BY <1>4, <1>5, <1>6, <1>7, <1>8, <1>9, <1>10, <1>11, ServingHolds, ReqFrame

(* OpenFails gives up a reader that nobody holds. *)
LEMMA OpenFailsStep ==
    ASSUME ServerInv, source = None, NEW r \in Request, OpenFails(r)
    PROVE  ServerInv'
<1> DEFINE b == req[r].buffer
<1>1. PICK z : pool' = [pool EXCEPT !["reader"].idle = @ \ {z}]
  BY DEF OpenFails
<1>2. req[r].pc = "entered" /\ Refuse(r, b, 400)
  BY DEF OpenFails
<1>3. ReqsShaped /\ ReplyShaped /\ ShapedPool
  BY DEF ServerInv
<1>4. b \in Buffer /\ Buf(r) = {b}
  BY <1>2, ServingHolds DEF Serving
<1> HIDE DEF b
<1>5. /\ ReqsShaped' /\ OnlyReq(r) /\ ReplyShaped'
      /\ req'[r].pc = "handled" /\ req'[r].buffer = b /\ req'[r].status = 400
      /\ \A x \in Buffer \ {b} : reply'[x] = reply[x]
  BY <1>2, <1>3, <1>4, RefuseReq
<1>6. /\ ShapedPool' /\ pool'["server"] = pool["server"]
      /\ pool'["reader"].idle \subseteq pool["reader"].idle
      /\ pool'["reader"].made = pool["reader"].made
  BY <1>1, <1>3 DEF ShapedPool, Records, PoolName
<1>7. UNCHANGED <<conf, call, input, applied>>
  BY DEF OpenFails
<1>8. Buf(r)' = Buf(r) /\ Rdr(r)' = {}
  BY <1>4, <1>5 DEF Buf, Rdr, Serving
<1>9. ReqInv(r)'
  BY <1>2, <1>4, <1>5, <1>6, <1>7, <1>8, StaysSealed, ServingHolds DEF ReqInv
<1>10. ASSUME NEW q \in Request \ {r} PROVE Spares(q)
  <2>1. b \notin Buf(q)
    BY <1>4, ServingHolds
  <2>2. Sealed(q[1]) => Sealed(q[1])'
    BY <1>7 DEF Sealed, conf
  <2> QED  BY <1>5, <1>6, <1>7, <2>1, <2>2, ServingHolds DEF Spares
<1>11. InputShaped' /\ AppliedOwn'
  BY <1>7 DEF ServerInv, InputShaped, AppliedOwn
<1> QED  BY <1>5, <1>6, <1>7, <1>8, <1>9, <1>10, <1>11, ServingHolds, ReqFrame

(* Verify goes on with the text of its call, or refuses. *)
LEMMA VerifyStep ==
    ASSUME ServerInv, source = None, NEW r \in Request, Verify(r)
    PROVE  ServerInv'
<1> DEFINE b    == req[r].buffer
           data == Gunzip(input[req[r].reader])
<1>1. req[r].pc = "verify"
  BY DEF Verify
<1>2. ReqsShaped /\ ReplyShaped
  BY DEF ServerInv
<1>3. b \in Buffer /\ Buf(r) = {b}
  BY <1>1, ServingHolds DEF Serving
<1>4. data \in {JSON(r[1]), Tail}
  <2>1. req[r].reader \in Rdr(r)
    BY <1>1 DEF ServerInv, ReqInv, Rdr
  <2>2. input[req[r].reader] \in {Gzip(JSON(r[1])), Gzip(Tail)}
    BY <2>1, CutGzip DEF ServerInv, ReqInv, Arrived
  <2> QED  BY <2>2 DEF Gunzip, Gzip
<1>5. \/ /\ data # Tail
         /\ req' = [req EXCEPT ![r].pc = "route", ![r].body = data, ![r].reader = None]
         /\ UNCHANGED reply
      \/ Refuse(r, b, 400)
  BY DEF Verify
<1>6. UNCHANGED <<conf, call, input, pool, applied>>
  BY DEF Verify
<1> HIDE DEF b, data
<1>7. /\ ReqsShaped' /\ OnlyReq(r) /\ ReplyShaped'
      /\ req'[r].buffer = b /\ \A x \in Buffer \ {b} : reply'[x] = reply[x]
      /\ \/ req'[r].pc = "handled" /\ req'[r].status = 400
         \/ req'[r].pc = "route" /\ req'[r].body = JSON(r[1]) /\ req'[r].reader = None
  <2>1. CASE Refuse(r, b, 400)
    BY <1>2, <1>3, <2>1, RefuseReq
  <2>2. CASE /\ data # Tail
             /\ req' = [req EXCEPT ![r].pc = "route", ![r].body = data, ![r].reader = None]
             /\ UNCHANGED reply
    <3>1. ReqsShaped' /\ OnlyReq(r)
      BY <1>2, <2>2 DEF ReqsShaped, Records, ReqFields, OnlyReq
    <3>2. /\ req'[r].buffer = b /\ req'[r].pc = "route" /\ req'[r].body = data
          /\ req'[r].reader = None
      BY <1>2, <2>2 DEF ReqsShaped, Records, ReqFields, b
    <3>3. ReplyShaped'
      BY <1>2, <2>2 DEF ReplyShaped
    <3> QED  BY <1>4, <2>2, <3>1, <3>2, <3>3
  <2> QED  BY <1>5, <2>1, <2>2
<1>8. Buf(r)' = Buf(r) /\ Rdr(r)' = {}
  BY <1>3, <1>7 DEF Buf, Rdr, Serving
<1>9. ReqInv(r)'
  BY <1>1, <1>3, <1>6, <1>7, <1>8, StaysSealed, ServingHolds DEF ReqInv
<1>10. ASSUME NEW q \in Request \ {r} PROVE Spares(q)
  <2>1. b \notin Buf(q)
    BY <1>3, ServingHolds
  <2>2. Sealed(q[1]) => Sealed(q[1])'
    BY <1>6 DEF Sealed, conf
  <2> QED  BY <1>6, <1>7, <2>1, <2>2, ServingHolds DEF Spares
<1>11. ShapedPool' /\ InputShaped' /\ AppliedOwn'
  BY <1>6 DEF ServerInv, ShapedPool, InputShaped, AppliedOwn
<1> QED  BY <1>6, <1>7, <1>8, <1>9, <1>10, <1>11, ServingHolds, ReqFrame

(* Handle applies a whole text only, its own, and frees only its reader. *)
LEMMA HandleStep ==
    ASSUME ServerInv, source = None, NEW r \in Request, Handle(r)
    PROVE  ServerInv'
<1> DEFINE b    == req[r].buffer
           z    == req[r].reader
           data == IF z = None THEN req[r].body ELSE Gunzip(input[z])
<1>1. req[r].pc = "route"
  BY DEF Handle
<1>2. ReqsShaped /\ ReplyShaped /\ InputShaped /\ ShapedPool
  BY DEF ServerInv
<1>3. b \in Buffer /\ Buf(r) = {b} /\ Rdr(r) = {z} \ {None}
  BY <1>1, ServingHolds DEF Serving, Rdr
<1>4. data \in {JSON(r[1]), Tail}
  <2>1. CASE z = None
    BY <1>1, <2>1 DEF ServerInv, ReqInv
  <2>2. CASE z # None
    <3>1. input[z] \in {Gzip(JSON(r[1])), Gzip(Tail)}
      BY <1>3, <2>2, CutGzip DEF ServerInv, ReqInv, Arrived
    <3> QED  BY <2>2, <3>1 DEF Gunzip, Gzip
  <2> QED  BY <2>1, <2>2
<1>5. IsJSON(data) => data = JSON(r[1])
  BY <1>4 DEF IsJSON, Tail
<1>6. \/ /\ IsJSON(data)
         /\ applied' = applied \cup {<<r, data>>}
         /\ reply' = [reply EXCEPT ![b] = data]
         /\ req' = [req EXCEPT ![r].pc = "handled", ![r].status = 200, ![r].reader = None]
      \/ Refuse(r, b, 400) /\ UNCHANGED applied
  BY DEF Handle
<1>7. \/ Put("reader", {z}) /\ input' = Reset(input, {z})
      \/ UNCHANGED <<pool, input>>
  BY DEF Handle
<1>8. UNCHANGED <<conf, call>>
  BY DEF Handle
<1> HIDE DEF b, z, data
<1>9. /\ ReqsShaped' /\ OnlyReq(r) /\ ReplyShaped'
      /\ req'[r].pc = "handled" /\ req'[r].buffer = b
      /\ \A x \in Buffer \ {b} : reply'[x] = reply[x]
      /\ req'[r].status = 200 => reply'[b] = JSON(r[1])
  <2>1. CASE Refuse(r, b, 400)
    BY <1>2, <1>3, <2>1, RefuseReq
  <2>2. CASE /\ IsJSON(data)
             /\ reply' = [reply EXCEPT ![b] = data]
             /\ req' = [req EXCEPT ![r].pc = "handled", ![r].status = 200, ![r].reader = None]
    <3>1. OnlyReq(r) /\ req' = [q \in Request |-> req'[q]]
      BY <1>2, <2>2 DEF ReqsShaped, Records, OnlyReq
    <3>2. req'[r] = [req[r] EXCEPT !.pc = "handled", !.status = 200, !.reader = None]
      BY <1>2, <2>2 DEF ReqsShaped, Records
    <3>3. req'[r] = [k \in ReqFields |-> req'[r][k]]
      BY <1>2, <3>2 DEF ReqsShaped, Records
    <3>4. ReqsShaped'
      BY <1>2, <3>1, <3>3 DEF ReqsShaped, Records, OnlyReq
    <3>5. req'[r].buffer = b /\ req'[r].pc = "handled"
      BY <1>2, <3>2 DEF ReqsShaped, Records, ReqFields, b
    <3>6. ReplyShaped' /\ reply'[b] = data /\ \A x \in Buffer \ {b} : reply'[x] = reply[x]
      BY <1>2, <1>3, <2>2 DEF ReplyShaped
    <3> QED  BY <1>5, <2>2, <3>1, <3>6, <3>5, <3>4
  <2> QED  BY <1>6, <2>1, <2>2
<1>10. /\ ShapedPool' /\ pool'["server"] = pool["server"] /\ InputShaped'
       /\ pool'["reader"].idle \subseteq pool["reader"].idle \cup ({z} \ {None})
       /\ pool'["reader"].made = pool["reader"].made
       /\ \A y \in Reader \ {z} : input'[y] = input[y]
  <2>1. CASE Put("reader", {z}) /\ input' = Reset(input, {z})
    <3>1. /\ ShapedPool' /\ pool'["server"] = pool["server"]
          /\ pool'["reader"].idle = pool["reader"].idle \cup ({z} \ {None})
          /\ pool'["reader"].made = pool["reader"].made
      BY <1>2, <2>1, PutPool DEF PoolName, OnlyPool
    <3>2. InputShaped' /\ \A y \in Reader \ {z} : input'[y] = input[y]
      BY <1>2, <2>1 DEF InputShaped, Reset
    <3> QED  BY <3>1, <3>2
  <2>2. CASE UNCHANGED <<pool, input>>
    BY <1>2, <2>2 DEF ShapedPool, InputShaped
  <2> QED  BY <1>7, <2>1, <2>2
<1>11. Buf(r)' = Buf(r) /\ Rdr(r)' = {}
  BY <1>3, <1>9 DEF Buf, Rdr, Serving
<1>12. ReqInv(r)'
  BY <1>1, <1>3, <1>8, <1>9, <1>10, <1>11, StaysSealed, ServingHolds DEF ReqInv
<1>13. ASSUME NEW q \in Request \ {r} PROVE Spares(q)
  <2>1. b \notin Buf(q) /\ Rdr(q) \cap ({z} \ {None}) = {}
    BY <1>3, ServingHolds
  <2>2. Sealed(q[1]) => Sealed(q[1])'
    BY <1>8 DEF Sealed, conf
  <2>3. z \notin Rdr(q)
    BY <2>1, ServingHolds, WireAssumption
  <2> QED  BY <1>9, <1>10, <2>1, <2>2, <2>3, ServingHolds DEF Spares
<1>14. AppliedOwn'
  BY <1>5, <1>6 DEF ServerInv, AppliedOwn
<1> QED  BY <1>8, <1>9, <1>10, <1>11, <1>12, <1>13, <1>14, ServingHolds, ReqFrame

(* Reply sends and signs what its handler wrote, and frees only its buffer. *)
LEMMA ReplyStep ==
    ASSUME ServerInv, source = None, NEW r \in Request, Reply(r)
    PROVE  ServerInv'
<1> DEFINE b    == req[r].buffer
           body == reply[b]
           sum  == HMAC(server["Key"], body)
<1>1. /\ req[r].pc = "handled"
      /\ req' = [req EXCEPT ![r].pc = "answered", ![r].body = body, ![r].buffer = None,
                            ![r].sum = sum]
      /\ Put("server", {b}) /\ reply' = Reset(reply, {b})
  BY DEF Reply
<1>2. ReqsShaped /\ ReplyShaped /\ ShapedPool
  BY DEF ServerInv
<1>3. b \in Buffer /\ Buf(r) = {b}
  BY <1>1, ServingHolds DEF Serving
<1>4. req[r].status = 200 => body = JSON(r[1])
  BY <1>1 DEF ServerInv, ReqInv
<1>5. UNCHANGED <<conf, call, input, applied>>
  BY DEF Reply
<1>6. sum = HMAC(server'["Key"], body)
  BY <1>5 DEF conf
<1> HIDE DEF b, body, sum
<1>7. /\ ReqsShaped' /\ OnlyReq(r) /\ req'[r].pc = "answered"
      /\ req'[r].body = body /\ req'[r].sum = sum /\ req'[r].status = req[r].status
  <2>1. ReqsShaped' /\ OnlyReq(r)
    BY <1>1, <1>2 DEF ReqsShaped, Records, ReqFields, OnlyReq
  <2>2. req'[r].pc = "answered" /\ req'[r].status = req[r].status
    BY <1>1, <1>2 DEF ReqsShaped, Records, ReqFields
  <2>3. req'[r].body = body /\ req'[r].sum = sum
    BY <1>1, <1>2 DEF ReqsShaped, Records, ReqFields
  <2> QED  BY <2>1, <2>2, <2>3
<1>8. /\ ShapedPool' /\ pool'["reader"] = pool["reader"]
      /\ pool'["server"].idle \subseteq pool["server"].idle \cup {b}
      /\ pool'["server"].made = pool["server"].made
  BY <1>1, <1>2, PutPool DEF PoolName, OnlyPool
<1>9. ReplyShaped' /\ \A x \in Buffer \ {b} : reply'[x] = reply[x]
  BY <1>1, <1>2 DEF ReplyShaped, Reset
<1>10. Buf(r)' = {} /\ Rdr(r)' = {}
  BY <1>7 DEF Buf, Rdr, Serving
<1>11. ReqInv(r)'
  BY <1>1, <1>4, <1>5, <1>6, <1>7, <1>10, StaysSealed DEF ReqInv
<1>12. ASSUME NEW q \in Request \ {r} PROVE Spares(q)
  <2>1. b \notin Buf(q)
    BY <1>3, ServingHolds
  <2>2. Sealed(q[1]) => Sealed(q[1])'
    BY <1>5 DEF Sealed, conf
  <2> QED  BY <1>5, <1>8, <1>9, <2>1, <2>2, ServingHolds DEF Spares
<1>13. InputShaped' /\ AppliedOwn'
  BY <1>5 DEF ServerInv, InputShaped, AppliedOwn
<1> QED  BY <1>5, <1>7, <1>8, <1>9, <1>10, <1>11, <1>12, <1>13, ReqFrame
-----------------------------------------------------------------------------
(* A step of the agent that sends nothing does not reach the server. *)
LEMMA AgentFrame ==
    ASSUME ServerInv, UNCHANGED <<conf, req, reply, input, applied>>, ShapedPool',
           OnlyPool("agent"), \A c \in Call : Sealed(c) => Sealed(c)'
    PROVE  ServerInv'
<1>1. ASSUME NEW q \in Request PROVE Buf(q)' = Buf(q) /\ Rdr(q)' = Rdr(q) /\ ReqInv(q)'
  <2>1. pool'["server"] = pool["server"] /\ pool'["reader"] = pool["reader"]
    BY DEF OnlyPool, PoolName
  <2>2. q[1] \in Call
    BY DEF Request
  <2>3. Spares(q)
    BY <2>1, <2>2, ServingHolds DEF Spares
  <2>4. ReqInv(q)
    BY DEF ServerInv
  <2> QED  BY <2>3, <2>4, Spared
<1>2. \A p, q \in Request : p # q => Buf(p)' \cap Buf(q)' = {} /\ Rdr(p)' \cap Rdr(q)' = {}
  BY <1>1 DEF ServerInv
<1>3. ReqsShaped' /\ ReplyShaped' /\ InputShaped' /\ AppliedOwn'
  BY DEF ServerInv, ReqsShaped, ReplyShaped, InputShaped, AppliedOwn
<1>4. source' # None => \A r \in Request : req'[r].pc = "none"
  BY DEF ServerInv, conf
<1> QED  BY <1>1, <1>2, <1>3, <1>4 DEF ServerInv

(* An attempt finds the body of its call sealed. *)
LEMMA AttemptStep ==
    ASSUME AgentInv, ServerInv, source = None, NEW c \in Call, Attempt(c)
    PROVE  ServerInv'
<1> DEFINE n == call[c].tries + 1
<1>0. PICK r : r = <<c, n>>
  OBVIOUS
<1>1. /\ req' = [req EXCEPT ![r].pc = "transit"]
      /\ call' = [call EXCEPT ![c].pc = "waiting", ![c].tries = n]
  BY <1>0 DEF Attempt, AgentInv, CallsShaped, Records, CallFields
<1>2. r[1] = c
  BY <1>0
<1> HIDE DEF n
<1>3. UNCHANGED <<conf, reply, input, pool, applied>>
  BY DEF Attempt
<1>4. CallsShaped /\ ReqsShaped
  BY DEF AgentInv, ServerInv
<1>5. \A d \in Call : call'[d].body = call[d].body /\ call'[d].hash = call[d].hash
  BY <1>1, <1>4 DEF CallsShaped, Records, CallFields
<1>6. \A d \in Call : Sealed(d) => Sealed(d)'
  BY <1>3, <1>5 DEF Sealed, conf
<1>7. ReqsShaped' /\ OnlyReq(r) /\ (r \in Request => req'[r].pc = "transit")
  BY <1>1, <1>4 DEF ReqsShaped, Records, ReqFields, OnlyReq
<1>8. ASSUME NEW q \in Request PROVE Spares(q)
  <2>1. q[1] \in Call
    BY DEF Request
  <2> QED  BY <1>3, <1>6, <2>1, ServingHolds DEF Spares
<1>9. ShapedPool' /\ ReplyShaped' /\ InputShaped' /\ AppliedOwn'
  BY <1>3 DEF ServerInv, ShapedPool, ReplyShaped, InputShaped, AppliedOwn
<1>10. CASE r \in Request
  <2>1. Buf(r)' = {} /\ Rdr(r)' = {}
    BY <1>7, <1>10 DEF Buf, Rdr, Serving
  <2>2. ~OverGRPC' => Sealed(r[1])'
    BY <1>2, <1>3, <1>6, GoOnStep DEF OverGRPC, conf
  <2>3. ReqInv(r)'
    BY <1>7, <1>10, <2>1, <2>2 DEF ReqInv
  <2> QED  BY <1>3, <1>7, <1>8, <1>9, <1>10, <2>1, <2>3, ReqFrame
<1>11. CASE r \notin Request
  <2>1. ASSUME NEW q \in Request PROVE Buf(q)' = Buf(q) /\ Rdr(q)' = Rdr(q) /\ ReqInv(q)'
    <3>1. req'[q] = req[q]
      BY <1>7, <1>11 DEF OnlyReq
    <3>2. ReqInv(q)
      BY DEF ServerInv
    <3> QED  BY <1>3, <1>8, <3>1, <3>2, Spared
  <2>2. \A p, q \in Request :
           p # q => Buf(p)' \cap Buf(q)' = {} /\ Rdr(p)' \cap Rdr(q)' = {}
    BY <2>1 DEF ServerInv
  <2>3. source' = None
    BY <1>3 DEF conf
  <2> QED  BY <1>7, <1>9, <2>1, <2>2, <2>3 DEF ServerInv
<1> QED  BY <1>10, <1>11

(* Every step of the agent keeps both parts. *)
LEMMA AgentStep ==
    ASSUME AgentInv, ServerInv, source = None, NEW c \in Call,
           \/ Encode(c) \/ EncodeFails(c) \/ Compress(c) \/ Attempt(c) \/ Retry(c)
           \/ GiveUp(c) \/ Answered(c)
    PROVE  AgentInv' /\ ServerInv'
<1>0. CallsShaped /\ ShapedPool
  BY DEF AgentInv
<1>1. CASE Encode(c)
  <2>1. PICK b \in Buffer :
           /\ Get("agent", b)
           /\ call' = [call EXCEPT ![c].pc = "encoded", ![c].json = b]
    BY <1>1 DEF Encode
  <2>2. \A d \in Call : call'[d].body = call[d].body /\ call'[d].hash = call[d].hash
    BY <1>0, <2>1 DEF CallsShaped, Records, CallFields
  <2>3. UNCHANGED <<conf, req, reply, input, applied>>
    BY <1>1 DEF Encode
  <2>4. \A d \in Call : Sealed(d) => Sealed(d)'
    BY <2>2, <2>3 DEF Sealed, conf
  <2>5. ShapedPool' /\ OnlyPool("agent")
    BY <1>0, <2>1, GetPool DEF PoolName
  <2> QED  BY <1>1, <2>3, <2>4, <2>5, EncodeStep, AgentFrame
<1>2. CASE EncodeFails(c)
  <2>1. PICK b \in Buffer :
           pool' = [pool EXCEPT !["agent"].idle = @ \cup {b}, !["agent"].made = @ \cup {b}]
    BY <1>2 DEF EncodeFails
  <2>2. \A d \in Call : call'[d].body = call[d].body /\ call'[d].hash = call[d].hash
    BY <1>0, <1>2 DEF EncodeFails, CallsShaped, Records, CallFields
  <2>3. UNCHANGED <<conf, req, reply, input, applied>>
    BY <1>2 DEF EncodeFails
  <2>4. \A d \in Call : Sealed(d) => Sealed(d)'
    BY <2>2, <2>3 DEF Sealed, conf
  <2>5. ShapedPool' /\ OnlyPool("agent")
    BY <1>0, <2>1 DEF ShapedPool, OnlyPool, Records, PoolName
  <2> QED  BY <1>2, <2>3, <2>4, <2>5, EncodeFailsStep, AgentFrame
<1>3. CASE Compress(c)
  <2>1. AgentInv' /\ Sealed(c)'
    BY <1>3, CompressStep
  <2>2. PICK b \in Buffer : Get("agent", b)
    BY <1>3 DEF Compress
  <2>3. \A d \in Call \ {c} : call'[d].body = call[d].body /\ call'[d].hash = call[d].hash
    BY <1>0, <1>3 DEF Compress, CallsShaped, Records, CallFields
  <2>4. UNCHANGED <<conf, req, reply, input, applied>>
    BY <1>3 DEF Compress
  <2>5. \A d \in Call : Sealed(d) => Sealed(d)'
    BY <2>1, <2>3, <2>4 DEF Sealed, conf
  <2>6. ShapedPool' /\ OnlyPool("agent")
    BY <1>0, <2>2, GetPool DEF PoolName
  <2> QED  BY <2>1, <2>4, <2>5, <2>6, AgentFrame
<1>4. CASE Attempt(c)
  BY <1>4, AttemptStep, GoOnStep
<1>5. CASE Retry(c)
  <2>1. \A d \in Call : call'[d].body = call[d].body /\ call'[d].hash = call[d].hash
    BY <1>0, <1>5 DEF Retry, CallsShaped, Records, CallFields
  <2>2. UNCHANGED <<conf, req, reply, input, pool, applied>>
    BY <1>5 DEF Retry
  <2>3. \A d \in Call : Sealed(d) => Sealed(d)'
    BY <2>1, <2>2 DEF Sealed, conf
  <2>4. ShapedPool' /\ OnlyPool("agent")
    BY <1>0, <2>2 DEF ShapedPool, OnlyPool
  <2> QED  BY <1>5, <2>2, <2>3, <2>4, GoOnStep, AgentFrame
<1>6. ASSUME NEW status, Return(c, status), call[c].pc = "waiting"
      PROVE  AgentInv' /\ ServerInv'
  <2>1. \A d \in Call : call'[d].body = call[d].body /\ call'[d].hash = call[d].hash
    BY <1>0, <1>6 DEF Return, CallsShaped, Records, CallFields
  <2>2. UNCHANGED <<conf, req, reply, input, applied>>
    BY <1>6 DEF Return
  <2>3. \A d \in Call : Sealed(d) => Sealed(d)'
    BY <2>1, <2>2 DEF Sealed, conf
  <2>4. PICK xs : Put("agent", xs)
    BY <1>6 DEF Return
  <2>5. ShapedPool' /\ OnlyPool("agent")
    BY <1>0, <2>4, PutPool DEF PoolName
  <2> QED  BY <1>6, <2>2, <2>3, <2>5, ReturnStep, AgentFrame
<1>7. CASE GiveUp(c)
  BY <1>6, <1>7 DEF GiveUp
<1>8. CASE Answered(c)
  <2>1. call[c].pc = "waiting" /\ Return(c, req[<<c, call[c].tries>>].status)
    BY <1>8 DEF Answered
  <2> QED  BY <1>6, <2>1
<1> QED  BY <1>1, <1>2, <1>3, <1>4, <1>5, <1>7, <1>8

(* A step of the server touches no buffer of the agent. *)
LEMMA ServerFrame ==
    ASSUME AgentInv, UNCHANGED <<conf, call, text>>, ShapedPool', pool'["agent"] = pool["agent"]
    PROVE  AgentInv'
<1>1. CallsShaped' /\ TextShaped'
  BY DEF AgentInv, CallsShaped, TextShaped
<1>2. \A c \in Call : Held(c)' = Held(c) /\ (Sealed(c)' <=> Sealed(c))
  BY DEF Held, Sealed, conf
<1>3. OverGRPC' <=> OverGRPC
  BY DEF OverGRPC, conf
<1>4. \A c \in Call : CallInv(c)'
  BY <1>2, <1>3 DEF AgentInv, CallInv
<1>5. source' # None => agent' = None /\ \A c \in Call : call'[c].pc = "idle"
  BY DEF AgentInv, conf
<1>6. \A c, d \in Call : c # d => Held(c)' \cap Held(d)' = {}
  BY <1>2 DEF AgentInv
<1> QED  BY <1>1, <1>4, <1>5, <1>6 DEF AgentInv

(* What a step of the server leaves alone. *)
LEMMA ServerPools ==
    ASSUME ShapedPool, NEW r \in Request,
           \/ Transmit(r) \/ ServeGRPC(r) \/ Enter(r) \/ Open(r) \/ OpenFails(r)
           \/ Verify(r) \/ Handle(r) \/ Reply(r)
    PROVE  /\ ShapedPool' /\ pool'["agent"] = pool["agent"]
           /\ UNCHANGED <<conf, call, text>>
<1>1. CASE UNCHANGED pool
  <2>1. ShapedPool' /\ pool'["agent"] = pool["agent"]
    BY <1>1 DEF ShapedPool
  <2> QED  BY <2>1 DEF Transmit, ServeGRPC, Enter, Open, OpenFails, Verify, Handle, Reply
<1>2. CASE Enter(r)
  <2>1. PICK b \in Buffer : Get("server", b)
    BY <1>2 DEF Enter
  <2> QED  BY <1>2, <2>1, GetPool DEF Enter, PoolName, OnlyPool
<1>3. CASE Open(r)
  <2>1. PICK z \in Reader : Get("reader", z)
    BY <1>3 DEF Open
  <2> QED  BY <1>3, <2>1, GetPool DEF Open, PoolName, OnlyPool
<1>4. CASE OpenFails(r)
  <2>1. PICK z : pool' = [pool EXCEPT !["reader"].idle = @ \ {z}]
    BY <1>4 DEF OpenFails
  <2>2. ShapedPool' /\ pool'["agent"] = pool["agent"]
    BY <2>1 DEF ShapedPool, Records, PoolName
  <2> QED  BY <1>4, <2>2 DEF OpenFails
<1>5. CASE Handle(r)
  <2>1. Put("reader", {req[r].reader}) \/ UNCHANGED pool
    BY <1>5 DEF Handle
  <2>2. UNCHANGED <<conf, call, text>>
    BY <1>5 DEF Handle
  <2>3. CASE Put("reader", {req[r].reader})
    BY <2>2, <2>3, PutPool DEF PoolName, OnlyPool
  <2> QED  BY <1>1, <2>1, <2>3, <2>2
<1>6. CASE Reply(r)
  <2>1. Put("server", {req[r].buffer}) /\ UNCHANGED <<conf, call, text>>
    BY <1>6 DEF Reply
  <2> QED  BY <2>1, PutPool DEF PoolName, OnlyPool
<1>7. Transmit(r) \/ ServeGRPC(r) \/ Verify(r) => UNCHANGED pool
  BY DEF Transmit, ServeGRPC, Verify
<1> QED  BY <1>1, <1>2, <1>3, <1>4, <1>5, <1>6, <1>7

-----------------------------------------------------------------------------
(* The answer.                                                             *)

(* The configurations fit in what is checked of a report on its path. *)
Fits(c) == Compatible(call[c].path = "/updates")

(* What a request that came through whole has passed on its way to the     *)
(* handler, and what the answer then rests on.                             *)
FateInv(r) ==
    /\ req[r].pc \in {"received"} \cup Serving => ~OverGRPC
    /\ req[r].pc \in {"entered", "verify", "route"} => Trusted
    /\ req[r].pc \in {"verify", "route"} /\ req[r].whole => Opens
    /\ req[r].pc = "verify" => Verifies(r)
    /\ req[r].pc = "route" /\ req[r].whole /\ Verifies(r) => agent["Key"] = server["Key"]
    /\ req[r].pc \in {"handled", "answered"} /\ req[r].whole =>
          (req[r].status = 200 <=> Fits(r[1]))
    /\ <<r, JSON(r[1])>> \in applied <=>
          req[r].pc \in {"handled", "answered"} /\ req[r].status = 200

(* Attempts are numbered as they are made. *)
TriesInv == \A c \in Call :
    /\ call[c].tries \in Nat
    /\ \A n \in 1 .. Attempts : n > call[c].tries => req[<<c, n>>].pc = "none"

AnswerInv == TriesInv /\ \A r \in Request : FateInv(r)

(* Which agents are understood, for the request at hand. *)
LEMMA FitsIs ==
    ASSUME NEW r \in Request
    PROVE  Fits(r[1]) <=>
              /\ Trusted
              /\ ~OverGRPC => Opens /\ (Verifies(r) => agent["Key"] = server["Key"])
  BY DEF Fits, Compatible, Verifies, Opens

(* What the configurations decide stays decided. *)
LEMMA ConfSame ==
    ASSUME UNCHANGED conf, NEW r \in Request, call'[r[1]].path = call[r[1]].path
    PROVE  /\ OverGRPC' <=> OverGRPC
           /\ Trusted' <=> Trusted
           /\ Opens' <=> Opens
           /\ Verifies(r)' <=> Verifies(r)
           /\ Fits(r[1])' <=> Fits(r[1])
           /\ agent' = agent /\ server' = server
<1>1. agent' = agent /\ server' = server /\ localIP' = localIP
  BY DEF conf
<1>2. (OverGRPC' <=> OverGRPC) /\ (Trusted' <=> Trusted) /\ (Opens' <=> Opens)
  BY <1>1 DEF OverGRPC, Trusted, Opens
<1>3. Verifies(r)' <=> Verifies(r)
  BY <1>1 DEF Verifies
<1>4. Fits(r[1])' <=> Fits(r[1])
  BY <1>1, <1>2 DEF Fits, Compatible
<1> QED  BY <1>1, <1>2, <1>3, <1>4

(* A request that a step leaves alone keeps its fate. *)
LEMMA FateFrame ==
    ASSUME UNCHANGED conf, NEW q \in Request, FateInv(q), req'[q] = req[q],
           call'[q[1]].path = call[q[1]].path,
           <<q, JSON(q[1])>> \in applied' <=> <<q, JSON(q[1])>> \in applied
    PROVE  FateInv(q)'
  BY ConfSame DEF FateInv

(* What a step of the server does to its request and to the others. *)
LEMMA ServerReq ==
    ASSUME ServerInv, NEW r \in Request,
           \/ Transmit(r) \/ ServeGRPC(r) \/ Enter(r) \/ Open(r) \/ OpenFails(r)
           \/ Verify(r) \/ Handle(r) \/ Reply(r)
    PROVE  /\ OnlyReq(r) /\ req[r].pc # "none" /\ UNCHANGED <<conf, call>>
           /\ Transmit(r) \/ req'[r].whole = req[r].whole
           /\ \A q \in Request \ {r} :
                 <<q, JSON(q[1])>> \in applied' <=> <<q, JSON(q[1])>> \in applied
<1>0. ReqsShaped
  BY DEF ServerInv
<1>1. req[r].pc # "none" /\ UNCHANGED <<conf, call>>
  BY DEF Transmit, ServeGRPC, Enter, Open, OpenFails, Verify, Handle, Reply
<1>2. ASSUME NEW b, NEW status, Refuse(r, b, status)
      PROVE  OnlyReq(r) /\ req'[r].whole = req[r].whole
  BY <1>0, <1>2 DEF Refuse, ReqsShaped, Records, ReqFields, OnlyReq
<1>3. CASE Transmit(r) \/ ServeGRPC(r)
  <2>1. OnlyReq(r)
    BY <1>0, <1>3 DEF Transmit, ServeGRPC, ReqsShaped, Records, ReqFields, OnlyReq
  <2>2. Transmit(r) \/ req'[r].whole = req[r].whole
    BY <1>0, <1>3 DEF ServeGRPC, ReqsShaped, Records, ReqFields
  <2>3. applied' \subseteq applied \cup {<<r, JSON(r[1])>>} /\ applied \subseteq applied'
    BY <1>3 DEF Transmit, ServeGRPC
  <2> QED  BY <1>1, <2>1, <2>2, <2>3
<1>4. CASE Enter(r)
  <2>1. PICK b : \/ Refuse(r, b, 403)
                 \/ req' = [req EXCEPT ![r].pc = "entered", ![r].buffer = b]
    BY <1>4 DEF Enter
  <2>2. OnlyReq(r) /\ req'[r].whole = req[r].whole
    BY <1>0, <1>2, <2>1 DEF ReqsShaped, Records, ReqFields, OnlyReq
  <2> QED  BY <1>1, <1>4, <2>2 DEF Enter
<1>5. CASE Open(r)
  <2> DEFINE pc == IF Verifies(r) THEN "verify" ELSE "route"
  <2>1. PICK z : req' = [req EXCEPT ![r].pc = pc, ![r].reader = z]
    BY <1>5 DEF Open
  <2> HIDE DEF pc
  <2>2. OnlyReq(r) /\ req'[r].whole = req[r].whole
    BY <1>0, <2>1 DEF ReqsShaped, Records, ReqFields, OnlyReq
  <2> QED  BY <1>1, <1>5, <2>2 DEF Open
<1>6. CASE OpenFails(r)
  BY <1>1, <1>2, <1>6 DEF OpenFails
<1>7. CASE Verify(r)
  <2> DEFINE data == Gunzip(input[req[r].reader])
  <2>1. \/ req' = [req EXCEPT ![r].pc = "route", ![r].body = data, ![r].reader = None]
        \/ Refuse(r, req[r].buffer, 400)
    BY <1>7 DEF Verify
  <2> HIDE DEF data
  <2>2. OnlyReq(r) /\ req'[r].whole = req[r].whole
    BY <1>0, <1>2, <2>1 DEF ReqsShaped, Records, ReqFields, OnlyReq
  <2> QED  BY <1>1, <1>7, <2>2 DEF Verify
<1>8. CASE Handle(r)
  <2>1. \/ req' = [req EXCEPT ![r].pc = "handled", ![r].status = 200, ![r].reader = None]
        \/ Refuse(r, req[r].buffer, 400)
    BY <1>8 DEF Handle
  <2>2. OnlyReq(r) /\ req'[r].whole = req[r].whole
    BY <1>0, <1>2, <2>1 DEF ReqsShaped, Records, ReqFields, OnlyReq
  <2>3. applied' = applied \/ \E x : applied' = applied \cup {<<r, x>>}
    BY <1>8 DEF Handle
  <2> QED  BY <1>1, <2>2, <2>3
<1>9. CASE Reply(r)
  <2> DEFINE body == reply[req[r].buffer]
             sum  == HMAC(server["Key"], body)
  <2>1. req' = [req EXCEPT ![r].pc = "answered", ![r].body = body, ![r].buffer = None,
                           ![r].sum = sum]
    BY <1>9 DEF Reply
  <2> HIDE DEF body, sum
  <2>2. OnlyReq(r)
    BY <1>0, <2>1 DEF ReqsShaped, Records, ReqFields, OnlyReq
  <2>3. req'[r].whole = req[r].whole
    BY <1>0, <2>1 DEF ReqsShaped, Records, ReqFields
  <2> QED  BY <1>1, <1>9, <2>2, <2>3 DEF Reply
<1> QED  BY <1>3, <1>4, <1>5, <1>6, <1>7, <1>8, <1>9

(* A refusal is right when something does not fit. *)
LEMMA RefusedFate ==
    ASSUME ServerInv, NEW r \in Request, FateInv(r), NEW b, NEW status \in {400, 403},
           Refuse(r, b, status), req[r].pc \notin {"handled", "answered"}, ~OverGRPC,
           UNCHANGED <<conf, call, applied>>,
           req[r].whole => ~Fits(r[1])
    PROVE  FateInv(r)'
<1>0. ReqsShaped
  BY DEF ServerInv
<1>1. req'[r].pc = "handled" /\ req'[r].whole = req[r].whole
  BY <1>0 DEF Refuse, ReqsShaped, Records, ReqFields
<1>2. req'[r].status = status
  BY <1>0 DEF Refuse, ReqsShaped, Records, ReqFields
<1> QED  BY <1>1, <1>2, ConfSame DEF FateInv

(* Transmit decides nothing. *)
LEMMA TransmitFate ==
    ASSUME ServerInv, NEW r \in Request, FateInv(r), Transmit(r)
    PROVE  FateInv(r)'
<1>0. ReqsShaped
  BY DEF ServerInv
<1>1. PICK whole, body :
         req' = [req EXCEPT ![r].pc = "received", ![r].whole = whole, ![r].body = body]
  BY DEF Transmit
<1>2. req'[r].pc = "received"
  BY <1>0, <1>1 DEF ReqsShaped, Records, ReqFields
<1>3. /\ UNCHANGED <<conf, call, applied>> /\ ~OverGRPC /\ req[r].pc = "transit"
  BY DEF Transmit
<1> QED  BY <1>2, <1>3, ConfSame DEF FateInv, Serving

(* Over gRPC only the subnet counts. *)
LEMMA ServeGRPCFate ==
    ASSUME ServerInv, NEW r \in Request, FateInv(r), ServeGRPC(r)
    PROVE  FateInv(r)'
<1>0. ReqsShaped
  BY DEF ServerInv
<1> DEFINE status == IF Trusted THEN 200 ELSE 403
           body   == JSON(r[1])
<1>1. req' = [req EXCEPT ![r].pc = "answered", ![r].body = body, ![r].status = status]
  BY DEF ServeGRPC
<1>2. status = 200 <=> Trusted
  OBVIOUS
<1> HIDE DEF status, body
<1>3. req'[r].pc = "answered" /\ req'[r].status = status
  BY <1>0, <1>1 DEF ReqsShaped, Records, ReqFields
<1>4. UNCHANGED <<conf, call>> /\ OverGRPC /\ req[r].pc = "transit"
  BY DEF ServeGRPC
<1>5. Fits(r[1])' <=> Trusted
  BY <1>4, FitsIs, ConfSame
<1>6. <<r, JSON(r[1])>> \in applied' <=> Trusted
  BY <1>4 DEF ServeGRPC, FateInv
<1> QED  BY <1>2, <1>3, <1>5, <1>6 DEF FateInv, Serving

(* Enter refuses whom the server does not trust. *)
LEMMA EnterFate ==
    ASSUME ServerInv, NEW r \in Request, FateInv(r), Enter(r)
    PROVE  FateInv(r)'
<1>0. ReqsShaped
  BY DEF ServerInv
<1>1. PICK b : \/ ~Trusted /\ Refuse(r, b, 403)
               \/ Trusted /\ req' = [req EXCEPT ![r].pc = "entered", ![r].buffer = b]
  BY DEF Enter
<1>2. UNCHANGED <<conf, call, applied>> /\ req[r].pc = "received"
  BY DEF Enter
<1>3. ~OverGRPC
  BY <1>2 DEF FateInv
<1>4. CASE ~Trusted /\ Refuse(r, b, 403)
  <2>1. ~Fits(r[1])
    BY <1>4, FitsIs
  <2> QED  BY <1>2, <1>3, <1>4, <2>1, RefusedFate
<1>5. CASE Trusted /\ req' = [req EXCEPT ![r].pc = "entered", ![r].buffer = b]
  <2>1. req'[r].pc = "entered"
    BY <1>0, <1>5 DEF ReqsShaped, Records, ReqFields
  <2> QED  BY <1>2, <1>3, <1>5, <2>1, ConfSame DEF FateInv
<1> QED  BY <1>1, <1>4, <1>5

(* What opens to a gzip text was sealed with a key the server has. *)
LEMMA OpenFate ==
    ASSUME ServerInv, NEW r \in Request, FateInv(r), Open(r)
    PROVE  FateInv(r)'
<1>0. ReqsShaped /\ ReqInv(r)
  BY DEF ServerInv
<1> DEFINE pc == IF Verifies(r) THEN "verify" ELSE "route"
<1>1. PICK z : req' = [req EXCEPT ![r].pc = pc, ![r].reader = z]
  BY DEF Open
<1>2. pc \in {"verify", "route"} /\ (pc = "verify" <=> Verifies(r))
  OBVIOUS
<1> HIDE DEF pc
<1>3. req'[r].pc = pc /\ req'[r].whole = req[r].whole
  BY <1>0, <1>1 DEF ReqsShaped, Records, ReqFields
<1>4. UNCHANGED <<conf, call, applied>> /\ req[r].pc = "entered" /\ IsGzip(Opened(r))
  BY DEF Open
<1>5. ~OverGRPC /\ Trusted
  BY <1>4 DEF FateInv, Serving
<1>6. req[r].whole => Opens
  BY <1>0, <1>4, OpenedIs DEF ReqInv
<1> QED  BY <1>2, <1>3, <1>4, <1>5, <1>6, ConfSame DEF FateInv

(* What does not, was not. *)
LEMMA OpenFailsFate ==
    ASSUME ServerInv, NEW r \in Request, FateInv(r), OpenFails(r)
    PROVE  FateInv(r)'
<1>1. /\ UNCHANGED <<conf, call, applied>> /\ req[r].pc = "entered" /\ ~IsGzip(Opened(r))
      /\ Refuse(r, req[r].buffer, 400)
  BY DEF OpenFails
<1>2. ~OverGRPC
  BY <1>1 DEF FateInv, Serving
<1>3. req[r].whole => ~Opens
  BY <1>1, OpenedIs DEF ServerInv, ReqInv
<1>4. req[r].whole => ~Fits(r[1])
  BY <1>2, <1>3, FitsIs
<1> QED  BY <1>1, <1>2, <1>4, RefusedFate

(* Two hashes of a text are equal if the keys are. *)
LEMMA VerifyFate ==
    ASSUME ServerInv, NEW r \in Request, FateInv(r), Verify(r)
    PROVE  FateInv(r)'
<1> DEFINE data == Gunzip(input[req[r].reader])
           hash == call[r[1]].hash
<1>0. ReqsShaped /\ ReqInv(r)
  BY DEF ServerInv
<1>1. UNCHANGED <<conf, call, applied>> /\ req[r].pc = "verify"
  BY DEF Verify
<1>2. ~OverGRPC /\ Trusted /\ Verifies(r) /\ (req[r].whole => Opens)
  BY <1>1 DEF FateInv, Serving
<1>3. hash = HMAC(agent["Key"], JSON(r[1])) /\ server["Key"] # Empty
  BY <1>0, <1>1, <1>2 DEF ReqInv, Sealed, Verifies
<1>4. req[r].whole => data = JSON(r[1]) /\ data # Tail
  <2>1. req[r].reader \in Rdr(r)
    BY <1>0, <1>1 DEF ReqInv, Rdr
  <2>2. req[r].whole => input[req[r].reader] = Gzip(JSON(r[1]))
    BY <1>0, <2>1 DEF ReqInv, Arrived
  <2> QED  BY <2>2 DEF Gunzip, Gzip, JSON, Tail
<1>5. req[r].whole =>
         (hash # NoHash /\ hash = HMAC(server["Key"], data) <=> agent["Key"] = server["Key"])
  <2>1. CASE agent["Key"] = Empty
    BY <1>3, <2>1 DEF HMAC
  <2>2. CASE agent["Key"] # Empty /\ req[r].whole
    <3>1. hash = <<"hmac", agent["Key"], JSON(r[1])>>
      BY <1>3, <2>2 DEF HMAC
    <3>2. HMAC(server["Key"], data) = <<"hmac", server["Key"], JSON(r[1])>>
      BY <1>3, <1>4, <2>2 DEF HMAC
    <3>3. hash # NoHash
      BY <3>1 DEF NoHash
    <3> HIDE DEF hash, data
    <3> QED  BY <3>1, <3>2, <3>3
  <2> QED  BY <2>1, <2>2
<1>6. \/ /\ hash # NoHash /\ hash = HMAC(server["Key"], data)
         /\ req' = [req EXCEPT ![r].pc = "route", ![r].body = data, ![r].reader = None]
      \/ /\ hash = NoHash \/ data = Tail \/ hash # HMAC(server["Key"], data)
         /\ Refuse(r, req[r].buffer, 400)
  BY DEF Verify
<1> HIDE DEF data, hash
<1>7. CASE /\ hash # NoHash /\ hash = HMAC(server["Key"], data)
           /\ req' = [req EXCEPT ![r].pc = "route", ![r].body = data, ![r].reader = None]
  <2>1. req'[r].pc = "route" /\ req'[r].whole = req[r].whole
    BY <1>0, <1>7 DEF ReqsShaped, Records, ReqFields
  <2>2. req[r].whole => agent["Key"] = server["Key"]
    BY <1>5, <1>7
  <2> QED  BY <1>1, <1>2, <2>1, <2>2, ConfSame DEF FateInv
<1>8. CASE /\ hash = NoHash \/ data = Tail \/ hash # HMAC(server["Key"], data)
           /\ Refuse(r, req[r].buffer, 400)
  <2>1. req[r].whole => agent["Key"] # server["Key"]
    BY <1>4, <1>5, <1>8
  <2>2. req[r].whole => ~Fits(r[1])
    BY <1>2, <2>1, FitsIs
  <2> QED  BY <1>1, <1>2, <1>8, <2>2, RefusedFate
<1> QED  BY <1>6, <1>7, <1>8

(* Handle applies what is whole, and refuses what is not. *)
LEMMA HandleFate ==
    ASSUME ServerInv, NEW r \in Request, FateInv(r), Handle(r)
    PROVE  FateInv(r)'
<1> DEFINE z    == req[r].reader
           data == IF z = None THEN req[r].body ELSE Gunzip(input[z])
<1>0. ReqsShaped /\ ReqInv(r)
  BY DEF ServerInv
<1>1. UNCHANGED <<conf, call>> /\ req[r].pc = "route"
  BY DEF Handle
<1>2. ~OverGRPC /\ <<r, JSON(r[1])>> \notin applied
  BY <1>1 DEF FateInv, Serving
<1>3. req[r].whole => Fits(r[1])
  BY <1>1, FitsIs DEF FateInv
<1>4. /\ IsJSON(data) => data = JSON(r[1])
      /\ req[r].whole => IsJSON(data)
  <2>1. CASE z = None
    BY <1>0, <1>1, <2>1 DEF ReqInv, IsJSON, JSON
  <2>2. CASE z # None
    <3>1. input[z] = Arrived(r, Gzip(JSON(r[1])))
      BY <1>0, <1>1, <2>2 DEF ReqInv, Rdr
    <3>2. data = IF req[r].whole THEN JSON(r[1]) ELSE Tail
      BY <2>2, <3>1, CutGzip DEF Arrived, Gunzip, Gzip
    <3>3. IsJSON(JSON(r[1])) /\ ~IsJSON(Tail)
      BY DEF IsJSON, JSON, Tail
    <3> HIDE DEF data
    <3> QED  BY <3>2, <3>3
  <2> QED  BY <2>1, <2>2
<1>5. \/ /\ IsJSON(data)
         /\ applied' = applied \cup {<<r, data>>}
         /\ req' = [req EXCEPT ![r].pc = "handled", ![r].status = 200, ![r].reader = None]
      \/ ~IsJSON(data) /\ Refuse(r, req[r].buffer, 400) /\ UNCHANGED applied
  BY DEF Handle
<1> HIDE DEF data, z
<1>6. CASE /\ IsJSON(data)
           /\ applied' = applied \cup {<<r, data>>}
           /\ req' = [req EXCEPT ![r].pc = "handled", ![r].status = 200, ![r].reader = None]
  <2>1. req'[r].pc = "handled" /\ req'[r].status = 200
    BY <1>0, <1>6 DEF ReqsShaped, Records, ReqFields
  <2>2. req'[r].whole = req[r].whole
    BY <1>0, <1>6 DEF ReqsShaped, Records, ReqFields
  <2>3. <<r, JSON(r[1])>> \in applied'
    BY <1>4, <1>6
  <2> QED  BY <1>1, <1>2, <1>3, <2>1, <2>2, <2>3, ConfSame DEF FateInv
<1>7. CASE ~IsJSON(data) /\ Refuse(r, req[r].buffer, 400) /\ UNCHANGED applied
  BY <1>1, <1>2, <1>4, <1>7, RefusedFate
<1> QED  BY <1>5, <1>6, <1>7

(* Reply sends the status the handler gave. *)
LEMMA ReplyFate ==
    ASSUME ServerInv, NEW r \in Request, FateInv(r), Reply(r)
    PROVE  FateInv(r)'
<1>0. ReqsShaped
  BY DEF ServerInv
<1> DEFINE body == reply[req[r].buffer]
           sum  == HMAC(server["Key"], body)
<1>1. req' = [req EXCEPT ![r].pc = "answered", ![r].body = body, ![r].buffer = None,
                         ![r].sum = sum]
  BY DEF Reply
<1>2. UNCHANGED <<conf, call, applied>> /\ req[r].pc = "handled"
  BY DEF Reply
<1> HIDE DEF body, sum
<1>3. req'[r].pc = "answered" /\ req'[r].status = req[r].status
  BY <1>0, <1>1 DEF ReqsShaped, Records, ReqFields
<1>4. req'[r].whole = req[r].whole
  BY <1>0, <1>1 DEF ReqsShaped, Records, ReqFields
<1> QED  BY <1>2, <1>3, <1>4, ConfSame DEF FateInv, Serving

(* Every step of the server keeps the invariant. *)
LEMMA ServerAnswer ==
    ASSUME ServerInv, AnswerInv, NEW r \in Request,
           \/ Transmit(r) \/ ServeGRPC(r) \/ Enter(r) \/ Open(r) \/ OpenFails(r)
           \/ Verify(r) \/ Handle(r) \/ Reply(r)
    PROVE  AnswerInv'
<1>1. /\ OnlyReq(r) /\ req[r].pc # "none" /\ UNCHANGED <<conf, call>>
      /\ \A q \in Request \ {r} :
            <<q, JSON(q[1])>> \in applied' <=> <<q, JSON(q[1])>> \in applied
  BY ServerReq
<1>2. FateInv(r)
  BY DEF AnswerInv
<1>3. FateInv(r)'
  BY <1>2, TransmitFate, ServeGRPCFate, EnterFate, OpenFate, OpenFailsFate, VerifyFate, HandleFate,
     ReplyFate
<1>4. ASSUME NEW q \in Request \ {r} PROVE FateInv(q)'
  BY <1>1, FateFrame DEF AnswerInv, OnlyReq
<1>5. TriesInv'
  <2>1. ASSUME NEW c \in Call, NEW n \in 1 .. Attempts, n > call[c].tries
        PROVE  req'[<<c, n>>].pc = "none"
    <3>1. <<c, n>> \in Request /\ req[<<c, n>>].pc = "none"
      BY <2>1 DEF AnswerInv, TriesInv, Request
    <3>2. <<c, n>> # r
      BY <1>1, <3>1
    <3> QED  BY <1>1, <3>1, <3>2 DEF OnlyReq
  <2> QED  BY <1>1, <2>1 DEF AnswerInv, TriesInv
<1> QED  BY <1>3, <1>4, <1>5 DEF AnswerInv

(* A step of the agent sends at most the next attempt. *)
LEMMA AgentCall ==
    ASSUME CallsShaped, NEW c \in Call,
           \/ Encode(c) \/ EncodeFails(c) \/ Compress(c) \/ Attempt(c) \/ Retry(c)
           \/ GiveUp(c) \/ Answered(c)
    PROVE  /\ UNCHANGED <<conf, applied>>
           /\ \A d \in Call : call'[d].path = call[d].path
           /\ \A d \in Call \ {c} : call'[d].tries = call[d].tries
           /\ \/ UNCHANGED req /\ call'[c].tries = call[c].tries
              \/ Attempt(c) /\ call'[c].tries = call[c].tries + 1
<1>1. CASE Encode(c)
  <2>1. PICK b \in Buffer : call' = [call EXCEPT ![c].pc = "encoded", ![c].json = b]
    BY <1>1 DEF Encode
  <2>2. \A d \in Call : call'[d].path = call[d].path /\ call'[d].tries = call[d].tries
    BY <2>1 DEF CallsShaped, Records, CallFields
  <2> QED  BY <1>1, <2>2 DEF Encode
<1>2. CASE EncodeFails(c)
  <2>1. call' = [call EXCEPT ![c].pc = "done"]
    BY <1>2 DEF EncodeFails
  <2>2. \A d \in Call : call'[d].path = call[d].path /\ call'[d].tries = call[d].tries
    BY <2>1 DEF CallsShaped, Records, CallFields
  <2> QED  BY <1>2, <2>2 DEF EncodeFails
<1>3. CASE Compress(c)
  <2> DEFINE json == text[call[c].json]
             body == Encrypt(Gzip(json), agent["CryptoKey"])
             hash == HMAC(agent["Key"], json)
  <2>1. PICK b :
           call' = [call EXCEPT ![c].pc = "ready", ![c].gzipped = b, ![c].body = body,
                                ![c].hash = hash]
    BY <1>3 DEF Compress
  <2> HIDE DEF json, body, hash
  <2>2. \A d \in Call : call'[d].path = call[d].path
    BY <2>1 DEF CallsShaped, Records, CallFields
  <2>3. \A d \in Call : call'[d].tries = call[d].tries
    BY <2>1 DEF CallsShaped, Records, CallFields
  <2> QED  BY <1>3, <2>2, <2>3 DEF Compress
<1>4. CASE Attempt(c)
  <2> DEFINE n == call[c].tries + 1
  <2>1. call' = [call EXCEPT ![c].pc = "waiting", ![c].tries = n]
    BY <1>4 DEF Attempt, CallsShaped, Records, CallFields
  <2> HIDE DEF n
  <2>2. (\A d \in Call : call'[d].path = call[d].path) /\ call'[c].tries = n
    BY <2>1 DEF CallsShaped, Records, CallFields
  <2>3. \A d \in Call \ {c} : call'[d].tries = call[d].tries
    BY <2>1 DEF CallsShaped, Records, CallFields
  <2> QED  BY <1>4, <2>2, <2>3 DEF Attempt, n
<1>5. CASE Retry(c)
  BY <1>5 DEF Retry, CallsShaped, Records, CallFields
<1>6. CASE GiveUp(c) \/ Answered(c)
  <2>1. PICK status : call' = [call EXCEPT ![c].pc = "done", ![c].status = status]
    BY <1>6 DEF GiveUp, Answered, Return
  <2>2. \A d \in Call : call'[d].path = call[d].path /\ call'[d].tries = call[d].tries
    BY <2>1 DEF CallsShaped, Records, CallFields
  <2> QED  BY <1>6, <2>2 DEF GiveUp, Answered, Return
<1> QED  BY <1>1, <1>2, <1>3, <1>4, <1>5, <1>6

(* So does every step of the agent. *)
LEMMA AgentAnswer ==
    ASSUME AgentInv, ServerInv, AnswerInv, NEW c \in Call,
           \/ Encode(c) \/ EncodeFails(c) \/ Compress(c) \/ Attempt(c) \/ Retry(c)
           \/ GiveUp(c) \/ Answered(c)
    PROVE  AnswerInv'
<1>0. CallsShaped /\ ReqsShaped
  BY DEF AgentInv, ServerInv
<1>1. /\ UNCHANGED <<conf, applied>>
      /\ \A d \in Call : call'[d].path = call[d].path
      /\ \A d \in Call \ {c} : call'[d].tries = call[d].tries
      /\ \/ UNCHANGED req /\ call'[c].tries = call[c].tries
         \/ Attempt(c) /\ call'[c].tries = call[c].tries + 1
  BY <1>0, AgentCall
<1>2. ASSUME NEW q \in Request, req'[q] = req[q] PROVE FateInv(q)'
  <2>1. q[1] \in Call
    BY DEF Request
  <2> QED  BY <1>1, <1>2, <2>1, FateFrame DEF AnswerInv
<1>3. CASE UNCHANGED req /\ call'[c].tries = call[c].tries
  <2>1. TriesInv'
    BY <1>1, <1>3 DEF AnswerInv, TriesInv
  <2> QED  BY <1>2, <1>3, <2>1 DEF AnswerInv
<1>4. CASE Attempt(c) /\ call'[c].tries = call[c].tries + 1
  <2>1. PICK r : r = <<c, call[c].tries + 1>>
    OBVIOUS
  <2>2. req' = [req EXCEPT ![r].pc = "transit"]
    BY <1>4, <2>1 DEF Attempt
  <2>3. OnlyReq(r) /\ (r \in Request => req'[r].pc = "transit")
    BY <1>0, <2>2 DEF ReqsShaped, Records, ReqFields, OnlyReq
  <2>4. ASSUME r \in Request PROVE FateInv(r)'
    <3>1. req[r].pc = "none"
      BY <2>1, <2>4 DEF AnswerInv, TriesInv, Request
    <3>2. <<r, JSON(r[1])>> \notin applied'
      BY <1>1, <2>4, <3>1 DEF AnswerInv, FateInv
    <3> QED  BY <2>3, <2>4, <3>2 DEF FateInv, Serving
  <2>5. TriesInv'
    <3>1. \A d \in Call : call'[d].tries \in Nat
      BY <1>1, <1>4 DEF AnswerInv, TriesInv
    <3>2. ASSUME NEW d \in Call, NEW n \in 1 .. Attempts, n > call'[d].tries
          PROVE  req'[<<d, n>>].pc = "none"
      <4>1. n > call[d].tries /\ <<d, n>> # r
        BY <1>1, <1>4, <2>1, <3>2 DEF AnswerInv, TriesInv
      <4>2. <<d, n>> \in Request /\ req[<<d, n>>].pc = "none"
        BY <4>1 DEF AnswerInv, TriesInv, Request
      <4> QED  BY <2>3, <4>1, <4>2 DEF OnlyReq
    <3> QED  BY <3>1, <3>2 DEF TriesInv
  <2> QED  BY <1>2, <2>3, <2>4, <2>5 DEF AnswerInv, OnlyReq
<1> QED  BY <1>1, <1>3, <1>4

-----------------------------------------------------------------------------
(* The theorems.                                                           *)

WireInv == AgentInv /\ ServerInv /\ AnswerInv

(* Before the processes start nothing moves but their start. *)
LEMMA DeployStep ==
    ASSUME WireInv, source # None, Next
    PROVE  WireInv'
<1>0. AgentInv /\ ServerInv /\ AnswerInv
  BY DEF WireInv
<1>1. agent = None /\ (\A c \in Call : call[c].pc = "idle")
      /\ (\A r \in Request : req[r].pc = "none")
  BY <1>0 DEF AgentInv, ServerInv
<1>2. ~Up
  BY <1>1 DEF Up
<1>3. Deploy
  <2>1. \A c \in Call : ~(Encode(c) \/ EncodeFails(c) \/ Attempt(c))
    BY <1>1, <1>2 DEF Encode, EncodeFails, Attempt
  <2>2. \A c \in Call : ~(Compress(c) \/ Retry(c) \/ GiveUp(c) \/ Answered(c))
    BY <1>1 DEF Compress, Retry, GiveUp, Answered
  <2>3. \A r \in Request : ~(Transmit(r) \/ ServeGRPC(r) \/ Enter(r) \/ Open(r))
    BY <1>1 DEF Transmit, ServeGRPC, Enter, Open
  <2>4. \A r \in Request : ~(OpenFails(r) \/ Verify(r) \/ Handle(r) \/ Reply(r))
    BY <1>1 DEF OpenFails, Verify, Handle, Reply
  <2> QED  BY <2>1, <2>2, <2>3, <2>4 DEF Next
<1>4. source' = None /\ UNCHANGED <<call, req, text, reply, input, pool, applied>>
  BY <1>3 DEF Deploy
<1>5. \A c \in Call : CallInv(c)'
  <2>1. ASSUME NEW c \in Call PROVE CallInv(c)'
    <3>1. call'[c].pc = "idle" /\ Held(c)' = {}
      BY <1>1, <1>4 DEF Held
    <3>2. call'[c].json = None /\ call'[c].gzipped = None
      BY <1>0, <1>1, <1>4 DEF AgentInv, CallInv
    <3> QED  BY <3>1, <3>2 DEF CallInv
  <2> QED  BY <2>1
<1>6. \A c \in Call : Held(c)' = {}
  BY <1>1, <1>4 DEF Held
<1>7. \A r \in Request : Buf(r)' = {} /\ Rdr(r)' = {} /\ ReqInv(r)'
  <2>1. ASSUME NEW r \in Request PROVE Buf(r)' = {} /\ Rdr(r)' = {} /\ ReqInv(r)'
    <3>1. req'[r].pc = "none" /\ Buf(r)' = {} /\ Rdr(r)' = {}
      BY <1>1, <1>4 DEF Buf, Rdr, Serving
    <3> QED  BY <3>1 DEF ReqInv
  <2> QED  BY <2>1
<1>8. CallsShaped' /\ ShapedPool' /\ TextShaped' /\ ReqsShaped' /\ ReplyShaped' /\ InputShaped'
      /\ AppliedOwn'
  BY <1>0, <1>4 DEF AgentInv, ServerInv, CallsShaped, ShapedPool, TextShaped, ReqsShaped,
     ReplyShaped, InputShaped, AppliedOwn
<1>9. ASSUME NEW r \in Request PROVE FateInv(r)'
  <2>1. req'[r].pc = "none" /\ <<r, JSON(r[1])>> \notin applied'
    BY <1>0, <1>1, <1>4 DEF AnswerInv, FateInv
  <2> QED  BY <2>1 DEF FateInv, Serving
<1>10. TriesInv'
  BY <1>0, <1>4 DEF AnswerInv, TriesInv
<1>11. AgentInv' /\ ServerInv'
  BY <1>4, <1>5, <1>6, <1>7, <1>8 DEF AgentInv, ServerInv
<1> QED  BY <1>9, <1>10, <1>11 DEF WireInv, AnswerInv

(* The invariant holds at the start. *)
LEMMA InitHolds ==
    ASSUME Init
    PROVE  WireInv
<1>1. CallsShaped /\ \A c \in Call : /\ call[c].pc = "idle" /\ call[c].tries = 0
                                     /\ call[c].json = None /\ call[c].gzipped = None
  BY DEF Init, Caller, CallsShaped, Records, CallFields
<1>2. ReqsShaped /\ \A r \in Request : req[r].pc = "none"
  BY DEF Init, Exchange, ReqsShaped, Records, ReqFields
<1>3. ShapedPool /\ TextShaped /\ ReplyShaped /\ InputShaped /\ AppliedOwn
  BY DEF Init, EmptyPool, ShapedPool, Records, PoolName, TextShaped, ReplyShaped, InputShaped,
     AppliedOwn
<1>4. \A c \in Call : Held(c) = {} /\ CallInv(c)
  BY <1>1 DEF Held, CallInv
<1>5. \A r \in Request : Buf(r) = {} /\ Rdr(r) = {} /\ ReqInv(r)
  BY <1>2 DEF Buf, Rdr, Serving, ReqInv
<1>6. agent = None /\ applied = {}
  BY DEF Init
<1>7. \A r \in Request : FateInv(r)
  BY <1>2, <1>6 DEF FateInv, Serving
<1>8. TriesInv
  BY <1>1, <1>2 DEF TriesInv, Request
<1>9. AgentInv /\ ServerInv
  BY <1>1, <1>2, <1>3, <1>4, <1>5, <1>6 DEF AgentInv, ServerInv
<1> QED  BY <1>7, <1>8, <1>9 DEF WireInv, AnswerInv

(* Every step keeps the invariant. *)
LEMMA WireInvStep ==
    ASSUME WireInv, [Next]_vars
    PROVE  WireInv'
<1>0. AgentInv /\ ServerInv /\ AnswerInv
  BY DEF WireInv
<1>1. CASE source # None /\ Next
  BY <1>1, DeployStep
<1>2. CASE source = None /\ Next
  <2>1. ASSUME NEW c \in Call,
               \/ Encode(c) \/ EncodeFails(c) \/ Compress(c) \/ Attempt(c) \/ Retry(c)
               \/ GiveUp(c) \/ Answered(c)
        PROVE  WireInv'
    BY <1>0, <1>2, <2>1, AgentStep, AgentAnswer DEF WireInv
  <2>2. ASSUME NEW r \in Request,
               \/ Transmit(r) \/ ServeGRPC(r) \/ Enter(r) \/ Open(r) \/ OpenFails(r)
               \/ Verify(r) \/ Handle(r) \/ Reply(r)
        PROVE  WireInv'
    <3>1. AgentInv'
      <4>1. ShapedPool
        BY <1>0 DEF AgentInv
      <4> QED  BY <1>0, <2>2, <4>1, ServerPools, ServerFrame
    <3>2. ServerInv'
      BY <1>0, <1>2, <2>2, TransmitStep, ServeGRPCStep, EnterStep, OpenStep, OpenFailsStep,
         VerifyStep, HandleStep, ReplyStep
    <3>3. AnswerInv'
      BY <1>0, <2>2, ServerAnswer
    <3> QED  BY <3>1, <3>2, <3>3 DEF WireInv
  <2>3. ~Deploy
    BY <1>2 DEF Deploy
  <2> QED  BY <1>2, <2>1, <2>2, <2>3 DEF Next
<1>3. CASE UNCHANGED vars
  <2>1. ShapedPool' /\ OnlyPool("agent") /\ pool'["agent"] = pool["agent"]
    BY <1>0, <1>3 DEF vars, AgentInv, ShapedPool, OnlyPool
  <2>2. UNCHANGED <<conf, call, text>> /\ UNCHANGED <<conf, req, reply, input, applied>>
    BY <1>3 DEF vars
  <2>3. \A c \in Call : Sealed(c) => Sealed(c)'
    BY <2>2 DEF Sealed, conf
  <2>4. \A r \in Request : FateInv(r)'
    BY <1>0, <2>2, FateFrame DEF AnswerInv
  <2>5. TriesInv'
    BY <1>0, <2>2 DEF AnswerInv, TriesInv
  <2>6. AgentInv' /\ ServerInv'
    BY <1>0, <2>1, <2>2, <2>3, AgentFrame, ServerFrame
  <2> QED  BY <2>4, <2>5, <2>6 DEF WireInv, AnswerInv
<1> QED  BY <1>1, <1>2, <1>3

(* The invariant holds in every state. *)
LEMMA WireInvHolds == Spec => []WireInv
<1>1. Init => WireInv
  BY InitHolds
<1>2. WireInv /\ [Next]_vars => WireInv'
  BY WireInvStep
<1> QED  BY <1>1, <1>2, PTL DEF Spec

(* What is applied is what its own call has encoded, and an answer is the  *)
(* one its own handler gave, signed over its own text, whatever buffers    *)
(* and readers the calls and the requests share and however late a body is *)
(* sent.  (internal/pool/pool.go:20, internal/agent/client.go:238,         *)
(* internal/middleware/gzip.go:144)                                        *)
THEOREM TextsStayOwn == Spec => []TextsAreOwn
<1>1. WireInv => TextsAreOwn
  <2>1. ASSUME ServerInv PROVE TextsAreOwn
    <3>1. \A r \in Request :
             req[r].pc = "answered" =>
                /\ (req[r].status = 200 => req[r].body = JSON(r[1]))
                /\ ~OverGRPC => req[r].sum = HMAC(server["Key"], req[r].body)
      BY <2>1 DEF ServerInv, ReqInv
    <3> QED  BY <2>1, <3>1 DEF TextsAreOwn, ServerInv, AppliedOwn
  <2> QED  BY <2>1 DEF WireInv
<1> QED  BY <1>1, WireInvHolds, PTL

(* A report that came through whole is answered 200 if and only if it is   *)
(* applied; it is if the server trusts the agent's address, can open what  *)
(* it seals and has no key or the agent's, and only if this holds, the key *)
(* aside on /update: nothing on the way of a body, and nothing another     *)
(* request does, changes that.  (internal/server/server.go:36,             *)
(* internal/agent/client.go:224)                                           *)
THEOREM AnswerIsDecided == Spec => []AnswerFollowsDeployment
<1>1. WireInv => AnswerFollowsDeployment
  <2> SUFFICES ASSUME AnswerInv, NEW r \in Answers
               PROVE  /\ req[r].status = 200 <=> <<r, JSON(r[1])>> \in applied
                      /\ Compatible(TRUE) => req[r].status = 200
                      /\ req[r].status = 200 => Compatible(call[r[1]].path = "/updates")
    BY DEF WireInv, AnswerFollowsDeployment
  <2>1. /\ r \in Request
        /\ req[r].status = 200 <=> Fits(r[1])
        /\ req[r].status = 200 <=> <<r, JSON(r[1])>> \in applied
    BY DEF Answers, AnswerInv, FateInv
  <2>2. Compatible(TRUE) => Fits(r[1])
    BY DEF Fits, Compatible
  <2> QED  BY <2>1, <2>2 DEF Fits
<1> QED  BY <1>1, WireInvHolds, PTL

-----------------------------------------------------------------------------
(* Types, and the objects that are used are not in their pools.            *)

(* What a pool is of. *)
Kind(p) == IF p = "reader" THEN Reader ELSE Buffer

(* What is idle exists, and is of its pool's kind: None is never idle. *)
PoolInv == \A p \in PoolName : pool[p].idle \subseteq pool[p].made \cap Kind(p)

ConfInv ==
    /\ agent \in {None, Refused} \/ DOMAIN agent \subseteq AgentOption
    /\ server \in {None, Refused} \/ DOMAIN server \subseteq ServerOption

(* A call that is to make another attempt has one left, and one that waits *)
(* has made one.                                                           *)
CallOK(c) ==
    /\ call[c].pc \in {"idle", "encoded", "ready", "waiting", "done"}
    /\ call[c].json \in Buffer \cup {None} /\ call[c].gzipped \in Buffer \cup {None}
    /\ call[c].tries \in 0 .. Attempts
    /\ call[c].pc \in {"idle", "encoded", "ready"} => call[c].tries < Attempts
    /\ call[c].pc = "waiting" => call[c].tries # 0
    /\ call[c].status \in {0, 200, 400, 403}

(* A request has a buffer, or a reader, only while it uses it. *)
ReqOK(r) ==
    /\ req[r].pc \in {"none", "transit", "received", "entered", "verify", "route", "handled",
                      "answered"}
    /\ req[r].buffer \in Buffer \cup {None} /\ req[r].reader \in Reader \cup {None}
    /\ req[r].pc \notin Serving => req[r].buffer = None
    /\ req[r].pc \notin {"verify", "route"} => req[r].reader = None
    /\ req[r].status \in {0, 200, 400, 403}

AppliedOK == \A e \in applied : e[1] \in Request

TypeInv ==
    /\ ConfInv /\ PoolInv /\ AppliedOK
    /\ \A c \in Call : CallOK(c)
    /\ \A r \in Request : ReqOK(r)

(* The strengthened invariant gives the types that Wire states. *)
LEMMA TypesFollow ==
    ASSUME WireInv, TypeInv
    PROVE  TypeOK
<1>0. AgentInv /\ ServerInv
  BY DEF WireInv
<1>1. None \notin pool["agent"].idle /\ None \notin pool["server"].idle
      /\ None \notin pool["reader"].idle
  BY WireAssumption DEF TypeInv, PoolInv, PoolName, Kind
<1>2. ASSUME NEW c \in Call
      PROVE  /\ call[c].pc \in {"idle", "encoded", "ready", "waiting", "done"}
             /\ {call[c].json, call[c].gzipped} \subseteq Buffer \cup {None}
             /\ call[c].pc \in {"encoded", "ready", "waiting"} =>
                  {call[c].json, call[c].gzipped} \cap pool["agent"].idle = {}
             /\ call[c].tries \in 0 .. Attempts
             /\ call[c].status \in {0, 200, 400, 403}
  <2>1. CallOK(c)
    BY DEF TypeInv
  <2>2. Held(c) \cap pool["agent"].idle = {}
    BY <1>0 DEF AgentInv, CallInv
  <2>3. call[c].pc \in {"encoded", "ready", "waiting"} =>
          {call[c].json, call[c].gzipped} \cap pool["agent"].idle = {}
    BY <1>1, <2>2 DEF Held
  <2> QED  BY <2>1, <2>3 DEF CallOK
<1>3. ASSUME NEW r \in Request
      PROVE  /\ req[r].pc \in {"none", "transit", "received", "entered", "verify", "route",
                               "handled", "answered"}
             /\ req[r].buffer \in Buffer \cup {None}
             /\ req[r].reader \in Reader \cup {None}
             /\ req[r].status \in {0, 200, 400, 403}
             /\ req[r].buffer \notin pool["server"].idle
             /\ req[r].reader \notin pool["reader"].idle
  <2>1. ReqOK(r)
    BY DEF TypeInv
  <2>2. Buf(r) \cap pool["server"].idle = {} /\ Rdr(r) \cap pool["reader"].idle = {}
    BY <1>0, ServingHolds
  <2>3. req[r].buffer \notin pool["server"].idle
    BY <1>1, <2>1, <2>2 DEF ReqOK, Buf
  <2>4. req[r].reader \notin pool["reader"].idle
    BY <1>1, <2>1, <2>2 DEF ReqOK, Rdr
  <2> QED  BY <2>1, <2>3, <2>4 DEF ReqOK
<1>4. \A p \in DOMAIN pool : pool[p].idle \subseteq pool[p].made
  <2>1. DOMAIN pool = PoolName
    BY <1>0 DEF AgentInv, ShapedPool, Records
  <2> QED  BY <2>1 DEF TypeInv, PoolInv
<1> QED  BY <1>2, <1>3, <1>4 DEF TypeOK, TypeInv, ConfInv, AppliedOK

(* What is taken from a pool leaves the rest as it was. *)
LEMMA GetKeepsKind ==
    ASSUME ShapedPool, PoolInv, NEW p \in PoolName, NEW x, Get(p, x)
    PROVE  PoolInv'
<1>1. /\ \A q \in PoolName \ {p} : pool'[q] = pool[q]
      /\ pool'[p].idle = pool[p].idle \ {x}
      /\ pool'[p].made = pool[p].made \cup {x}
  BY GetPool DEF OnlyPool
<1> QED  BY <1>1 DEF PoolInv, Kind

(* What is put back was made and is of the kind. *)
LEMMA PutKeepsKind ==
    ASSUME ShapedPool, PoolInv, NEW p \in PoolName, NEW xs, Put(p, xs),
           xs \ {None} \subseteq pool[p].made \cap Kind(p)
    PROVE  PoolInv'
<1>1. /\ \A q \in PoolName \ {p} : pool'[q] = pool[q]
      /\ pool'[p].idle = pool[p].idle \cup (xs \ {None})
      /\ pool'[p].made = pool[p].made
  BY PutPool DEF OnlyPool
<1> QED  BY <1>1 DEF PoolInv, Kind

(* A step of the agent keeps the pools. *)
LEMMA AgentPools ==
    ASSUME AgentInv, TypeInv, NEW c \in Call,
           \/ Encode(c) \/ EncodeFails(c) \/ Compress(c) \/ Attempt(c) \/ Retry(c)
           \/ GiveUp(c) \/ Answered(c)
    PROVE  PoolInv'
<1>0. ShapedPool /\ PoolInv /\ "agent" \in PoolName
  BY DEF AgentInv, TypeInv, PoolName
<1>1. CASE Encode(c) \/ Compress(c)
  <2>1. PICK b \in Buffer : Get("agent", b)
    BY <1>1 DEF Encode, Compress
  <2> QED  BY <1>0, <2>1, GetKeepsKind
<1>2. CASE EncodeFails(c)
  <2>1. PICK b \in Buffer :
          pool' = [pool EXCEPT !["agent"].idle = @ \cup {b}, !["agent"].made = @ \cup {b}]
    BY <1>2 DEF EncodeFails
  <2>2. /\ pool'["agent"].idle = pool["agent"].idle \cup {b}
        /\ pool'["agent"].made = pool["agent"].made \cup {b}
    BY <1>0, <2>1 DEF ShapedPool, Records, PoolName
  <2>3. \A q \in PoolName \ {"agent"} : pool'[q] = pool[q]
    BY <1>0, <2>1 DEF ShapedPool, Records, PoolName
  <2> QED  BY <1>0, <2>2, <2>3 DEF PoolInv, Kind
<1>3. CASE Attempt(c) \/ Retry(c)
  BY <1>0, <1>3 DEF Attempt, Retry, PoolInv
<1>4. CASE GiveUp(c) \/ Answered(c)
  <2> DEFINE buffers == {call[c].json, call[c].gzipped}
  <2>1. Put("agent", buffers) /\ call[c].pc = "waiting"
    BY <1>4 DEF GiveUp, Answered, Return
  <2>2. buffers \ {None} = Held(c)
    BY <2>1 DEF Held
  <2>3. Held(c) \subseteq pool["agent"].made \cap Kind("agent")
    BY DEF AgentInv, CallInv, Kind
  <2> HIDE DEF buffers
  <2> QED  BY <1>0, <2>1, <2>2, <2>3, PutKeepsKind
<1> QED  BY <1>1, <1>2, <1>3, <1>4

(* A call that returns keeps the names of its buffers. *)
LEMMA ReturnOK ==
    ASSUME CallsShaped, NEW c \in Call, CallOK(c), NEW status \in {0, 200, 400, 403},
           Return(c, status)
    PROVE  OnlyCall(c) /\ CallOK(c)'
<1>1. call' = [call EXCEPT ![c].pc = "done", ![c].status = status]
  BY DEF Return
<1>2. call = [d \in Call |-> call[d]] /\ call[c] = [k \in CallFields |-> call[c][k]]
  BY DEF CallsShaped, Records
<1>3. OnlyCall(c) /\ call'[c] = [call[c] EXCEPT !.pc = "done", !.status = status]
  BY <1>1, <1>2 DEF OnlyCall
<1>4. /\ call'[c].pc = "done" /\ call'[c].json = call[c].json
      /\ call'[c].gzipped = call[c].gzipped
  BY <1>2, <1>3 DEF CallFields
<1>5. call'[c].tries = call[c].tries /\ call'[c].status = status
  BY <1>2, <1>3 DEF CallFields
<1> QED  BY <1>3, <1>4, <1>5 DEF CallOK

(* A step of the agent leaves its call as a call is. *)
LEMMA AgentCalls ==
    ASSUME AgentInv, TypeInv, NEW c \in Call,
           \/ Encode(c) \/ EncodeFails(c) \/ Compress(c) \/ Attempt(c) \/ Retry(c)
           \/ GiveUp(c) \/ Answered(c)
    PROVE  OnlyCall(c) /\ CallOK(c)'
<1>0. CallsShaped /\ CallOK(c) /\ Attempts \in Nat
  BY WireAssumption DEF AgentInv, TypeInv
<1>1. CASE Encode(c)
  <2>1. PICK b \in Buffer : call' = [call EXCEPT ![c].pc = "encoded", ![c].json = b]
    BY <1>1 DEF Encode
  <2>2. OnlyCall(c)
    BY <1>0, <2>1 DEF CallsShaped, Records, CallFields, OnlyCall
  <2>3. call'[c].pc = "encoded" /\ call'[c].json = b /\ call'[c].gzipped = call[c].gzipped
    BY <1>0, <2>1 DEF CallsShaped, Records, CallFields
  <2>4. call'[c].tries = call[c].tries /\ call'[c].status = call[c].status
    BY <1>0, <2>1 DEF CallsShaped, Records, CallFields
  <2>5. call[c].pc = "idle"
    BY <1>1 DEF Encode
  <2> QED  BY <1>0, <2>2, <2>3, <2>4, <2>5 DEF CallOK
<1>2. CASE EncodeFails(c)
  <2>1. call' = [call EXCEPT ![c].pc = "done"]
    BY <1>2 DEF EncodeFails
  <2>2. OnlyCall(c)
    BY <1>0, <2>1 DEF CallsShaped, Records, CallFields, OnlyCall
  <2>3. call'[c].pc = "done" /\ call'[c].json = call[c].json
        /\ call'[c].gzipped = call[c].gzipped
    BY <1>0, <2>1 DEF CallsShaped, Records, CallFields
  <2>4. call'[c].tries = call[c].tries /\ call'[c].status = call[c].status
    BY <1>0, <2>1 DEF CallsShaped, Records, CallFields
  <2> QED  BY <1>0, <2>2, <2>3, <2>4 DEF CallOK
<1>3. CASE Compress(c)
  <2> DEFINE json == text[call[c].json]
             body == Encrypt(Gzip(json), agent["CryptoKey"])
             hash == HMAC(agent["Key"], json)
  <2>1. PICK b \in Buffer :
           call' = [call EXCEPT ![c].pc = "ready", ![c].gzipped = b, ![c].body = body,
                                ![c].hash = hash]
    BY <1>3 DEF Compress
  <2> HIDE DEF json, body, hash
  <2>2. OnlyCall(c)
    BY <1>0, <2>1 DEF CallsShaped, Records, CallFields, OnlyCall
  <2>3. call'[c].pc = "ready" /\ call'[c].json = call[c].json /\ call'[c].gzipped = b
    BY <1>0, <2>1 DEF CallsShaped, Records, CallFields
  <2>4. call'[c].tries = call[c].tries /\ call'[c].status = call[c].status
    BY <1>0, <2>1 DEF CallsShaped, Records, CallFields
  <2>5. call[c].pc = "encoded"
    BY <1>3 DEF Compress
  <2> QED  BY <1>0, <2>2, <2>3, <2>4, <2>5 DEF CallOK
<1>4. CASE Attempt(c)
  <2> DEFINE n == call[c].tries + 1
  <2>1. call' = [call EXCEPT ![c].pc = "waiting", ![c].tries = n]
    BY <1>0, <1>4 DEF Attempt, CallsShaped, Records, CallFields
  <2>2. n \in 0 .. Attempts /\ n # 0
    BY <1>0, <1>4 DEF Attempt, CallOK
  <2> HIDE DEF n
  <2>3. OnlyCall(c)
    BY <1>0, <2>1 DEF CallsShaped, Records, CallFields, OnlyCall
  <2>4. call'[c].pc = "waiting" /\ call'[c].json = call[c].json
        /\ call'[c].gzipped = call[c].gzipped
    BY <1>0, <2>1 DEF CallsShaped, Records, CallFields
  <2>5. call'[c].tries = n /\ call'[c].status = call[c].status
    BY <1>0, <2>1 DEF CallsShaped, Records, CallFields
  <2> QED  BY <1>0, <2>2, <2>3, <2>4, <2>5 DEF CallOK
<1>5. CASE Retry(c)
  <2>1. call' = [call EXCEPT ![c].pc = "ready"] /\ call[c].tries < Attempts
    BY <1>5 DEF Retry
  <2>2. OnlyCall(c)
    BY <1>0, <2>1 DEF CallsShaped, Records, CallFields, OnlyCall
  <2>3. call'[c].pc = "ready" /\ call'[c].json = call[c].json
        /\ call'[c].gzipped = call[c].gzipped
    BY <1>0, <2>1 DEF CallsShaped, Records, CallFields
  <2>4. call'[c].tries = call[c].tries /\ call'[c].status = call[c].status
    BY <1>0, <2>1 DEF CallsShaped, Records, CallFields
  <2> QED  BY <1>0, <2>1, <2>2, <2>3, <2>4 DEF CallOK
<1>6. CASE GiveUp(c)
  <2>1. Return(c, 0)
    BY <1>6 DEF GiveUp
  <2> QED  BY <1>0, <2>1, ReturnOK
<1>7. CASE Answered(c)
  <2>1. PICK status : status = req[<<c, call[c].tries>>].status
    OBVIOUS
  <2>2. call[c].pc = "waiting" /\ Return(c, status)
    BY <1>7, <2>1 DEF Answered
  <2>3. call[c].tries \in 1 .. Attempts
    BY <1>0, <2>2 DEF CallOK
  <2>4. <<c, call[c].tries>> \in Request
    BY <2>3 DEF Request
  <2>5. status \in {0, 200, 400, 403}
    BY <2>1, <2>4 DEF TypeInv, ReqOK
  <2> QED  BY <1>0, <2>2, <2>5, ReturnOK
<1> QED  BY <1>1, <1>2, <1>3, <1>4, <1>5, <1>6, <1>7

(* The attempt an agent makes begins a request that holds nothing. *)
LEMMA AgentReqs ==
    ASSUME AgentInv, ServerInv, AnswerInv, TypeInv, NEW c \in Call,
           \/ Encode(c) \/ EncodeFails(c) \/ Compress(c) \/ Attempt(c) \/ Retry(c)
           \/ GiveUp(c) \/ Answered(c)
    PROVE  \A r \in Request : ReqOK(r)'
<1>1. UNCHANGED req \/ Attempt(c)
  BY DEF Encode, EncodeFails, Compress, Attempt, Retry, GiveUp, Answered, Return
<1>2. CASE UNCHANGED req
  BY <1>2 DEF TypeInv, ReqOK
<1>3. CASE Attempt(c)
  <2>1. PICK r : r = <<c, call[c].tries + 1>>
    OBVIOUS
  <2>2. req' = [req EXCEPT ![r].pc = "transit"]
    BY <1>3, <2>1 DEF Attempt
  <2>3. CallOK(c) /\ call[c].pc \in {"ready", "idle"} /\ Attempts \in Nat
    BY <1>3, WireAssumption DEF Attempt, TypeInv
  <2>4. r \in Request /\ call[c].tries + 1 \in 1 .. Attempts
    BY <2>1, <2>3 DEF CallOK, Request
  <2>5. req[r].pc = "none"
    BY <2>1, <2>3, <2>4 DEF AnswerInv, TriesInv, CallOK
  <2>6. req[r] = [k \in ReqFields |-> req[r][k]] /\ req = [q \in Request |-> req[q]]
    BY <2>4 DEF ServerInv, ReqsShaped, Records
  <2>7. OnlyReq(r) /\ req'[r] = [req[r] EXCEPT !.pc = "transit"]
    BY <2>2, <2>4, <2>6 DEF OnlyReq
  <2>8. /\ req'[r].pc = "transit" /\ req'[r].buffer = req[r].buffer
        /\ req'[r].reader = req[r].reader /\ req'[r].status = req[r].status
    BY <2>6, <2>7 DEF ReqFields
  <2>9. ReqOK(r)
    BY <2>4 DEF TypeInv
  <2>10. ReqOK(r)'
    BY <2>5, <2>8, <2>9 DEF ReqOK, Serving
  <2>11. \A q \in Request \ {r} : ReqOK(q)'
    BY <2>7 DEF OnlyReq, TypeInv, ReqOK
  <2> QED  BY <2>10, <2>11
<1> QED  BY <1>1, <1>2, <1>3

(* A refused request holds its buffer and no reader. *)
LEMMA RefuseOK ==
    ASSUME ReqsShaped, NEW r \in Request, NEW b \in Buffer, NEW status \in {400, 403},
           Refuse(r, b, status)
    PROVE  ReqOK(r)'
<1>1. req[r] = [k \in ReqFields |-> req[r][k]] /\ req = [q \in Request |-> req[q]]
  BY DEF ReqsShaped, Records
<1>2. req'[r] = [req[r] EXCEPT !.pc = "handled", !.buffer = b, !.reader = None,
                               !.status = status]
  BY <1>1 DEF Refuse
<1>3. req'[r].pc = "handled" /\ req'[r].buffer = b
  BY <1>1, <1>2 DEF ReqFields
<1>4. req'[r].reader = None /\ req'[r].status = status
  BY <1>1, <1>2 DEF ReqFields
<1> QED  BY <1>3, <1>4 DEF ReqOK, Serving

(* A request goes on holding what it uses. *)
LEMMA ServerReqs ==
    ASSUME ServerInv, TypeInv, NEW r \in Request,
           \/ Transmit(r) \/ ServeGRPC(r) \/ Enter(r) \/ Open(r) \/ OpenFails(r)
           \/ Verify(r) \/ Handle(r) \/ Reply(r)
    PROVE  ReqOK(r)'
<1>0. ReqsShaped /\ ReqOK(r)
  BY DEF ServerInv, TypeInv
<1>00. req[r] = [k \in ReqFields |-> req[r][k]] /\ req = [q \in Request |-> req[q]]
  BY <1>0 DEF ReqsShaped, Records
<1>1. CASE Transmit(r)
  <2> DEFINE B(whole) == IF whole THEN BodyOf(r[1]) ELSE Cut(BodyOf(r[1]))
  <2>1. PICK whole \in BOOLEAN :
          req' = [req EXCEPT ![r].pc = "received", ![r].whole = whole, ![r].body = B(whole)]
    BY <1>1 DEF Transmit
  <2>2. PICK body : body = B(whole)
    OBVIOUS
  <2> HIDE DEF B
  <2>3. req'[r] = [req[r] EXCEPT !.pc = "received", !.whole = whole, !.body = body]
    BY <1>00, <2>1, <2>2
  <2>4. req'[r].pc = "received" /\ req'[r].buffer = req[r].buffer
    BY <1>00, <2>3 DEF ReqFields
  <2>5. req'[r].reader = req[r].reader /\ req'[r].status = req[r].status
    BY <1>00, <2>3 DEF ReqFields
  <2>6. req[r].pc = "transit"
    BY <1>1 DEF Transmit
  <2> QED  BY <1>0, <2>4, <2>5, <2>6 DEF ReqOK, Serving
<1>2. CASE ServeGRPC(r)
  <2> DEFINE s == IF Trusted THEN 200 ELSE 403
             x == JSON(r[1])
  <2>1. req[r].pc = "transit" /\ req' = [req EXCEPT ![r].pc = "answered", ![r].body = x,
                                                    ![r].status = s]
    BY <1>2 DEF ServeGRPC
  <2>2. s \in {200, 403}
    OBVIOUS
  <2> HIDE DEF s, x
  <2>3. req'[r] = [req[r] EXCEPT !.pc = "answered", !.body = x, !.status = s]
    BY <1>00, <2>1
  <2>4. req'[r].pc = "answered" /\ req'[r].buffer = req[r].buffer
    BY <1>00, <2>3 DEF ReqFields
  <2>5. req'[r].reader = req[r].reader /\ req'[r].status = s
    BY <1>00, <2>3 DEF ReqFields
  <2> QED  BY <1>0, <2>1, <2>2, <2>4, <2>5 DEF ReqOK, Serving
<1>3. CASE Enter(r)
  <2>1. PICK b \in Buffer : \/ Refuse(r, b, 403)
                            \/ req' = [req EXCEPT ![r].pc = "entered", ![r].buffer = b]
    BY <1>3 DEF Enter
  <2>2. CASE Refuse(r, b, 403)
    BY <1>0, <2>2, RefuseOK
  <2>3. CASE req' = [req EXCEPT ![r].pc = "entered", ![r].buffer = b]
    <3>1. req'[r] = [req[r] EXCEPT !.pc = "entered", !.buffer = b]
      BY <1>00, <2>3
    <3>2. req'[r].pc = "entered" /\ req'[r].buffer = b
      BY <1>00, <3>1 DEF ReqFields
    <3>3. req'[r].reader = req[r].reader /\ req'[r].status = req[r].status
      BY <1>00, <3>1 DEF ReqFields
    <3>4. req[r].pc = "received"
      BY <1>3 DEF Enter
    <3> QED  BY <1>0, <3>2, <3>3, <3>4 DEF ReqOK, Serving
  <2> QED  BY <2>1, <2>2, <2>3
<1>4. CASE Open(r)
  <2> DEFINE pc == IF Verifies(r) THEN "verify" ELSE "route"
  <2>1. PICK z \in Reader : req' = [req EXCEPT ![r].pc = pc, ![r].reader = z]
    BY <1>4 DEF Open
  <2>2. pc \in {"verify", "route"}
    OBVIOUS
  <2> HIDE DEF pc
  <2>3. req'[r] = [req[r] EXCEPT !.pc = pc, !.reader = z]
    BY <1>00, <2>1
  <2>4. req'[r].pc = pc /\ req'[r].buffer = req[r].buffer
    BY <1>00, <2>3 DEF ReqFields
  <2>5. req'[r].reader = z /\ req'[r].status = req[r].status
    BY <1>00, <2>3 DEF ReqFields
  <2> QED  BY <1>0, <2>2, <2>4, <2>5 DEF ReqOK, Serving
<1>5. ASSUME req[r].pc \in Serving PROVE req[r].buffer \in Buffer
  BY <1>5, ServingHolds
<1>6. CASE OpenFails(r)
  <2>1. Refuse(r, req[r].buffer, 400) /\ req[r].buffer \in Buffer
    BY <1>5, <1>6 DEF OpenFails, Serving
  <2> QED  BY <1>0, <2>1, RefuseOK
<1>7. CASE Verify(r)
  <2> DEFINE data == Gunzip(input[req[r].reader])
  <2>1. req[r].pc = "verify" /\ req[r].buffer \in Buffer
    BY <1>5, <1>7 DEF Verify, Serving
  <2>2. \/ req' = [req EXCEPT ![r].pc = "route", ![r].body = data, ![r].reader = None]
        \/ Refuse(r, req[r].buffer, 400)
    BY <1>7 DEF Verify
  <2> HIDE DEF data
  <2>3. CASE Refuse(r, req[r].buffer, 400)
    BY <1>0, <2>1, <2>3, RefuseOK
  <2>4. CASE req' = [req EXCEPT ![r].pc = "route", ![r].body = data, ![r].reader = None]
    <3>1. req'[r] = [req[r] EXCEPT !.pc = "route", !.body = data, !.reader = None]
      BY <1>00, <2>4
    <3>2. req'[r].pc = "route" /\ req'[r].buffer = req[r].buffer
      BY <1>00, <3>1 DEF ReqFields
    <3>3. req'[r].reader = None /\ req'[r].status = req[r].status
      BY <1>00, <3>1 DEF ReqFields
    <3> QED  BY <1>0, <3>2, <3>3 DEF ReqOK, Serving
  <2> QED  BY <2>2, <2>3, <2>4
<1>8. CASE Handle(r)
  <2>1. req[r].pc = "route" /\ req[r].buffer \in Buffer
    BY <1>5, <1>8 DEF Handle, Serving
  <2>2. \/ req' = [req EXCEPT ![r].pc = "handled", ![r].status = 200, ![r].reader = None]
        \/ Refuse(r, req[r].buffer, 400)
    BY <1>8 DEF Handle
  <2>3. CASE Refuse(r, req[r].buffer, 400)
    BY <1>0, <2>1, <2>3, RefuseOK
  <2>4. CASE req' = [req EXCEPT ![r].pc = "handled", ![r].status = 200, ![r].reader = None]
    <3>1. req'[r] = [req[r] EXCEPT !.pc = "handled", !.status = 200, !.reader = None]
      BY <1>00, <2>4
    <3>2. req'[r].pc = "handled" /\ req'[r].buffer = req[r].buffer
      BY <1>00, <3>1 DEF ReqFields
    <3>3. req'[r].reader = None /\ req'[r].status = 200
      BY <1>00, <3>1 DEF ReqFields
    <3> QED  BY <1>0, <3>2, <3>3 DEF ReqOK, Serving
  <2> QED  BY <2>2, <2>3, <2>4
<1>9. CASE Reply(r)
  <2> DEFINE body == reply[req[r].buffer]
             sum  == HMAC(server["Key"], body)
  <2>1. req[r].pc = "handled" /\ req' = [req EXCEPT ![r].pc = "answered", ![r].body = body,
                                                    ![r].buffer = None, ![r].sum = sum]
    BY <1>9 DEF Reply
  <2> HIDE DEF body, sum
  <2>2. req'[r] = [req[r] EXCEPT !.pc = "answered", !.body = body, !.buffer = None, !.sum = sum]
    BY <1>00, <2>1
  <2>3. req'[r].pc = "answered" /\ req'[r].buffer = None
    BY <1>00, <2>2 DEF ReqFields
  <2>4. req'[r].reader = req[r].reader /\ req'[r].status = req[r].status
    BY <1>00, <2>2 DEF ReqFields
  <2> QED  BY <1>0, <2>1, <2>3, <2>4 DEF ReqOK, Serving
<1> QED  BY <1>1, <1>2, <1>3, <1>4, <1>6, <1>7, <1>8, <1>9

(* A step of the server keeps the pools: what it puts back its request held. *)
LEMMA ServerPoolsOK ==
    ASSUME ServerInv, TypeInv, NEW r \in Request,
           \/ Transmit(r) \/ ServeGRPC(r) \/ Enter(r) \/ Open(r) \/ OpenFails(r)
           \/ Verify(r) \/ Handle(r) \/ Reply(r)
    PROVE  PoolInv'
<1>0. ShapedPool /\ PoolInv /\ {"server", "reader"} \subseteq PoolName
  BY DEF ServerInv, TypeInv, PoolName
<1>1. CASE UNCHANGED pool
  BY <1>0, <1>1 DEF PoolInv
<1>2. CASE Enter(r)
  <2>1. PICK b \in Buffer : Get("server", b)
    BY <1>2 DEF Enter
  <2> QED  BY <1>0, <2>1, GetKeepsKind
<1>3. CASE Open(r)
  <2>1. PICK z \in Reader : Get("reader", z)
    BY <1>3 DEF Open
  <2> QED  BY <1>0, <2>1, GetKeepsKind
<1>4. CASE OpenFails(r)
  <2>1. PICK z : pool' = [pool EXCEPT !["reader"].idle = @ \ {z}]
    BY <1>4 DEF OpenFails
  <2>2. /\ pool'["reader"].idle = pool["reader"].idle \ {z}
        /\ pool'["reader"].made = pool["reader"].made
    BY <1>0, <2>1 DEF ShapedPool, Records, PoolName
  <2>3. \A q \in PoolName \ {"reader"} : pool'[q] = pool[q]
    BY <1>0, <2>1 DEF ShapedPool, Records, PoolName
  <2> QED  BY <1>0, <2>2, <2>3 DEF PoolInv
<1>5. CASE Handle(r)
  <2> DEFINE z == req[r].reader
  <2>1. Put("reader", {z}) \/ UNCHANGED pool
    BY <1>5 DEF Handle
  <2>2. {z} \ {None} = Rdr(r)
    BY <1>5 DEF Handle, Rdr
  <2>3. Rdr(r) \subseteq pool["reader"].made \cap Kind("reader")
    BY ServingHolds DEF Kind
  <2> HIDE DEF z
  <2>4. CASE Put("reader", {z})
    BY <1>0, <2>2, <2>3, <2>4, PutKeepsKind
  <2> QED  BY <1>1, <2>1, <2>4
<1>6. CASE Reply(r)
  <2> DEFINE b == req[r].buffer
  <2>1. Put("server", {b}) /\ req[r].pc = "handled"
    BY <1>6 DEF Reply
  <2>2. b \in Buffer /\ Buf(r) = {b}
    BY <2>1, ServingHolds DEF Serving
  <2>3. {b} \ {None} \subseteq pool["server"].made \cap Kind("server")
    BY <2>2, ServingHolds DEF Kind
  <2> HIDE DEF b
  <2> QED  BY <1>0, <2>1, <2>3, PutKeepsKind
<1>7. Transmit(r) \/ ServeGRPC(r) \/ Verify(r) => UNCHANGED pool
  BY DEF Transmit, ServeGRPC, Verify
<1> QED  BY <1>1, <1>2, <1>3, <1>4, <1>5, <1>6, <1>7

(* What a request applies is its own. *)
LEMMA ServerApplies ==
    ASSUME AppliedOK, NEW r \in Request,
           \/ Transmit(r) \/ ServeGRPC(r) \/ Enter(r) \/ Open(r) \/ OpenFails(r)
           \/ Verify(r) \/ Handle(r) \/ Reply(r)
    PROVE  AppliedOK'
<1>1. \A e \in applied' : e \in applied \/ e[1] = r
  <2>1. ASSUME ServeGRPC(r) \/ Handle(r) PROVE \E x : applied' \subseteq applied \cup {<<r, x>>}
    BY <2>1 DEF ServeGRPC, Handle
  <2>2. ASSUME ~(ServeGRPC(r) \/ Handle(r)) PROVE applied' = applied
    BY <2>2 DEF Transmit, Enter, Open, OpenFails, Verify, Reply
  <2> QED  BY <2>1, <2>2
<1> QED  BY <1>1 DEF AppliedOK

(* What is read at the start are options of the two configurations. *)
LEMMA DeployTypes ==
    ASSUME TypeInv, Deploy
    PROVE  TypeInv'
<1>1. agent' \in {None, Refused} \/ DOMAIN agent' \subseteq AgentOption
  BY DEF Deploy, AgentStarts, AgentOption
<1>2. server' \in {None, Refused} \/ DOMAIN server' \subseteq ServerOption
  BY DEF Deploy, ServerStarts, ServerOption
<1>3. UNCHANGED <<call, req, pool, applied>>
  BY DEF Deploy
<1> QED  BY <1>1, <1>2, <1>3 DEF TypeInv, ConfInv, PoolInv, AppliedOK, CallOK, ReqOK

(* Every step keeps the types. *)
LEMMA TypeInvStep ==
    ASSUME WireInv, TypeInv, [Next]_vars
    PROVE  TypeInv'
<1>0. AgentInv /\ ServerInv /\ AnswerInv
  BY DEF WireInv
<1>1. CASE Deploy
  BY <1>1, DeployTypes
<1>2. ASSUME NEW c \in Call,
             \/ Encode(c) \/ EncodeFails(c) \/ Compress(c) \/ Attempt(c) \/ Retry(c)
             \/ GiveUp(c) \/ Answered(c)
      PROVE  TypeInv'
  <2>1. UNCHANGED <<conf, applied>>
    BY <1>0, <1>2, AgentCall DEF AgentInv
  <2>2. ConfInv' /\ AppliedOK'
    BY <2>1 DEF TypeInv, ConfInv, AppliedOK, conf
  <2>3. OnlyCall(c) /\ CallOK(c)'
    BY <1>0, <1>2, AgentCalls
  <2>4. \A d \in Call : CallOK(d)'
    BY <2>3 DEF OnlyCall, TypeInv, CallOK
  <2>5. PoolInv' /\ \A r \in Request : ReqOK(r)'
    BY <1>0, <1>2, AgentPools, AgentReqs
  <2> QED  BY <2>2, <2>4, <2>5 DEF TypeInv
<1>3. ASSUME NEW r \in Request,
             \/ Transmit(r) \/ ServeGRPC(r) \/ Enter(r) \/ Open(r) \/ OpenFails(r)
             \/ Verify(r) \/ Handle(r) \/ Reply(r)
      PROVE  TypeInv'
  <2>1. OnlyReq(r) /\ UNCHANGED <<conf, call>>
    BY <1>0, <1>3, ServerReq
  <2>2. ConfInv' /\ \A c \in Call : CallOK(c)'
    BY <2>1 DEF TypeInv, ConfInv, CallOK, conf
  <2>3. ReqOK(r)'
    BY <1>0, <1>3, ServerReqs
  <2>4. \A q \in Request : ReqOK(q)'
    BY <2>1, <2>3 DEF OnlyReq, TypeInv, ReqOK
  <2>5. PoolInv'
    BY <1>0, <1>3, ServerPoolsOK
  <2>6. AppliedOK'
    BY <1>3, ServerApplies DEF TypeInv
  <2> QED  BY <2>2, <2>4, <2>5, <2>6 DEF TypeInv
<1>4. CASE UNCHANGED vars
  <2>1. UNCHANGED <<agent, server, call, req, pool, applied>>
    BY <1>4 DEF vars, conf
  <2> QED  BY <2>1 DEF TypeInv, ConfInv, PoolInv, AppliedOK, CallOK, ReqOK
<1>5. Next => \/ Deploy
              \/ \E c \in Call : \/ Encode(c) \/ EncodeFails(c) \/ Compress(c) \/ Attempt(c)
                                 \/ Retry(c) \/ GiveUp(c) \/ Answered(c)
              \/ \E r \in Request : \/ Transmit(r) \/ ServeGRPC(r) \/ Enter(r) \/ Open(r)
                                    \/ OpenFails(r) \/ Verify(r) \/ Handle(r) \/ Reply(r)
  BY DEF Next
<1> QED  BY <1>1, <1>2, <1>3, <1>4, <1>5

(* The types hold at the start. *)
LEMMA TypesAtStart ==
    ASSUME Init
    PROVE  TypeInv
<1>1. ConfInv /\ AppliedOK
  BY DEF Init, ConfInv, AppliedOK
<1>2. PoolInv
  BY DEF Init, PoolInv, EmptyPool, PoolName
<1>3. \A c \in Call : CallOK(c)
  BY WireAssumption DEF Init, Caller, CallOK
<1>4. \A r \in Request : ReqOK(r)
  BY DEF Init, Exchange, ReqOK, Serving
<1> QED  BY <1>1, <1>2, <1>3, <1>4 DEF TypeInv

(* Types; and no buffer or reader is in its pool while a call or a request *)
(* uses it: no Put frees what is still read, and no error path puts back   *)
(* an object twice that another has taken in between.                      *)
(* (internal/pool/pool.go:20, internal/agent/client.go:222,                *)
(* internal/middleware/gzip.go:144)                                        *)
THEOREM TypeCorrect == Spec => []TypeOK
<1>1. Init => WireInv /\ TypeInv
  BY InitHolds, TypesAtStart
<1>2. (WireInv /\ TypeInv) /\ [Next]_vars => (WireInv /\ TypeInv)'
  BY WireInvStep, TypeInvStep
<1>3. WireInv /\ TypeInv => TypeOK
  BY TypesFollow
<1> QED  BY <1>1, <1>2, <1>3, PTL DEF Spec

-----------------------------------------------------------------------------
(* The configuration.                                                      *)

(* Which source is the first that speaks. *)
LEMMA FirstIs ==
    ASSUME NEW src, NEW o, NEW default, default # Unset
    PROVE  LET said == Sources(src, o, default)
           IN  /\ First(said, 1) <=> src.env[o] # Unset
               /\ First(said, 2) <=> src.env[o] = Unset /\ src.flag[o] # Unset
               /\ First(said, 3) <=> src.env[o] = Unset /\ FileSpeaks(src, o)
               /\ First(said, 4) <=> /\ src.env[o] = Unset /\ src.flag[o] = Unset
                                     /\ ~FileSpeaks(src, o)
               /\ said[1] = src.env[o] /\ said[2] = src.flag[o] /\ said[4] = default
               /\ First(said, 3) => said[3] = src.file[o]
<1> DEFINE said == Sources(src, o, default)
<1>1. /\ said[1] = src.env[o] /\ said[2] = src.flag[o] /\ said[4] = default
      /\ said[3] = IF src.file[o] = Empty THEN Unset ELSE src.file[o]
  BY DEF Sources
<1> HIDE DEF said
<1>2. /\ 1 .. 1 - 1 = {} /\ 1 .. 2 - 1 = {1} /\ 1 .. 3 - 1 = {1, 2}
      /\ 1 .. 4 - 1 = {1, 2, 3}
  OBVIOUS
<1>3. /\ First(said, 1) <=> said[1] # Unset
      /\ First(said, 2) <=> said[2] # Unset /\ said[1] = Unset
      /\ First(said, 3) <=> said[3] # Unset /\ said[1] = Unset /\ said[2] = Unset
      /\ First(said, 4) <=> /\ said[4] # Unset /\ said[1] = Unset /\ said[2] = Unset
                            /\ said[3] = Unset
  BY <1>2 DEF First
<1>4. said[3] # Unset <=> src.file[o] \notin {Unset, Empty}
  BY <1>1
<1>5. said[3] # Unset => said[3] = src.file[o]
  BY <1>1
<1>6. /\ First(said, 1) <=> src.env[o] # Unset
      /\ First(said, 2) <=> src.env[o] = Unset /\ src.flag[o] # Unset
      /\ First(said, 3) <=> src.env[o] = Unset /\ FileSpeaks(src, o)
      /\ First(said, 4) <=> /\ src.env[o] = Unset /\ src.flag[o] = Unset
                            /\ ~FileSpeaks(src, o)
  BY <1>1, <1>3, <1>4 DEF FileSpeaks
<1>7. First(said, 3) => said[3] = src.file[o]
  BY <1>3, <1>5
<1> QED  BY <1>1, <1>6, <1>7 DEF said

(* Layered takes what the first source that speaks says. *)
LEMMA LayeredIs ==
    ASSUME NEW src, NEW o, NEW default, default # Unset,
           NEW k \in 1 .. 4, First(Sources(src, o, default), k)
    PROVE  Layered(src, o, default) = Sources(src, o, default)[k]
<1> DEFINE said == Sources(src, o, default)
<1>1. CASE k = 1
  <2>1. src.env[o] # Unset /\ said[1] = src.env[o]
    BY <1>1, FirstIs
  <2> QED  BY <1>1, <2>1 DEF Layered
<1>2. CASE k = 2
  <2>1. src.env[o] = Unset /\ src.flag[o] # Unset /\ said[2] = src.flag[o]
    BY <1>2, FirstIs
  <2> QED  BY <1>2, <2>1 DEF Layered, Flagged, FileSpeaks
<1>3. CASE k = 3
  <2>1. src.env[o] = Unset /\ FileSpeaks(src, o) /\ said[3] = src.file[o]
    BY <1>3, FirstIs
  <2> QED  BY <1>3, <2>1 DEF Layered
<1>4. CASE k = 4
  <2>1. /\ src.env[o] = Unset /\ src.flag[o] = Unset /\ ~FileSpeaks(src, o)
        /\ said[4] = default
    BY <1>4, FirstIs
  <2> QED  BY <1>4, <2>1 DEF Layered, Flagged
<1> QED  BY <1>1, <1>2, <1>3, <1>4

LEMMA LayeredDecides ==
    ASSUME NEW src, NEW o, NEW default, default # Unset
    PROVE  Decides(src, o, default, Layered(src, o, default))
<1>1. \E k \in 1 .. 4 : First(Sources(src, o, default), k)
  BY FirstIs DEF FileSpeaks
<1> QED  BY <1>1, LayeredIs DEF Decides

(* A text, or a number with its default, as the layers leave it. *)
LEMMA LayeredNumber ==
    ASSUME NEW src, NEW o, NEW default \in Int,
           src.flag[o] \in Int \cup {Unset},
           src.env[o] \in Int \cup {Unset},
           src.env[o] # Unset \/ ~FileSpeaks(src, o)
    PROVE  Layered(src, o, default) \in Int
  BY DEF Layered, Flagged

(* Every option of an agent that starts. *)
LEMMA AgentReads ==
    ASSUME NEW src, IsTyped(src, AgentOption)
    PROVE  AgentAsDocumented(src)
<1> DEFINE cfg     == NewAgentConfig(src)
           said(o) == Sources(src, o, AgentDefault[o])
           Ticker  == {"ReportInterval", "PollInterval"}
<1>1. ASSUME NEW o \in Ticker, src.env[o] \notin Int \cup {Unset} PROVE cfg = Refused
  <2>1. src.env[o] \in {Empty, Malformed}
    BY <1>1 DEF IsTyped, NumberOption, AgentOption
  <2> QED  BY <2>1 DEF NewAgentConfig, AgentRefuses
<1>2. ASSUME cfg # Refused
      PROVE  /\ \A o \in AgentOption \ ({"RateLimit"} \cup Ticker) :
                   Decides(src, o, AgentDefault[o], cfg[o])
             /\ \A o \in Ticker, k \in 1 .. 4 :
                   First(said(o), k) => cfg[o] = Unit[k] * said(o)[k]
             /\ \A k \in 1 .. 4 :
                   First(said("RateLimit"), k) /\ said("RateLimit")[k] \in Nat \ {0}
                   => cfg["RateLimit"] = said("RateLimit")[k]
  <2>1. ~AgentRefuses(src)
    BY <1>2 DEF NewAgentConfig
  <2>2. /\ \A o \in AgentOption \ ({"RateLimit"} \cup Ticker) :
              cfg[o] = Layered(src, o, AgentDefault[o])
        /\ \A o \in Ticker : cfg[o] = Interval(src, o)
        /\ cfg["RateLimit"] = RateLimit(src)
    BY <2>1 DEF NewAgentConfig, AgentOption
  <2> HIDE DEF cfg
  <2>3. \A o \in AgentOption : AgentDefault[o] # Unset
    BY ConfigAssumption DEF AgentDefault, AgentOption
  <2>4. ASSUME NEW o \in AgentOption \ ({"RateLimit"} \cup Ticker)
        PROVE  Decides(src, o, AgentDefault[o], cfg[o])
    BY <2>2, <2>3, LayeredDecides
  <2>5. ASSUME NEW o \in Ticker, NEW k \in 1 .. 4, First(said(o), k)
        PROVE  cfg[o] = Unit[k] * said(o)[k]
    <3>1. o \in AgentOption /\ AgentDefault[o] # Unset
      BY <2>3 DEF AgentOption
    <3>2. Unit[1] = 1000 /\ Unit[2] = 1000 /\ Unit[3] = 1 /\ Unit[4] = 1000
      BY DEF Unit
    <3>3. CASE k = 3
      <4>1. src.env[o] = Unset /\ FileSpeaks(src, o) /\ said(o)[3] = src.file[o]
        BY <2>5, <3>1, <3>3, FirstIs
      <4>2. src.file[o] \in Int
        <5>1. src.file # Unreadable /\ src.file[o] \notin {Unset, Empty, Malformed}
          BY <2>1, <4>1 DEF AgentRefuses, FileSpeaks
        <5> QED  BY <3>1, <5>1 DEF IsTyped, NumberOption
      <4>3. cfg[o] = src.file[o]
        BY <2>2, <4>1 DEF Interval
      <4> HIDE DEF said
      <4> QED  BY <3>2, <3>3, <4>1, <4>2, <4>3
    <3>4. CASE k # 3
      <4>1. ~(src.env[o] = Unset /\ FileSpeaks(src, o))
        BY <2>5, <3>1, <3>4, FirstIs DEF FileSpeaks
      <4>2. cfg[o] = 1000 * Layered(src, o, AgentDefault[o])
        BY <2>2, <4>1 DEF Interval
      <4>3. Layered(src, o, AgentDefault[o]) = said(o)[k]
        BY <2>5, <3>1, LayeredIs
      <4>4. Unit[k] = 1000
        BY <3>2, <3>4
      <4> HIDE DEF said
      <4> QED  BY <4>2, <4>3, <4>4
    <3> QED  BY <3>3, <3>4
  <2>6. ASSUME NEW k \in 1 .. 4, First(said("RateLimit"), k),
               said("RateLimit")[k] \in Nat \ {0}
        PROVE  cfg["RateLimit"] = said("RateLimit")[k]
    <3>1. "RateLimit" \in AgentOption /\ AgentDefault["RateLimit"] = 0 /\ 0 # Unset
      BY ConfigAssumption DEF AgentOption, AgentDefault
    <3>2. src.file["RateLimit"] = Unset
      <4>1. src.file # Unreadable
        BY <2>1 DEF AgentRefuses
      <4> QED  BY <3>1, <4>1 DEF IsTyped, NumberOption
    <3>3. k # 3
      BY <2>6, <3>1, <3>2, FirstIs DEF FileSpeaks
    <3>4. k # 4
      BY <2>6, <3>1, FirstIs
    <3>5. CASE k = 1
      <4>1. src.env["RateLimit"] = said("RateLimit")[1] /\ src.env["RateLimit"] # Unset
        BY <2>6, <3>1, <3>5, FirstIs
      <4>2. src.env["RateLimit"] \in Nat \ {0}
        BY <2>6, <3>5, <4>1
      <4>3. RateLimit(src) = src.env["RateLimit"]
        BY <4>1, <4>2, ConfigAssumption DEF RateLimit
      <4> QED  BY <2>2, <3>5, <4>1, <4>3
    <3>6. CASE k = 2
      <4>1. /\ src.flag["RateLimit"] = said("RateLimit")[2]
            /\ src.flag["RateLimit"] # Unset /\ src.env["RateLimit"] = Unset
        BY <2>6, <3>1, <3>6, FirstIs
      <4>2. src.flag["RateLimit"] \in Nat \ {0}
        BY <2>6, <3>6, <4>1
      <4>3. RateLimit(src) = src.flag["RateLimit"]
        BY <4>1, <4>2 DEF RateLimit, Flagged
      <4> QED  BY <2>2, <3>6, <4>1, <4>3
    <3> QED  BY <3>3, <3>4, <3>5, <3>6
  <2> QED  BY <2>4, <2>5, <2>6
<1> QED  BY <1>1, <1>2 DEF AgentAsDocumented

(* Seconds without their fraction. *)
LEMMA WholeSecondsIs ==
    ASSUME NEW ms \in Int
    PROVE  IsWholePart(WholeSeconds(ms), ms)
<1>1. CASE ms >= 0
  <2>1. WholeSeconds(ms) = ms \div 1000
    BY <1>1 DEF WholeSeconds
  <2>2. 0 <= ms \div 1000 /\ 1000 * (ms \div 1000) <= ms /\ ms < 1000 * (ms \div 1000 + 1)
    BY <1>1
  <2> QED  BY <2>1, <2>2 DEF IsWholePart
<1>2. CASE ms < 0
  <2> DEFINE n == (-ms) \div 1000
  <2>1. WholeSeconds(ms) = -n
    BY <1>2 DEF WholeSeconds
  <2>2. n \in Nat /\ 1000 * n <= -ms /\ -ms < 1000 * (n + 1)
    BY <1>2
  <2> HIDE DEF n
  <2>3. -n <= 0 /\ 1000 * ((-n) - 1) < ms /\ ms <= 1000 * (-n)
    BY <2>2
  <2> QED  BY <2>1, <2>3 DEF IsWholePart
<1> QED  BY <1>1, <1>2

(* Every option of a server that starts. *)
LEMMA ServerReads ==
    ASSUME NEW src, IsTyped(src, ServerOption)
    PROVE  ServerAsDocumented(src)
<1> DEFINE cfg  == NewServerConfig(src)
           said == Sources(src, "StoreInterval", 300)
           v    == cfg["StoreInterval"]
           ms   == src.file["StoreInterval"]
<1>0. src.env["StoreInterval"] \in Int \cup {Unset, Empty, Malformed}
  BY DEF IsTyped, NumberOption, ServerOption
<1>1. ASSUME src.env["StoreInterval"] \notin Nat \cup {Unset} PROVE cfg = Refused
  <2>1. CASE src.env["StoreInterval"] \in {Empty, Malformed}
    BY <2>1 DEF NewServerConfig, ServerRefuses
  <2>2. CASE src.env["StoreInterval"] \in Int
    <3>1. src.env["StoreInterval"] < 0 /\ src.env["StoreInterval"] # Unset
      BY <1>1, <2>2
    <3> QED  BY <3>1 DEF NewServerConfig, ServerRefuses
  <2> QED  BY <1>0, <1>1, <2>1, <2>2
<1>2. ASSUME src.env["Restore"] \in {Empty, Malformed} PROVE cfg = Refused
  BY <1>2 DEF NewServerConfig, ServerRefuses
<1>3. ASSUME cfg # Refused
      PROVE  /\ \A o \in ServerOption \ {"StoreInterval"} :
                   Decides(src, o, ServerDefault[o], cfg[o])
             /\ \A k \in 1 .. 4 : First(said, k) => IsWholePart(v, Unit[k] * said[k])
  <2>1. ~ServerRefuses(src)
    BY <1>3 DEF NewServerConfig
  <2>2. /\ \A o \in ServerOption \ {"StoreInterval"} :
              cfg[o] = Layered(src, o, ServerDefault[o])
        /\ v = StoreInterval(src)
    BY <2>1 DEF NewServerConfig, ServerOption
  <2>3. src.env["StoreInterval"] \in Nat \cup {Unset}
    BY <1>1, <1>3
  <2> HIDE DEF cfg
  <2>4. ASSUME NEW o \in ServerOption \ {"StoreInterval"}
        PROVE  Decides(src, o, ServerDefault[o], cfg[o])
    <3>1. ServerDefault[o] # Unset
      BY ConfigAssumption DEF ServerDefault, ServerOption
    <3> QED  BY <2>2, <3>1, LayeredDecides
  <2>5. ASSUME NEW k \in 1 .. 4, First(said, k)
        PROVE  IsWholePart(v, Unit[k] * said[k])
    <3>1. 300 # Unset
      BY ConfigAssumption
    <3>2. Unit[1] = 1000 /\ Unit[2] = 1000 /\ Unit[3] = 1 /\ Unit[4] = 1000
      BY DEF Unit
    <3>3. CASE k = 3
      <4>1. /\ src.env["StoreInterval"] = Unset /\ FileSpeaks(src, "StoreInterval")
            /\ said[3] = ms
        BY <2>5, <3>1, <3>3, FirstIs
      <4>2. ms \in Int
        <5>1. src.file # Unreadable /\ ms \notin {Unset, Empty, Malformed}
          BY <2>1, <4>1 DEF ServerRefuses, FileSpeaks
        <5> QED  BY <5>1 DEF IsTyped, NumberOption, ServerOption
      <4>3. v = WholeSeconds(ms)
        BY <2>2, <4>1 DEF StoreInterval
      <4> HIDE DEF said, v, ms
      <4>4. Unit[k] * said[k] = ms
        BY <3>2, <3>3, <4>1, <4>2
      <4> QED  BY <4>2, <4>3, <4>4, WholeSecondsIs
    <3>4. CASE k # 3
      <4>1. ~(src.env["StoreInterval"] = Unset /\ FileSpeaks(src, "StoreInterval"))
        BY <2>5, <3>1, <3>4, FirstIs DEF FileSpeaks
      <4>2. v = Layered(src, "StoreInterval", 300)
        BY <2>2, <4>1 DEF StoreInterval
      <4>3. v = said[k]
        BY <2>5, <3>1, <4>2, LayeredIs
      <4>4. Layered(src, "StoreInterval", 300) \in Int
        <5>1. src.flag["StoreInterval"] \in Int \cup {Unset}
          BY DEF IsTyped, NumberOption, ServerOption
        <5> QED  BY <2>3, <4>1, <5>1, LayeredNumber
      <4>5. Unit[k] = 1000
        BY <3>2, <3>4
      <4> HIDE DEF said, v
      <4>6. v \in Int /\ Unit[k] * said[k] = 1000 * v
        BY <4>2, <4>3, <4>4, <4>5
      <4>7. v \in Int => IsWholePart(v, 1000 * v)
        BY DEF IsWholePart
      <4> QED  BY <4>6, <4>7
    <3> QED  BY <3>3, <3>4
  <2> QED  BY <2>4, <2>5
<1> QED  BY <1>1, <1>2, <1>3 DEF ServerAsDocumented

(* An agent and a server that start have, in every option, what the first  *)
(* of environment, flag, file and default says that mentions it: durations *)
(* of the agent to the millisecond, the server's in whole seconds and so   *)
(* 0, which is synchronous, only where it is told 0 or less than a second, *)
(* a positive limit as it is said; neither starts with an interval in the  *)
(* environment that is no number, the server with none that is negative.   *)
(* The sources are read once, and are among those of Source until then.    *)
(* (internal/config/server.go:51, internal/config/agent.go:41)             *)
THEOREM ConfigIsAsDocumented == Spec => []ConfigAsDocumented
<1> DEFINE Inv == source \in Source \cup {None}
<1>1. Init => Inv
  BY DEF Init
<1>2. Inv /\ [Next]_vars => Inv'
  <2> SUFFICES ASSUME Inv, [Next]_vars PROVE Inv'
    OBVIOUS
  <2>1. source' = source \/ source' = None
    <3>1. CASE Deploy
      BY <3>1 DEF Deploy
    <3>2. ASSUME NEW c \in Call,
                 \/ Encode(c) \/ EncodeFails(c) \/ Compress(c) \/ Attempt(c) \/ Retry(c)
                 \/ GiveUp(c) \/ Answered(c)
          PROVE  source' = source
      BY <3>2 DEF Encode, EncodeFails, Compress, Attempt, Retry, GiveUp, Answered, Return, conf
    <3>3. ASSUME NEW r \in Request,
                 \/ Transmit(r) \/ ServeGRPC(r) \/ Enter(r) \/ Open(r) \/ OpenFails(r)
                 \/ Verify(r) \/ Handle(r) \/ Reply(r)
          PROVE  source' = source
      BY <3>3 DEF Transmit, ServeGRPC, Enter, Open, OpenFails, Verify, Handle, Reply, conf
    <3>4. CASE UNCHANGED vars
      BY <3>4 DEF vars, conf
    <3> QED  BY <3>1, <3>2, <3>3, <3>4 DEF Next
  <2> QED  BY <2>1
<1>3. Inv => ConfigAsDocumented
  BY WireAssumption, AgentReads, ServerReads DEF ConfigAsDocumented
<1> QED  BY <1>1, <1>2, <1>3, PTL DEF Spec
=============================================================================
