-------------------------------- MODULE Wire --------------------------------
(***************************************************************************)
(* What happens to a report between the agent's metrics and the server's   *)
(* storage: the agent encodes, compresses, encrypts and signs it           *)
(* (internal/agent/client.go, internal/crypto), the server's middleware    *)
(* undoes this and checks (internal/middleware, in the order of            *)
(* internal/server/server.go:36), the handler applies it and answers.      *)
(* Both use pools of buffers and gzip readers (internal/pool).  Which keys *)
(* and addresses are in force is what the two processes read from their    *)
(* sources when they start (module Config).                                *)
(*                                                                         *)
(* Texts are terms: see Gzip, Encrypt and MAC.  Module Delivery has the    *)
(* retries over time and the storage; here the order of the steps, the     *)
(* objects they share and the keys matter.  A gzip writer is taken from    *)
(* its pool, used and put back by one goroutine with nothing in between,   *)
(* so the pool of writers is left out.                                     *)
(***************************************************************************)
EXTENDS Config, FiniteSets

CONSTANTS
    Call,        \* the calls of SendBatch and SendMetric
    Attempts,    \* bound on the attempts of a call; the code makes 4
    MaxRequests, \* bound on the attempts of all calls together
    Buffer,      \* the objects of BufferPool, of each process
    Reader,      \* the objects of the server's GzipReaderPool
    None,        \* no object, nothing yet
    Broken,      \* a path without a key, a subnet that is none
    Inside,      \* an address of the trusted subnet
    Outside,     \* another one, or that none could be found
    Source       \* what an agent and a server start with: see Deploy

ASSUME WireAssumption ==
    /\ Attempts \in Nat \ {0} /\ MaxRequests \in Nat /\ IsFiniteSet(Call)
    /\ None \notin Buffer \cup Reader
    /\ \A s \in Source : IsTyped(s.agent, AgentOption) /\ IsTyped(s.server, ServerOption)

VARIABLES
    source,    \* the sources of both processes and the agent's address;
               \* None once they are read
    agent,     \* the agent's configuration; Refused if it does not start
    server,    \* the server's
    localIP,   \* metricsClient.localIP
    call,      \* the calls: see Caller
    req,       \* the requests, by call and attempt: see Exchange
    text,      \* what the agent's buffers hold
    reply,     \* what the server's buffers hold
    input,     \* what each gzip reader reads from
    pool,      \* the pools: see EmptyPool
    applied    \* history: the requests applied, with the text they brought

conf == <<source, agent, server, localIP>>
vars == <<conf, call, req, text, reply, input, pool, applied>>

Request == Call \X (1 .. Attempts)

-----------------------------------------------------------------------------
(* Texts.                                                                  *)

Blank     == <<"blank">>
Error     == <<"error">>
JSON(c)   == <<"json", c>>
IsJSON(x) == x[1] = "json"
Gzip(x)   == <<"gzip", x>>
IsGzip(x) == x[1] = "gzip"
Gunzip(x) == x[2]

(* Without a key the header HashSHA256 is left out. *)
NoHash       == <<"no hash">>
HMAC(key, x) == IF key = Empty THEN NoHash ELSE <<"hmac", key, x>>

(* The envelope: an AES key under the RSA key, then the sealed text. *)
Encrypt(x, key) == IF key = Empty THEN x ELSE <<"sealed", key, x>>

(* A body that ends too soon; its gzip header may have come through.  One  *)
(* that lacks no more than gzip's trailer is left out: without a hash      *)
(* check the handler takes it.                                             *)
Tail   == <<"cut">>
Cut(x) == IF IsGzip(x) THEN Gzip(Tail) ELSE Tail

(* The middleware Decrypt hands on what it cannot decrypt, and the rest,   *)
(* nothing, of a body it could not read.                                   *)
Decrypt(x, key) ==
    IF key = Empty THEN x
    ELSE CASE x \in {Tail, Gzip(Tail)}       -> Tail
           [] x[1] = "sealed" /\ x[2] = key  -> x[3]
           [] OTHER                          -> x

-----------------------------------------------------------------------------
(* Pools.  made: the objects that exist; idle: those in the pool.  Buffers *)
(* are reset, readers closed when they are put back.                       *)

EmptyPool == [idle |-> {}, made |-> {}]

(* Get takes any idle object or makes one: the pool may have been emptied, *)
(* or the objects belong to another processor.                             *)
MayGet(p, x) == x \in pool[p].idle \/ x \notin pool[p].made

(* Mutant of Get: the object stays in the pool. *)
GetLeaves(p, x) == pool' = [pool EXCEPT ![p].made = @ \cup {x}]

Get(p, x) == pool' = [pool EXCEPT ![p].idle = @ \ {x}, ![p].made = @ \cup {x}]

Put(p, xs) == pool' = [pool EXCEPT ![p].idle = @ \cup (xs \ {None})]

Reset(t, xs) == [x \in DOMAIN t |-> IF x \in xs THEN Blank ELSE t[x]]

-----------------------------------------------------------------------------
(* json, gzipped: the two buffers of the call; body, hash: what it sends;  *)
(* tries: the attempts made; status: the answer, or 0.                     *)
Caller == [path : {"/update", "/updates"}, pc : {"idle"}, json : {None}, gzipped : {None},
           body : {Blank}, hash : {NoHash}, tries : {0}, status : {0}]

(* body: of the request, then of the answer; whole: it came through to its *)
(* end; buffer: holds the answer; reader: the body is read through it;     *)
(* sum: the header HashSHA256 of the answer.                               *)
Exchange == [pc |-> "none", body |-> Blank, whole |-> TRUE, buffer |-> None, reader |-> None,
             status |-> 0, sum |-> NoHash]

(* Types; and no object is in its pool while a call or a request uses it:  *)
(* only who uses an object puts it back, so that none is put back twice.   *)
TypeOK ==
    /\ agent \in {None, Refused} \/ DOMAIN agent \subseteq AgentOption
    /\ server \in {None, Refused} \/ DOMAIN server \subseteq ServerOption
    /\ \A c \in Call : /\ call[c].pc \in {"idle", "encoded", "ready", "waiting", "done"}
                       /\ {call[c].json, call[c].gzipped} \subseteq Buffer \cup {None}
                       /\ call[c].pc \in {"encoded", "ready", "waiting"} =>
                            {call[c].json, call[c].gzipped} \cap pool["agent"].idle = {}
                       /\ call[c].tries \in 0 .. Attempts
                       /\ call[c].status \in {0, 200, 400, 403}
    /\ \A r \in Request : /\ req[r].pc \in {"none", "transit", "received", "entered", "verify",
                                            "route", "handled", "answered"}
                          /\ req[r].buffer \in Buffer \cup {None}
                          /\ req[r].reader \in Reader \cup {None}
                          /\ req[r].status \in {0, 200, 400, 403}
                          /\ req[r].buffer \notin pool["server"].idle
                          /\ req[r].reader \notin pool["reader"].idle
    /\ \A p \in DOMAIN pool : pool[p].idle \subseteq pool[p].made
    /\ \A e \in applied : e[1] \in Request

Init ==
    /\ source \in Source
    /\ agent = None /\ server = None /\ localIP = None
    /\ call \in [Call -> Caller]
    /\ req = [r \in Request |-> Exchange]
    /\ text = [b \in Buffer |-> Blank]
    /\ reply = [b \in Buffer |-> Blank]
    /\ input = [z \in Reader |-> Blank]
    /\ pool = [p \in {"agent", "server", "reader"} |-> EmptyPool]
    /\ applied = {}

-----------------------------------------------------------------------------
(* The start of both processes.                                            *)

(* The part of a configuration that matters here, if the process starts:   *)
(* its key can be loaded (an agent that sends over gRPC loads none), its   *)
(* subnet be parsed.                                                       *)
AgentStarts(cfg) ==
    IF cfg = Refused THEN Refused
    ELSE IF cfg["GRPCAddress"] = Empty /\ cfg["CryptoKey"] = Broken THEN Refused
    ELSE [o \in {"Key", "CryptoKey", "GRPCAddress"} |-> cfg[o]]

ServerStarts(cfg) ==
    IF cfg = Refused THEN Refused
    ELSE IF Broken \in {cfg["CryptoKey"], cfg["TrustedSubnet"]} THEN Refused
    ELSE [o \in {"Key", "CryptoKey", "GRPCAddress", "TrustedSubnet"} |-> cfg[o]]

Deploy ==
    /\ source # None
    /\ source' = None
    /\ agent' = AgentStarts(NewAgentConfig(source.agent))
    /\ server' = ServerStarts(NewServerConfig(source.server))
    /\ localIP' = source.ip
    /\ UNCHANGED <<call, req, text, reply, input, pool, applied>>

Up == agent \notin {None, Refused} /\ server \notin {None, Refused}
OverGRPC == agent["GRPCAddress"] # Empty

-----------------------------------------------------------------------------
(* The agent.                                                              *)

Encode(c) ==
    /\ Up /\ ~OverGRPC
    /\ call[c].pc = "idle"
    /\ \E b \in Buffer :
          /\ MayGet("agent", b) /\ Get("agent", b)
          /\ text' = [text EXCEPT ![b] = JSON(c)]
          /\ call' = [call EXCEPT ![c].pc = "encoded", ![c].json = b]
    /\ UNCHANGED <<conf, req, reply, input, applied>>

(* A value has no JSON form, NaN for example: the buffer goes back. *)
EncodeFails(c) ==
    /\ Up /\ ~OverGRPC
    /\ call[c].pc = "idle"
    /\ \E b \in Buffer :
          /\ MayGet("agent", b)
          /\ pool' = [pool EXCEPT !["agent"].idle = @ \cup {b}, !["agent"].made = @ \cup {b}]
    /\ call' = [call EXCEPT ![c].pc = "done"]
    /\ UNCHANGED <<conf, req, text, reply, input, applied>>

(* The body is a copy of the compressed text, or its envelope. *)
Compress(c) ==
    /\ call[c].pc = "encoded"
    /\ \E b \in Buffer :
          /\ MayGet("agent", b) /\ Get("agent", b)
          /\ LET json == text[call[c].json]
             IN  /\ text' = [text EXCEPT ![b] = Gzip(json)]
                 /\ call' = [call EXCEPT ![c].pc = "ready", ![c].gzipped = b,
                                         ![c].body = Encrypt(Gzip(json), agent["CryptoKey"]),
                                         ![c].hash = HMAC(agent["Key"], json)]
    /\ UNCHANGED <<conf, req, reply, input, applied>>

(* An attempt over HTTP, or the only one over gRPC, which has no SendMetric. *)
Attempt(c) ==
    /\ \/ call[c].pc = "ready"
       \/ Up /\ OverGRPC /\ call[c].pc = "idle" /\ call[c].path = "/updates"
    /\ Cardinality({r \in Request : req[r].pc # "none"}) < MaxRequests
    /\ call' = [call EXCEPT ![c].pc = "waiting", ![c].tries = @ + 1]
    /\ req' = [req EXCEPT ![<<c, call[c].tries + 1>>].pc = "transit"]
    /\ UNCHANGED <<conf, text, reply, input, pool, applied>>

(* SendBatch returns and its deferred calls put the buffers back. *)
Return(c, status) ==
    /\ call' = [call EXCEPT ![c].pc = "done", ![c].status = status]
    /\ LET buffers == {call[c].json, call[c].gzipped}
       IN  Put("agent", buffers) /\ text' = Reset(text, buffers)
    /\ UNCHANGED <<conf, req, reply, input, applied>>

(* No answer in time, or none at all. *)
Retry(c) ==
    /\ call[c].pc = "waiting"
    /\ ~OverGRPC /\ call[c].tries < Attempts
    /\ call' = [call EXCEPT ![c].pc = "ready"]
    /\ UNCHANGED <<conf, req, text, reply, input, pool, applied>>

GiveUp(c) ==
    /\ call[c].pc = "waiting"
    /\ OverGRPC \/ call[c].tries = Attempts
    /\ Return(c, 0)

Answered(c) ==
    LET r == <<c, call[c].tries>>
    IN  /\ call[c].pc = "waiting"
        /\ req[r].pc = "answered"
        /\ Return(c, req[r].status)

-----------------------------------------------------------------------------
(* The network.  The transport reads the body when it sends it, which may  *)
(* be after the call has returned.                                         *)

(* Mutant of BodyOf: the body is the pooled buffer itself. *)
BodyInPool(c) == IF agent["CryptoKey"] = Empty THEN text[call[c].gzipped] ELSE call[c].body

BodyOf(c) == call[c].body

Transmit(r) ==
    /\ req[r].pc = "transit" /\ ~OverGRPC
    /\ \E whole \in BOOLEAN :
          req' = [req EXCEPT ![r].pc = "received", ![r].whole = whole,
                             ![r].body = IF whole THEN BodyOf(r[1]) ELSE Cut(BodyOf(r[1]))]
    /\ UNCHANGED <<conf, call, text, reply, input, pool, applied>>

-----------------------------------------------------------------------------
(* The server.                                                             *)

Trusted == server["TrustedSubnet"] = Empty \/ localIP = Inside

(* The interceptor checks the subnet; there is no key over gRPC. *)
ServeGRPC(r) ==
    /\ req[r].pc = "transit" /\ OverGRPC
    /\ server["GRPCAddress"] = agent["GRPCAddress"]
    /\ req' = [req EXCEPT ![r].pc = "answered", ![r].body = JSON(r[1]),
                          ![r].status = IF Trusted THEN 200 ELSE 403]
    /\ applied' = IF Trusted THEN applied \cup {<<r, JSON(r[1])>>} ELSE applied
    /\ UNCHANGED <<conf, call, text, reply, input, pool>>

(* http.Error writes into the buffer. *)
Refuse(r, b, status) ==
    /\ req' = [req EXCEPT ![r].pc = "handled", ![r].buffer = b, ![r].reader = None,
                          ![r].status = status]
    /\ reply' = [reply EXCEPT ![b] = Error]

(* CompressAndSign, or CompressAccepted without a key, then the check of   *)
(* the subnet.                                                             *)
Enter(r) ==
    /\ req[r].pc = "received"
    /\ \E b \in Buffer :
          /\ MayGet("server", b) /\ Get("server", b)
          /\ \/ ~Trusted /\ Refuse(r, b, 403)
             \/ /\ Trusted
                /\ req' = [req EXCEPT ![r].pc = "entered", ![r].buffer = b]
                /\ reply' = [reply EXCEPT ![b] = Blank]
    /\ UNCHANGED <<conf, call, text, input, applied>>

Verifies(r) == server["Key"] # Empty /\ call[r[1]].path = "/updates"

(* Mutant of Opened: Decompress stands before Decrypt. *)
OpenedFirst(r) ==
    LET x == req[r].body
    IN  IF IsGzip(x) THEN Gzip(Decrypt(Gunzip(x), server["CryptoKey"])) ELSE x

(* What the reader is set on. *)
Opened(r) == Decrypt(req[r].body, server["CryptoKey"])

(* Decrypt and Decompress. *)
Open(r) ==
    /\ req[r].pc = "entered"
    /\ IsGzip(Opened(r))
    /\ \E z \in Reader :
          /\ MayGet("reader", z) /\ Get("reader", z)
          /\ input' = [input EXCEPT ![z] = Opened(r)]
          /\ req' = [req EXCEPT ![r].pc = IF Verifies(r) THEN "verify" ELSE "route",
                                ![r].reader = z]
    /\ UNCHANGED <<conf, call, text, reply, applied>>

(* No gzip: a reader that came from the pool is dropped. *)
OpenFails(r) ==
    /\ req[r].pc = "entered"
    /\ ~IsGzip(Opened(r))
    /\ \E z \in pool.reader.idle \cup {None} :
          pool' = [pool EXCEPT !.reader.idle = @ \ {z}]
    /\ Refuse(r, req[r].buffer, 400)
    /\ UNCHANGED <<conf, call, text, input, applied>>

(* VerifyHash reads the body to its end and goes on with a copy; the       *)
(* reader is not put back.                                                 *)
Verify(r) ==
    LET hash == call[r[1]].hash
        data == Gunzip(input[req[r].reader])
    IN  /\ req[r].pc = "verify"
        /\ \/ /\ hash # NoHash /\ data # Tail
              /\ hash = HMAC(server["Key"], data)
              /\ req' = [req EXCEPT ![r].pc = "route", ![r].body = data, ![r].reader = None]
              /\ UNCHANGED reply
           \/ /\ hash = NoHash \/ data = Tail \/ hash # HMAC(server["Key"], data)
              /\ Refuse(r, req[r].buffer, 400)
        /\ UNCHANGED <<conf, call, text, input, pool, applied>>

(* UpdateBatchJSON, which closes the body and so puts the reader back, and *)
(* UpdateMetricJSON, which does not.                                       *)
Handle(r) ==
    LET data == IF req[r].reader = None THEN req[r].body ELSE Gunzip(input[req[r].reader])
    IN  /\ req[r].pc = "route"
        /\ \/ /\ IsJSON(data)
              /\ applied' = applied \cup {<<r, data>>}
              /\ reply' = [reply EXCEPT ![req[r].buffer] = data]
              /\ req' = [req EXCEPT ![r].pc = "handled", ![r].status = 200, ![r].reader = None]
           \/ /\ ~IsJSON(data)
              /\ Refuse(r, req[r].buffer, 400)
              /\ UNCHANGED applied
        /\ IF call[r[1]].path = "/updates"
           THEN Put("reader", {req[r].reader}) /\ input' = Reset(input, {req[r].reader})
           ELSE UNCHANGED <<pool, input>>
        /\ UNCHANGED <<conf, call, text>>

(* The answer is signed, compressed (which the client undoes) and sent. *)
Reply(r) ==
    LET b == req[r].buffer
    IN  /\ req[r].pc = "handled"
        /\ req' = [req EXCEPT ![r].pc = "answered", ![r].body = reply[b], ![r].buffer = None,
                              ![r].sum = HMAC(server["Key"], reply[b])]
        /\ Put("server", {b}) /\ reply' = Reset(reply, {b})
        /\ UNCHANGED <<conf, call, text, input, applied>>

Next ==
    \/ Deploy
    \/ \E c \in Call : \/ Encode(c) \/ EncodeFails(c) \/ Compress(c) \/ Attempt(c) \/ Retry(c) \/ GiveUp(c)
                       \/ Answered(c)
    \/ \E r \in Request : \/ Transmit(r) \/ ServeGRPC(r) \/ Enter(r) \/ Open(r) \/ OpenFails(r)
                          \/ Verify(r) \/ Handle(r) \/ Reply(r)

Spec == Init /\ [][Next]_vars

-----------------------------------------------------------------------------
(* Which agents the server understands, and trusts.  An agent without a    *)
(* public key is understood by every server; hashed: whether the hash of   *)
(* the request is looked at, by a server that has a key.                   *)
Compatible(hashed) ==
    /\ Trusted
    /\ ~OverGRPC =>
         /\ agent["CryptoKey"] \in {Empty, server["CryptoKey"]}
         /\ hashed /\ server["Key"] # Empty => agent["Key"] = server["Key"]

Answers == {r \in Request : req[r].pc = "answered" /\ req[r].whole}

(* A report that came through whole is answered 200 if and only if it is   *)
(* applied, and this follows the configurations of the two processes: it   *)
(* is answered 200 if they fit in all, and only if they fit in what is     *)
(* checked on its path.  Encryption is outside compression, the hash over  *)
(* the text inside both, the refusals before the handler.  Whether         *)
(* /update, too, has its hash checked is left to HashIsChecked.            *)
(* (internal/server/server.go:36, internal/agent/client.go:224)            *)
AnswerFollowsDeployment ==
    \A r \in Answers :
        /\ req[r].status = 200 <=> <<r, JSON(r[1])>> \in applied
        /\ Compatible(TRUE) => req[r].status = 200
        /\ req[r].status = 200 => Compatible(call[r[1]].path = "/updates")

(* A server that has a key accepts a report over HTTP, on /update or       *)
(* /updates, only under the hash of its text.  The code does not keep      *)
(* this: see the findings.  (internal/middleware/hash.go:21)               *)
HashIsChecked ==
    \A r \in Answers :
        ~OverGRPC /\ server["Key"] # Empty /\ req[r].status = 200
        => call[r[1]].hash = HMAC(server["Key"], JSON(r[1]))

(* Whatever buffers and readers the calls and the requests share, however  *)
(* late a body is sent: what is applied is what its own call has encoded,  *)
(* and an answer is the one its own handler gave, under the signature of   *)
(* its own text.  (internal/pool/pool.go:20, internal/agent/client.go:238, *)
(* internal/middleware/gzip.go:144)                                        *)
TextsAreOwn ==
    /\ \A e \in applied : e[2] = JSON(e[1][1])
    /\ \A r \in Request :
          req[r].pc = "answered" =>
            /\ (req[r].status = 200 => req[r].body = JSON(r[1]))
            /\ ~OverGRPC => req[r].sum = HMAC(server["Key"], req[r].body)

(* Both processes read from their sources what their documentation says.   *)
(* (internal/config/server.go:51, internal/config/agent.go:41)             *)
ConfigAsDocumented ==
    source # None => AgentAsDocumented(source.agent) /\ ServerAsDocumented(source.server)

=============================================================================
