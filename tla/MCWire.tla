------------------------------- MODULE MCWire -------------------------------
(* Sources of the configurations for TLC.  An option at a time is varied    *)
(* over all of its sources, the keys and the subnet together over one.      *)
EXTENDS Wire, TLC

CONSTANTS k1, k2, p1, p2, g1, cidr

Options(opts, f) == [o \in opts |-> IF o \in DOMAIN f THEN f[o] ELSE Unset]

Sources3(opts, env, flag, file) ==
    [env |-> Options(opts, env), flag |-> Options(opts, flag), file |-> Options(opts, file)]

Layers(opts, o, E, F, J) ==
    {Sources3(opts, o :> e, o :> f, o :> j) : e \in E, f \in F, j \in J}

Flags(opts, f) == Sources3(opts, <<>>, f, <<>>)

A(k, p) == Flags(AgentOption, "Key" :> k @@ "CryptoKey" :> p)
S(k, p, t) == Flags(ServerOption, "Key" :> k @@ "CryptoKey" :> p @@ "TrustedSubnet" :> t)
Pairs(As, Ss, IPs) == {[agent |-> a, server |-> s, ip |-> i] : a \in As, s \in Ss, i \in IPs}

(* What a process starts with that does not start: its JSON file is none. *)
Fails(opts) == [Flags(opts, <<>>) EXCEPT !.file = Unreadable]

Keys ==
    Pairs({A(k, Unset) : k \in {Unset, k1, k2}}, {S(k, Unset, Unset) : k \in {Unset, k1}}, {Outside})
CryptoKeys ==
    Pairs({A(k1, p) : p \in {Unset, p1}}, {S(k1, p, Unset) : p \in {Unset, p1, p2}}, {Outside})
Subnets == Pairs({A(k1, p1)}, {S(k1, p1, cidr)}, {Inside, Outside})

(* Each option over its sources; the other process does not start, so these *)
(* pairs read their configuration and do no more.                           *)
Sec == {Unset, Malformed, -1, 0, 5}
AgentLayers ==
    LET L(o, E, F, J) == Layers(AgentOption, o, E, F, J)
    IN  UNION {L("Key", {Unset, Empty, k1}, {Unset, k2}, {Unset}),
               L("CryptoKey", {Unset, Empty, p1}, {Unset, Empty, p2}, {Unset, Empty, Broken}),
               L("GRPCAddress", {Unset, Empty, g1}, {Unset, g1}, {Unset, g1}),
               L("ServerAddress", {Unset, URL}, {Unset, Localhost}, {Unset, URL}),
               L("RateLimit", Sec, {Unset, -1, 0, 2}, {Unset}),
               L("PollInterval", Sec, {Unset, 0, 1}, {Unset, Malformed, 500}),
               L("ReportInterval", {Unset, 3}, {Unset, 7}, {Unset, 1500})}

ServerLayers ==
    LET L(o, E, F, J) == Layers(ServerOption, o, E, F, J)
    IN  UNION {L("Key", {Unset, Empty, k1}, {Unset, k2}, {Unset}),
               L("CryptoKey", {Unset, Empty, p1}, {Unset, Empty, p2}, {Unset, Empty, Broken}),
               L("TrustedSubnet", {Unset, Empty, cidr}, {Unset, Broken}, {Unset, cidr}),
               L("GRPCAddress", {Unset, Empty, g1}, {Unset, g1}, {Unset, g1}),
               L("ListenAddress", {Unset, Empty, URL}, {Unset, Localhost}, {Unset, URL}),
               L("FileStoragePath", {Unset, Empty, p1}, {Unset, p2}, {Unset, p1}),
               L("Restore", {Unset, Empty, Malformed, FALSE}, {Unset, TRUE}, {Unset, FALSE}),
               L("StoreInterval", Sec, {Unset, -1, 0, 7}, {Unset, Empty, Malformed, 500, -1500})}

(* Both over gRPC; the agent has keys that are then not used. *)
GRPC ==
    Pairs({Flags(AgentOption, "GRPCAddress" :> g1 @@ "Key" :> k1 @@ "CryptoKey" :> Broken)},
          {Flags(ServerOption, "GRPCAddress" :> g1 @@ "Key" :> k2 @@ "TrustedSubnet" :> t)
              : t \in {Unset, cidr}},
          {Inside, Outside})

MCSource ==
    UNION {Keys, CryptoKeys, Subnets, GRPC, Pairs(AgentLayers, {Fails(ServerOption)}, {Outside}),
           Pairs({Fails(AgentOption)}, ServerLayers, {Outside})}

Symmetry == Permutations(Buffer) \cup Permutations(Reader) \cup Permutations(Call)
=============================================================================
