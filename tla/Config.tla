------------------------------- MODULE Config -------------------------------
(***************************************************************************)
(* How the agent and the server read their configuration                   *)
(* (internal/config): each option has a default and up to three sources, a *)
(* flag, the JSON file and an environment variable.  Pure operators; the   *)
(* module Wire starts both processes with them.                            *)
(*                                                                         *)
(* Sources are a record of three functions over the options, env, flag and *)
(* file, in which Unset means that the source does not mention the option. *)
(* A value is a model value, a number or a Boolean.  Flags are seconds, as *)
(* are environment variables; durations of the JSON file are milliseconds. *)
(* Seconds whose nanoseconds overflow int64 are left out.                  *)
(***************************************************************************)
EXTENDS Integers

CONSTANTS
    Unset,      \* not mentioned
    Empty,      \* the empty string
    Malformed,  \* a text that is no number, no duration or no Boolean
    Localhost,  \* the default address, localhost:8080
    URL         \* an address that begins with http://

(* What the functions answer when they return an error, and what stands    *)
(* for a JSON file that cannot be read or parsed.                          *)
CONSTANTS Refused, Unreadable

ASSUME ConfigAssumption ==
    /\ Unset \notin {Empty, Localhost} \cup Int \cup BOOLEAN
    /\ Empty \notin Int /\ Malformed \notin Int

(* The options that are numbers.  Each source says one, says nothing, or,  *)
(* where it is a text, says what is none; a flag that is none stops the    *)
(* process when it is parsed, before this.  RateLimit is no field of the   *)
(* agent's JSON file.                                                      *)
NumberOption == {"StoreInterval", "ReportInterval", "PollInterval", "RateLimit"}

IsTyped(src, opts) ==
    \A o \in NumberOption \cap opts :
        /\ src.flag[o] \in Int \cup {Unset}
        /\ src.env[o] \in Int \cup {Unset, Empty, Malformed}
        /\ \/ src.file = Unreadable
           \/ src.file[o] \in IF o = "RateLimit" THEN {Unset}
                             ELSE Int \cup {Unset, Empty, Malformed}

-----------------------------------------------------------------------------
(* One option.                                                             *)

(* The flag package leaves the default where the flag is not given. *)
Flagged(src, o, default) == IF src.flag[o] = Unset THEN default ELSE src.flag[o]

(* The file speaks for o: it says something, and no flag was given. *)
FileSpeaks(src, o) == src.flag[o] = Unset /\ src.file[o] \notin {Unset, Empty}

(* Mutant of Layered: a flag that is given does not silence the file. *)
LayeredFileFirst(src, o, default) ==
    IF src.env[o] # Unset THEN src.env[o]
    ELSE IF src.file[o] \notin {Unset, Empty} THEN src.file[o]
    ELSE Flagged(src, o, default)

(* flag over default, then the file, then the environment, whose empty     *)
(* string counts as a value.                                               *)
Layered(src, o, default) ==
    IF src.env[o] # Unset THEN src.env[o]
    ELSE IF FileSpeaks(src, o) THEN src.file[o]
    ELSE Flagged(src, o, default)

(* Division that rounds toward zero, as int(d.Seconds()) does. *)
WholeSeconds(ms) == IF ms >= 0 THEN ms \div 1000 ELSE -((-ms) \div 1000)

-----------------------------------------------------------------------------
(* The server.                                                             *)

(* Key, AuditFile and AuditURL are no fields of the JSON file. *)
ServerOption ==
    {"ListenAddress", "StoreInterval", "FileStoragePath", "Restore", "DatabaseDSN", "Key",
     "CryptoKey", "AuditFile", "AuditURL", "TrustedSubnet", "GRPCAddress"}

ServerDefault == [o \in ServerOption |->
    CASE o = "ListenAddress" -> Localhost
      [] o = "StoreInterval" -> 300
      [] o = "Restore"       -> TRUE
      [] OTHER               -> Empty]

(* In seconds.  A negative value is refused in the environment only. *)
StoreInterval(src) ==
    IF src.env["StoreInterval"] = Unset /\ FileSpeaks(src, "StoreInterval")
    THEN WholeSeconds(src.file["StoreInterval"])
    ELSE Layered(src, "StoreInterval", 300)

ServerRefuses(src) ==
    \/ src.file = Unreadable
    \/ FileSpeaks(src, "StoreInterval") /\ src.file["StoreInterval"] = Malformed
    \/ \E o \in {"ListenAddress", "FileStoragePath", "Restore", "StoreInterval"} :
          src.env[o] \in {Empty, Malformed}
    \/ src.env["StoreInterval"] # Unset /\ src.env["StoreInterval"] < 0
    \/ Layered(src, "ListenAddress", Localhost) = URL

NewServerConfig(src) ==
    IF ServerRefuses(src) THEN Refused
    ELSE [o \in ServerOption |-> IF o = "StoreInterval" THEN StoreInterval(src)
                                 ELSE Layered(src, o, ServerDefault[o])]

-----------------------------------------------------------------------------
(* The agent.                                                              *)

(* RateLimit and Key are no fields of the JSON file. *)
AgentOption ==
    {"ServerAddress", "ReportInterval", "PollInterval", "Key", "RateLimit", "CryptoKey",
     "GRPCAddress"}

AgentDefault == [o \in AgentOption |->
    CASE o = "ServerAddress"  -> Localhost
      [] o = "ReportInterval" -> 10
      [] o = "PollInterval"   -> 2
      [] o = "RateLimit"      -> 0
      [] OTHER                -> Empty]

(* In milliseconds: the agent keeps what the file says.  Any number will   *)
(* do, although a ticker takes none that is not positive.                  *)
Interval(src, o) ==
    IF src.env[o] = Unset /\ FileSpeaks(src, o) THEN src.file[o]
    ELSE 1000 * Layered(src, o, AgentDefault[o])

(* A bad value of RATE_LIMIT is reported and ignored; what is then not     *)
(* positive becomes 1, so that the default 0 does, too.                    *)
RateLimit(src) ==
    LET given == src.env["RateLimit"]
        limit == IF given \in {Unset, Empty, Malformed} THEN Flagged(src, "RateLimit", 0)
                 ELSE IF given <= 0 THEN Flagged(src, "RateLimit", 0) ELSE given
    IN  IF limit <= 0 THEN 1 ELSE limit

AgentRefuses(src) ==
    \/ src.file = Unreadable
    \/ \E o \in {"ReportInterval", "PollInterval"} :
          \/ FileSpeaks(src, o) /\ src.file[o] = Malformed
          \/ src.env[o] \in {Empty, Malformed}

(* A server address without a scheme is given one; http:// before an       *)
(* address is not modelled, an agent's address being only dialled.         *)
NewAgentConfig(src) ==
    IF AgentRefuses(src) THEN Refused
    ELSE [o \in AgentOption |-> CASE o \in {"ReportInterval", "PollInterval"} -> Interval(src, o)
                                  [] o = "RateLimit" -> RateLimit(src)
                                  [] OTHER -> Layered(src, o, AgentDefault[o])]

-----------------------------------------------------------------------------
(* What the documentation says, to compare with: of the environment, the   *)
(* flag, the file and the default, in this order, the first that mentions  *)
(* the option decides.                                                     *)
Sources(src, o, default) ==
    <<src.env[o], src.flag[o], IF src.file[o] = Empty THEN Unset ELSE src.file[o], default>>

First(said, k) == said[k] # Unset /\ \A j \in 1 .. k - 1 : said[j] = Unset

Decides(src, o, default, v) ==
    LET said == Sources(src, o, default)
    IN  \E k \in 1 .. 4 : First(said, k) /\ v = said[k]

(* What the number of each of these sources is worth, in milliseconds. *)
Unit == <<1000, 1000, 1, 1000>>

(* v is the number of whole seconds in ms milliseconds, of the same sign. *)
IsWholePart(v, ms) ==
    \/ 0 <= v /\ 1000 * v <= ms /\ ms < 1000 * (v + 1)
    \/ v <= 0 /\ 1000 * (v - 1) < ms /\ ms <= 1000 * v

(* Every option of an agent that starts is what its first source says, a   *)
(* duration to the millisecond in the unit of that source.  The limit is   *)
(* where it is positive: that 0 means no limit, and that a bad RATE_LIMIT  *)
(* is an error (agent.go:34, 43), is not so in the code and is left out.   *)
(* It does not start with an interval in the environment that is no        *)
(* number.                                                                 *)
AgentAsDocumented(src) ==
    LET cfg     == NewAgentConfig(src)
        said(o) == Sources(src, o, AgentDefault[o])
        Ticker  == {"ReportInterval", "PollInterval"}
    IN  /\ cfg # Refused =>
             /\ \A o \in AgentOption \ ({"RateLimit"} \cup Ticker) :
                   Decides(src, o, AgentDefault[o], cfg[o])
             /\ \A o \in Ticker, k \in 1 .. 4 :
                   First(said(o), k) => cfg[o] = Unit[k] * said(o)[k]
             /\ \A k \in 1 .. 4 :
                   First(said("RateLimit"), k) /\ said("RateLimit")[k] \in Nat \ {0}
                   => cfg["RateLimit"] = said("RateLimit")[k]
        /\ \A o \in Ticker : src.env[o] \notin Int \cup {Unset} => cfg = Refused

(* Every option of a server that starts is what its first source says, the *)
(* seconds of StoreInterval those of that source without their fraction:   *)
(* it writes synchronously only where that source says 0, or less than a   *)
(* second in the file, and never saves, the interval being negative, only  *)
(* where a flag or the file says so.  It does not start with an interval   *)
(* in the environment that is negative or no number, or with a RESTORE     *)
(* that is no Boolean.                                                     *)
ServerAsDocumented(src) ==
    LET cfg  == NewServerConfig(src)
        said == Sources(src, "StoreInterval", 300)
    IN  /\ cfg # Refused =>
             /\ \A o \in ServerOption \ {"StoreInterval"} :
                   Decides(src, o, ServerDefault[o], cfg[o])
             /\ \A k \in 1 .. 4 :
                   First(said, k) => IsWholePart(cfg["StoreInterval"], Unit[k] * said[k])
        /\ src.env["StoreInterval"] \notin Nat \cup {Unset} => cfg = Refused
        /\ src.env["Restore"] \in {Empty, Malformed} => cfg = Refused

=============================================================================
