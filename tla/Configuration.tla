---------------------------- MODULE Configuration -----------------------------
(***************************************************************************)
(* The configuration a start loads from the environment of its container   *)
(* (config/config.go).  A setting that is unset, blank or, where a number  *)
(* or a duration is meant, not a positive one is replaced by its default;  *)
(* what has been put together is then validated.                           *)
(*                                                                         *)
(* Modelled are the settings that decide whether a server may run.  The    *)
(* name of the application and the port have a default and so are never    *)
(* blank when they are validated; addresses, passwords and the list of     *)
(* proxies are taken as they are.  A secret is its length.  Durations are  *)
(* in seconds.                                                             *)
(***************************************************************************)
EXTENDS Integers

CONSTANTS
    MaxRequestLimit,    \* 100000
    DefaultTokenTTL     \* 28800, eight hours

ASSUME ConfigurationAssumption ==
    /\ MaxRequestLimit \in Nat
    /\ DefaultTokenTTL \in Nat \ {0}

Drivers == {"postgres", "mysql", "sqlite"}

Timeouts == {"startup", "shutdown", "readHeader", "read", "write", "idle"}

DefaultTimeout == [startup |-> 35, shutdown |-> 10, readHeader |-> 5,
                   read |-> 15, write |-> 20, idle |-> 60]

(***************************************************************************)
(* The environment.  An unset text is "", an unset secret has length 0; a  *)
(* number that is unset or does not parse is treated as one that is not    *)
(* positive, and is 0.                                                     *)
(***************************************************************************)
Environment ==
    [driver   : Drivers \cup {"", "unsupported"},
     secret   : Nat,
     limit    : Int,
     tokenTTL : Int,
     timeouts : [Timeouts -> Int]]

Env(value, fallback) == IF value = "" THEN fallback ELSE value

IntEnv(value, fallback) == IF value <= 0 THEN fallback ELSE value

\* Mutant of DurationEnv: a duration that parses is taken.
DurationEnvParsed(value, fallback) == IF value = 0 THEN fallback ELSE value

DurationEnv(value, fallback) == IF value <= 0 THEN fallback ELSE value

\* 180 requests a minute.  The secret that stands in for an unset one has 26
\* characters.
Configured(e) ==
    [driver   |-> Env(e.driver, "postgres"),
     secret   |-> IF e.secret = 0 THEN 26 ELSE e.secret,
     limit    |-> IntEnv(e.limit, 180),
     tokenTTL |-> DurationEnv(e.tokenTTL, DefaultTokenTTL),
     timeouts |-> [n \in Timeouts |-> DurationEnv(e.timeouts[n], DefaultTimeout[n])]]

Validates(cfg) ==
    /\ cfg.driver \in Drivers
    /\ cfg.secret >= 16
    /\ cfg.limit >= 10 /\ cfg.limit <= MaxRequestLimit
    /\ \A n \in Timeouts : cfg.timeouts[n] > 0

\* Load returns a configuration and no error.
Loads(e) == Validates(Configured(e))
===============================================================================
