--------------------------- MODULE ServerLifecycle ---------------------------
(***************************************************************************)
(* The life of the server process (cmd/server/main.go) and the demo data   *)
(* it inserts when it starts (database/database.go).  A start loads its    *)
(* configuration, connects, migrates, seeds the tables one statement after *)
(* the other, pings Redis and serves; an error anywhere ends the process,  *)
(* and its container starts it again (docker-compose.yml).  While it       *)
(* serves, clients create records and administrators delete them; a delete *)
(* keeps the row, which queries skip and the unique index on the code does *)
(* not.                                                                    *)
(***************************************************************************)
EXTENDS Configuration, Sequences

CONSTANTS
    Codes,      \* the codes of the records of each table
    Demo,       \* the codes of the demo records
    Environments,   \* the environments the container may be given
    MaxFaults   \* bound: how often the process is stopped or meets an error

ASSUME LifecycleAssumption ==
    /\ Demo \subseteq Codes
    /\ Demo # {}
    /\ Environments \subseteq Environment
    /\ MaxFaults \in Nat

\* The tables in the order Seed fills them.  No endpoint changes the users.
SeedOrder == <<"users", "zones", "readings", "plans", "executions">>
Tables    == {SeedOrder[i] : i \in DOMAIN SeedOrder}

VARIABLES
    rows,       \* table -> code -> "absent", "live" or "deleted"
    phase,      \* "down", "starting" or "serving"
    seeded,     \* how many tables this start has seeded
    faults,     \* how often the process was stopped or met an error
    environment \* the environment of the container

vars == <<rows, phase, seeded, faults, environment>>

Init ==
    /\ rows = [t \in Tables |-> [c \in Codes |-> "absent"]]
    /\ phase = "down"
    /\ seeded = 0
    /\ faults = 0
    /\ environment \in Environments

Exit == phase' = "down" /\ seeded' = 0

\* The container starts the process; its configuration loads, the database
\* answers within its twenty attempts, and the migration changes no row.  When
\* the configuration does not load, the process ends before it has connected,
\* and so stays down.
Start ==
    /\ phase = "down"
    /\ Loads(environment)
    /\ phase' = "starting"
    /\ UNCHANGED <<rows, seeded, faults, environment>>

\* The table the start is about to seed.
Current == SeedOrder[seeded + 1]

Seeding == phase = "starting" /\ seeded < Len(SeedOrder)

\* Mutant of NeedsSeed: a demo record is missing.
NeedsSeedDemoMissing(t) == \E c \in Demo : rows[t][c] # "live"

\* Count skips deleted rows.
NeedsSeed(t) == \A c \in Codes : rows[t][c] # "live"

\* Mutant of Insertable: the unique index covers live rows only.
InsertableOverDeleted(t) == \A c \in Demo : rows[t][c] # "live"

\* The unique index covers deleted rows too.
Insertable(t) == \A c \in Demo : rows[t][c] = "absent"

\* One INSERT for all demo records of the table.
Inserted(t) ==
    [rows EXCEPT ![t] = [c \in Codes |-> IF c \in Demo THEN "live" ELSE @[c]]]

SeedTable ==
    /\ Seeding
    /\ NeedsSeed(Current) => Insertable(Current)
    /\ rows' = IF NeedsSeed(Current) THEN Inserted(Current) ELSE rows
    /\ seeded' = seeded + 1
    /\ UNCHANGED <<phase, faults, environment>>

\* Mutant of SeedRefused: the error is not returned, and the start hangs.
SeedRefusedHangs ==
    /\ Seeding
    /\ NeedsSeed(Current)
    /\ ~Insertable(Current)
    /\ UNCHANGED vars

SeedRefused ==
    /\ Seeding
    /\ NeedsSeed(Current)
    /\ ~Insertable(Current)
    /\ Exit
    /\ UNCHANGED <<rows, faults, environment>>

\* Mutant of SeedFails: the error is logged and the start goes on.
SeedFailsSilently ==
    /\ faults < MaxFaults
    /\ Seeding
    /\ seeded' = seeded + 1
    /\ faults' = faults + 1
    /\ UNCHANGED <<rows, phase, environment>>

\* Count or INSERT fails, or the start's deadline passes; the INSERT may have
\* been committed.
SeedFails ==
    /\ faults < MaxFaults
    /\ Seeding
    /\ rows' \in {rows} \cup
          (IF NeedsSeed(Current) /\ Insertable(Current) THEN {Inserted(Current)} ELSE {})
    /\ Exit
    /\ faults' = faults + 1
    /\ UNCHANGED environment

\* Mutant of Serve: the server listens while the tables are being seeded.
ServeEarly ==
    /\ phase = "starting"
    /\ phase' = "serving"
    /\ UNCHANGED <<rows, seeded, faults, environment>>

\* Redis answers the ping, or none is configured.
Serve ==
    /\ phase = "starting"
    /\ seeded = Len(SeedOrder)
    /\ phase' = "serving"
    /\ UNCHANGED <<rows, seeded, faults, environment>>

\* The database or Redis does not answer, the process is told to stop or dies.
Stop ==
    /\ faults < MaxFaults
    /\ phase # "down"
    /\ Exit
    /\ faults' = faults + 1
    /\ UNCHANGED <<rows, environment>>

\* The container is made anew with another environment.
Deploy(e) ==
    /\ faults < MaxFaults
    /\ environment' = e
    /\ Exit
    /\ faults' = faults + 1
    /\ UNCHANGED rows

Create(t, c) ==
    /\ phase = "serving"
    /\ t # "users"
    /\ rows[t][c] = "absent"
    /\ rows' = [rows EXCEPT ![t][c] = "live"]
    /\ UNCHANGED <<phase, seeded, faults, environment>>

Delete(t, c) ==
    /\ phase = "serving"
    /\ t # "users"
    /\ rows[t][c] = "live"
    /\ rows' = [rows EXCEPT ![t][c] = "deleted"]
    /\ UNCHANGED <<phase, seeded, faults, environment>>

StartUp == Start \/ SeedTable \/ SeedRefused \/ Serve

Next ==
    \/ StartUp \/ SeedFails \/ Stop
    \/ \E e \in Environments : Deploy(e)
    \/ \E t \in Tables, c \in Codes : Create(t, c) \/ Delete(t, c)

Spec == Init /\ [][Next]_vars

\* The container restarts a process that exited, and a start runs on.
FairSpec == Spec /\ WF_vars(StartUp)

------------------------------------------------------------------------------
\* Every variable holds a value of its type, and a process serves when it
\* has been through all tables.
TypeOK ==
    /\ rows \in [Tables -> [Codes -> {"absent", "live", "deleted"}]]
    /\ phase \in {"down", "starting", "serving"}
    /\ seeded \in 0..Len(SeedOrder)
    /\ faults \in 0..MaxFaults
    /\ environment \in Environments
    /\ phase = "down" => seeded = 0
    /\ phase = "serving" => seeded = Len(SeedOrder)

\* A server that serves has accounts to log in with and has had records in
\* every table, however often its start was interrupted before (Seed, lines
\* 87-125: each table is counted by itself and every error ends the start).
ServesSeeded ==
    phase = "serving" => \A t \in Tables : \E c \in Codes : rows[t][c] # "absent"

WithinLimits(cfg) ==
    /\ cfg.driver \in Drivers
    /\ cfg.limit \in 10..MaxRequestLimit
    /\ cfg.secret >= 16
    /\ cfg.tokenTTL > 0
    /\ \A n \in Timeouts : cfg.timeouts[n] > 0

\* A server that serves limits its clients to between 10 and MaxRequestLimit
\* requests a minute, has a secret of 16 characters or more, signs tokens that
\* live, and has a positive deadline for everything, whatever the environment
\* says (config.go:84-112; for the life of tokens, which is not validated, the
\* default of :133-143).
ServesWithinLimits ==
    phase = "serving" => WithinLimits(Configured(environment))

\* A record an administrator deleted does not come back, with a restart
\* neither (model/base.go:13, the unique index; :20, the soft delete).
DeletedForGood ==
    [][\A t \in Tables, c \in Codes :
          rows[t][c] = "deleted" => rows'[t][c] = "deleted"]_vars

\* With finitely many faults, a server whose tables all have a live record
\* or no demo record serves again, unless it is given an environment that
\* does not load.
ComesBack ==
    /\ phase = "down"
    /\ \A t \in Tables : \/ \E c \in Codes : rows[t][c] = "live"
                        \/ \A c \in Demo : rows[t][c] = "absent"
    ~> phase = "serving" \/ ~Loads(environment)

\* A start never hangs: unless the process serves again and again, or is down
\* with a configuration that does not load, it starts or gets on with its
\* start again and again (main.go:19-30, every error ends the process).
StartsRunOn ==
    \/ []<>(phase = "serving" \/ (phase = "down" /\ ~Loads(environment)))
    \/ []<><<StartUp>>_vars

\* With finitely many faults, a server that is down and whose configuration
\* loads serves again (docker-compose.yml:43, the backend's "restart:
\* unless-stopped").
AlwaysComesBack == phase = "down" ~> phase = "serving" \/ ~Loads(environment)
==============================================================================
