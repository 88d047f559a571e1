------------------------ MODULE ServerLifecycle_proofs ------------------------
(***************************************************************************)
(* Proofs about ServerLifecycle.  What makes a server that serves have     *)
(* records everywhere is an invariant of the start: the tables counted as  *)
(* seeded have held a record, and no step takes a row away.                *)
(***************************************************************************)
EXTENDS ServerLifecycle, TLAPS

\* The tables counted as seeded have held a record.
SeededHaveRows ==
    \A i \in 1..seeded : \E c \in Codes : rows[SeedOrder[i]][c] # "absent"

SeedInv == TypeOK /\ SeededHaveRows

\* What the proofs use of the list of tables.
LEMMA FiveTables ==
    /\ Len(SeedOrder) = 5
    /\ DOMAIN SeedOrder = 1..5
    /\ \A i \in 1..5 : SeedOrder[i] \in Tables
    /\ \A t \in Tables : \E i \in 1..5 : t = SeedOrder[i]
<1>1. Len(SeedOrder) = 5 /\ DOMAIN SeedOrder = 1..5
  BY DEF SeedOrder
<1>2. QED
  BY <1>1 DEF Tables

LEMMA InsertedType ==
    ASSUME TypeOK, NEW t \in Tables
    PROVE  Inserted(t) \in [Tables -> [Codes -> {"absent", "live", "deleted"}]]
  BY DEF Inserted, TypeOK

\* The table a start is about to seed is one of the tables.
LEMMA CurrentIsTable ==
    ASSUME TypeOK, Seeding
    PROVE  Current \in Tables /\ seeded + 1 \in 1..5
<1>1. seeded + 1 \in 1..5
  BY FiveTables DEF TypeOK, Seeding
<1>2. QED
  BY <1>1, FiveTables DEF Current

LEMMA NextType == TypeOK /\ [Next]_vars => TypeOK'
<1> SUFFICES ASSUME TypeOK, [Next]_vars PROVE TypeOK'
  OBVIOUS
<1> USE FiveTables, LifecycleAssumption DEF TypeOK
<1>1. CASE Start
  BY <1>1 DEF Start
<1>2. CASE SeedTable
  <2>1. rows' \in [Tables -> [Codes -> {"absent", "live", "deleted"}]]
    BY <1>2, CurrentIsTable, InsertedType DEF SeedTable
  <2>2. QED
    BY <1>2, <2>1, CurrentIsTable DEF SeedTable, Seeding
<1>3. CASE SeedRefused
  BY <1>3 DEF SeedRefused, Exit
<1>4. CASE Serve
  BY <1>4 DEF Serve
<1>5. CASE SeedFails
  <2>1. rows' \in [Tables -> [Codes -> {"absent", "live", "deleted"}]]
    BY <1>5, CurrentIsTable, InsertedType DEF SeedFails
  <2>2. QED
    BY <1>5, <2>1 DEF SeedFails, Exit
<1>6. CASE Stop
  BY <1>6 DEF Stop, Exit
<1>7. ASSUME NEW t \in Tables, NEW c \in Codes, Create(t, c) PROVE TypeOK'
  BY <1>7 DEF Create
<1>8. ASSUME NEW t \in Tables, NEW c \in Codes, Delete(t, c) PROVE TypeOK'
  BY <1>8 DEF Delete
<1>9. CASE UNCHANGED vars
  BY <1>9 DEF vars
<1>10. ASSUME NEW e \in Environments, Deploy(e) PROVE TypeOK'
  BY <1>10 DEF Deploy, Exit
<1>11. QED
  BY <1>1, <1>2, <1>3, <1>4, <1>5, <1>6, <1>7, <1>8, <1>9, <1>10
     DEF Next, StartUp

\* Every reachable state is well typed, for any codes and number of faults.
THEOREM TypeCorrect == Spec => []TypeOK
<1>1. Init => TypeOK
  BY FiveTables, LifecycleAssumption DEF Init, TypeOK
<1>2. QED
  BY <1>1, NextType, PTL DEF Spec

\* No step makes a row vanish.
LEMMA RowsStay ==
    ASSUME TypeOK, [Next]_vars, NEW t \in Tables, NEW c \in Codes,
           rows[t][c] # "absent"
    PROVE  rows'[t][c] # "absent"
<1>1. ASSUME NEW s \in Tables PROVE Inserted(s)[t][c] # "absent"
  BY DEF Inserted, TypeOK
<1>2. CASE StartUp
  BY <1>1, <1>2, CurrentIsTable
     DEF StartUp, Start, SeedTable, SeedRefused, Serve
<1>3. CASE SeedFails
  BY <1>1, <1>3, CurrentIsTable DEF SeedFails
<1>4. CASE Stop \/ (\E e \in Environments : Deploy(e)) \/ UNCHANGED vars
  BY <1>4 DEF Stop, Deploy, vars
<1>5. ASSUME NEW s \in Tables, NEW d \in Codes, Create(s, d) \/ Delete(s, d)
      PROVE  rows'[t][c] # "absent"
  BY <1>5 DEF Create, Delete, TypeOK
<1>6. QED
  BY <1>2, <1>3, <1>4, <1>5 DEF Next

\* A table that has been seeded, or need not be, has a row.
LEMMA SeedTableFills ==
    ASSUME TypeOK, SeedTable
    PROVE  \E c \in Codes : rows'[Current][c] # "absent"
<1>1. Current \in Tables
  BY CurrentIsTable DEF SeedTable
<1>2. CASE NeedsSeed(Current)
  <2>1. PICK c \in Codes : c \in Demo
    BY LifecycleAssumption
  <2>2. rows'[Current][c] = "live"
    BY <1>1, <1>2, <2>1 DEF SeedTable, Inserted, TypeOK
  <2>3. QED
    BY <2>2
<1>3. CASE ~NeedsSeed(Current)
  BY <1>3 DEF SeedTable, NeedsSeed
<1>4. QED
  BY <1>2, <1>3

LEMMA NextSeeded == SeedInv /\ [Next]_vars => SeededHaveRows'
<1> SUFFICES ASSUME SeedInv, [Next]_vars,
                    NEW i \in 1..seeded'
             PROVE  \E c \in Codes : rows'[SeedOrder[i]][c] # "absent"
  BY DEF SeededHaveRows
<1>1. seeded \in 0..5 /\ seeded' \in 0..5
  BY NextType, FiveTables DEF SeedInv, TypeOK
<1>2. SeedOrder[i] \in Tables
  BY <1>1, FiveTables
<1>3. CASE i \in 1..seeded
  <2>1. PICK c \in Codes : rows[SeedOrder[i]][c] # "absent"
    BY <1>3 DEF SeedInv, SeededHaveRows
  <2>2. QED
    BY <1>2, <2>1, RowsStay DEF SeedInv
<1>4. CASE i \notin 1..seeded
  <2>1. seeded' > seeded
    BY <1>1, <1>4
  <2>2. SeedTable
    BY <1>1, <2>1 DEF Next, StartUp, Start, SeedRefused, Serve, SeedFails, Stop,
                      Deploy, Create, Delete, Exit, vars
  <2>3. i = seeded + 1
    BY <1>1, <1>4, <2>2 DEF SeedTable
  <2>4. QED
    BY <2>2, <2>3, SeedTableFills DEF SeedInv, Current
<1>5. QED
  BY <1>3, <1>4

\* A server that serves has had records in every table, for any demo records
\* and however often its start was interrupted.
THEOREM ServersAreSeeded == Spec => []ServesSeeded
<1>1. Init => SeedInv
  BY FiveTables, LifecycleAssumption DEF Init, TypeOK, SeedInv, SeededHaveRows
<1>2. SeedInv /\ [Next]_vars => SeedInv'
  BY NextType, NextSeeded DEF SeedInv
<1>3. SeedInv => ServesSeeded
  BY FiveTables DEF SeedInv, SeededHaveRows, ServesSeeded, TypeOK
<1>4. QED
  BY <1>1, <1>2, <1>3, PTL DEF Spec

\* A process that is not down has loaded its configuration.
LoadedInv == TypeOK /\ (phase # "down" => Loads(environment))

LEMMA NextLoaded == LoadedInv /\ [Next]_vars => LoadedInv'
<1> SUFFICES ASSUME LoadedInv, [Next]_vars PROVE phase' # "down" => Loads(environment)'
  BY NextType DEF LoadedInv
<1> USE DEF LoadedInv
<1>1. CASE StartUp
  BY <1>1 DEF StartUp, Start, SeedTable, SeedRefused, Serve, Exit, Seeding
<1>2. CASE SeedFails \/ Stop \/ \E e \in Environments : Deploy(e)
  BY <1>2 DEF SeedFails, Stop, Deploy, Exit
<1>3. ASSUME NEW t \in Tables, NEW c \in Codes, Create(t, c) \/ Delete(t, c)
      PROVE  phase' # "down" => Loads(environment)'
  BY <1>3 DEF Create, Delete
<1>4. CASE UNCHANGED vars
  BY <1>4 DEF vars
<1>5. QED
  BY <1>1, <1>2, <1>3, <1>4 DEF Next

LEMMA LoadedInvariant == Spec => []LoadedInv
<1>1. Init => LoadedInv
  BY FiveTables, LifecycleAssumption DEF Init, TypeOK, LoadedInv
<1> QED
  BY <1>1, NextLoaded, PTL DEF Spec

\* A default stands in for every duration that is not positive.
LEMMA DurationsArePositive ==
    ASSUME NEW v \in Int, NEW d \in Int, d > 0
    PROVE  DurationEnv(v, d) \in Int /\ DurationEnv(v, d) > 0
  BY DEF DurationEnv

LEMMA ValidIsWithinLimits ==
    ASSUME NEW cfg, Validates(cfg), cfg.limit \in Int, cfg.tokenTTL > 0
    PROVE  WithinLimits(cfg)
  BY ConfigurationAssumption DEF Validates, WithinLimits

\* What a configuration that loads is like: within the bounds that are
\* validated, and its tokens live although nothing validates that.
LEMMA LoadedIsWithinLimits ==
    ASSUME NEW e \in Environment, Loads(e)
    PROVE  WithinLimits(Configured(e))
<1>1. e.tokenTTL \in Int /\ e.limit \in Int
  BY DEF Environment
<1>2. Configured(e).tokenTTL > 0
  BY <1>1, DurationsArePositive, ConfigurationAssumption DEF Configured
<1>3. Configured(e).limit \in Int
  BY <1>1 DEF Configured, IntEnv
<1>4. QED
  BY <1>2, <1>3, ValidIsWithinLimits DEF Loads

\* A server that serves has a configuration within the documented limits,
\* whatever environments its container is given and however it is restarted.
THEOREM ServersAreWithinLimits == Spec => []ServesWithinLimits
<1>2. LoadedInv => ServesWithinLimits
  <2>1. LoadedInv => environment \in Environment
    BY LifecycleAssumption DEF LoadedInv, TypeOK
  <2>2. QED
    BY <2>1, LoadedIsWithinLimits DEF LoadedInv, ServesWithinLimits
<1>3. QED
  BY <1>2, LoadedInvariant, PTL

LEMMA DeletedStays ==
    ASSUME TypeOK, [Next]_vars, NEW t \in Tables, NEW c \in Codes,
           rows[t][c] = "deleted"
    PROVE  rows'[t][c] = "deleted"
<1>1. ASSUME NEW s \in Tables, Insertable(s)
      PROVE  Inserted(s)[t][c] = "deleted"
  BY <1>1 DEF Inserted, Insertable, TypeOK
<1>2. CASE StartUp
  BY <1>1, <1>2, CurrentIsTable
     DEF StartUp, Start, SeedTable, SeedRefused, Serve
<1>3. CASE SeedFails
  BY <1>1, <1>3, CurrentIsTable DEF SeedFails
<1>4. CASE Stop \/ (\E e \in Environments : Deploy(e)) \/ UNCHANGED vars
  BY <1>4 DEF Stop, Deploy, vars
<1>5. ASSUME NEW s \in Tables, NEW d \in Codes, Create(s, d) \/ Delete(s, d)
      PROVE  rows'[t][c] = "deleted"
  BY <1>5 DEF Create, Delete, TypeOK
<1>6. QED
  BY <1>2, <1>3, <1>4, <1>5 DEF Next

\* A deleted record never comes back.
THEOREM DeletesAreFinal == Spec => DeletedForGood
<1>1. TypeOK /\ [Next]_vars =>
        [\A t \in Tables, c \in Codes :
            rows[t][c] = "deleted" => rows'[t][c] = "deleted"]_vars
  BY DeletedStays
<1>2. QED
  BY <1>1, TypeCorrect, PTL DEF Spec, DeletedForGood

------------------------------------------------------------------------------
(***************************************************************************)
(* The server comes back.  No step but a delete in a server that serves    *)
(* takes a table out of the reach of Seed; once faults have ended, nothing *)
(* but the start itself moves a process that is down or starting, and a    *)
(* start that has begun is seven steps.                                    *)
(***************************************************************************)
Seedable(t) == NeedsSeed(t) => Insertable(t)

\* What ComesBack says of the tables.
AllSeedable == \A t \in Tables : Seedable(t)

Returning == phase # "serving" /\ AllSeedable /\ Loads(environment)
Returned == phase = "serving" \/ ~Loads(environment)

FaultsEnd == <>[][faults' = faults]_vars

\* Filling a table leaves every table within the reach of Seed.
LEMMA InsertedSeedable ==
    ASSUME TypeOK, NEW s \in Tables, AllSeedable, rows' = Inserted(s)
    PROVE  AllSeedable'
<1> SUFFICES ASSUME NEW t \in Tables PROVE Seedable(t)'
  BY DEF AllSeedable
<1>1. CASE t = s
  <2>1. PICK c \in Demo : TRUE
    BY LifecycleAssumption
  <2>2. rows'[t][c] = "live" /\ c \in Codes
    BY <1>1, LifecycleAssumption DEF Inserted, TypeOK
  <2> QED
    BY <2>2 DEF Seedable, NeedsSeed
<1>2. CASE t # s
  <2>1. rows'[t] = rows[t]
    BY <1>2 DEF Inserted, TypeOK
  <2> QED
    BY <2>1 DEF AllSeedable, Seedable, NeedsSeed, Insertable
<1> QED
  BY <1>1, <1>2

LEMMA SameRowsSeedable ==
    ASSUME AllSeedable, rows' = rows
    PROVE  AllSeedable'
  BY DEF AllSeedable, Seedable, NeedsSeed, Insertable

\* A process on its way back stays so until it serves or its configuration
\* no longer loads.
LEMMA ReturningStays ==
    ASSUME LoadedInv, [Next]_vars, Returning
    PROVE  (Returning \/ Returned)'
<1> SUFFICES AllSeedable'
  BY DEF Returning, Returned
<1>1. rows' = rows \/ \E s \in Tables : rows' = Inserted(s)
  BY CurrentIsTable DEF Returning, LoadedInv, Next, StartUp, Start, SeedTable, SeedRefused,
     Serve, SeedFails, Stop, Deploy, Create, Delete, vars
<1> QED
  BY <1>1, InsertedSeedable, SameRowsSeedable DEF Returning, LoadedInv

\* No start of a process on its way back is refused by the unique index.
LEMMA ReturningIsNotRefused ==
    ASSUME LoadedInv, Returning
    PROVE  ~SeedRefused
  BY CurrentIsTable DEF LoadedInv, Returning, AllSeedable, Seedable, SeedRefused

\* Without faults only the start moves it.
LEMMA OnlyTheStartMoves ==
    ASSUME LoadedInv, [Next]_vars, [faults' = faults]_vars, Returning
    PROVE  StartUp \/ UNCHANGED vars
<1>1. ~SeedFails /\ ~Stop /\ \A e \in Environments : ~Deploy(e)
  BY DEF SeedFails, Stop, Deploy, LoadedInv, TypeOK, vars
<1> QED
  BY <1>1 DEF Next, Returning, Create, Delete, vars

\* The stages of a start: seven, with the process that is down.
Stage(i) == /\ Returning
            /\ \/ i = 0 /\ phase = "down"
               \/ i > 0 /\ phase = "starting" /\ seeded = i - 1

Beyond(i) == Returned \/ (i < 6 /\ Stage(i + 1))

LEMMA StageAdvances ==
    ASSUME LoadedInv, [Next]_vars, NEW i \in 0..6, Stage(i), StartUp
    PROVE  Beyond(i)'
<1>1. (Returning \/ Returned)'
  BY ReturningStays DEF Stage
<1>2. SUFFICES ASSUME Returning'
               PROVE  Returned' \/ (i < 6 /\ Stage(i + 1)')
  BY <1>1 DEF Beyond
<1>3. CASE i = 0
  <2>1. Start /\ seeded = 0
    BY <1>3 DEF Stage, StartUp, SeedTable, SeedRefused, Serve, Seeding,
                LoadedInv, TypeOK
  <2> QED
    BY <1>2, <1>3, <2>1 DEF Stage, Start
<1>4. CASE i \in 1..5
  <2>1. SeedTable
    BY <1>4, FiveTables, ReturningIsNotRefused DEF Stage, StartUp, Start, Serve
  <2> QED
    BY <1>2, <1>4, <2>1 DEF Stage, SeedTable
<1>5. CASE i = 6
  <2>1. Serve
    BY <1>5, FiveTables DEF Stage, StartUp, Start, SeedTable, SeedRefused, Seeding
  <2> QED
    BY <2>1 DEF Serve, Returned
<1> QED
  BY <1>3, <1>4, <1>5

\* Without faults each stage lasts until the start moves on.
LEMMA StageStays ==
    ASSUME LoadedInv, [Next]_vars, [faults' = faults]_vars, NEW i \in 0..6, Stage(i)
    PROVE  (Stage(i) \/ Beyond(i))'
<1>1. CASE StartUp
  BY <1>1, StageAdvances
<1>2. CASE UNCHANGED vars
  BY <1>2 DEF vars, Stage, Returning, AllSeedable, Seedable, NeedsSeed, Insertable
<1> QED
  BY <1>1, <1>2, OnlyTheStartMoves DEF Stage

\* Every way back is at one of the stages.
LEMMA ReturningIsAStage ==
    ASSUME LoadedInv, Returning
    PROVE  \/ Stage(0) \/ Stage(1) \/ Stage(2) \/ Stage(3)
           \/ Stage(4) \/ Stage(5) \/ Stage(6)
  BY FiveTables DEF LoadedInv, TypeOK, Returning, Stage

\* A behaviour from where there are no more faults.
Faultless == []LoadedInv /\ [][Next]_vars /\ [][faults' = faults]_vars /\ StartsRunOn

\* Without faults and with a start that runs on, each stage is left for the
\* next one until the server serves.
LEMMA ReturningReturns == Faultless => (Returning ~> Returned)
<1> DEFINE Blocked == phase = "serving" \/ (phase = "down" /\ ~Loads(environment))
<1>1. LoadedInv /\ Returning => \/ Stage(0) \/ Stage(1) \/ Stage(2) \/ Stage(3)
                               \/ Stage(4) \/ Stage(5) \/ Stage(6)
  BY ReturningIsAStage
<1>2. LoadedInv /\ [Next]_vars /\ [faults' = faults]_vars =>
      /\ Stage(0) => (Stage(0) \/ Beyond(0))'
      /\ Stage(1) => (Stage(1) \/ Beyond(1))'
      /\ Stage(2) => (Stage(2) \/ Beyond(2))'
      /\ Stage(3) => (Stage(3) \/ Beyond(3))'
      /\ Stage(4) => (Stage(4) \/ Beyond(4))'
      /\ Stage(5) => (Stage(5) \/ Beyond(5))'
      /\ Stage(6) => (Stage(6) \/ Beyond(6))'
  BY StageStays
<1>3. LoadedInv /\ [Next]_vars /\ <<StartUp>>_vars =>
      /\ Stage(0) => Beyond(0)'
      /\ Stage(1) => Beyond(1)'
      /\ Stage(2) => Beyond(2)'
      /\ Stage(3) => Beyond(3)'
      /\ Stage(4) => Beyond(4)'
      /\ Stage(5) => Beyond(5)'
      /\ Stage(6) => Beyond(6)'
  BY StageAdvances
<1>4. /\ Beyond(0) => Returned \/ Stage(1)
      /\ Beyond(1) => Returned \/ Stage(2)
      /\ Beyond(2) => Returned \/ Stage(3)
      /\ Beyond(3) => Returned \/ Stage(4)
      /\ Beyond(4) => Returned \/ Stage(5)
      /\ Beyond(5) => Returned \/ Stage(6)
      /\ Beyond(6) => Returned
  BY DEF Beyond
<1>5. Blocked => Returned
  BY DEF Returned
<1>6. Faultless => []<>Blocked \/ []<><<StartUp>>_vars
  BY DEF Faultless, StartsRunOn
<1> HIDE DEF Blocked
<1> QED
  BY <1>1, <1>2, <1>3, <1>4, <1>5, <1>6, PTL DEF Faultless

\* With finitely many faults, a server that is down serves again, for any
\* tables Seed can fill or need not, unless its configuration does not load.
THEOREM ServersComeBack == Spec /\ StartsRunOn /\ FaultsEnd => ComesBack
<1> DEFINE Down ==
      /\ phase = "down"
      /\ \A t \in Tables : \/ \E c \in Codes : rows[t][c] = "live"
                          \/ \A c \in Demo : rows[t][c] = "absent"
<1>1. LoadedInv /\ [Next]_vars /\ Returning => (Returning \/ Returned)'
  BY ReturningStays
<1>2. Spec /\ StartsRunOn /\ FaultsEnd => <>Faultless
  BY LoadedInvariant, PTL DEF Spec, FaultsEnd, Faultless, StartsRunOn
<1>3. Down => Returning \/ Returned
  BY DEF Returning, Returned, AllSeedable, Seedable, NeedsSeed, Insertable
<1>4. Spec /\ StartsRunOn /\ FaultsEnd => (Down ~> Returned)
  <2> HIDE DEF Down
  <2> QED
    BY <1>1, <1>2, <1>3, ReturningReturns, LoadedInvariant, PTL DEF Spec
<1> QED
  BY <1>4 DEF ComesBack, Returned
==============================================================================
