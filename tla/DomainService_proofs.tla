------------------------ MODULE DomainService_proofs -------------------------
(***************************************************************************)
(* Proofs about DomainService for every value of its constants.            *)
(***************************************************************************)
EXTENDS DomainService, TLAPS

(***************************************************************************)
(* What a handler works on.  Computed says how the row to store comes from *)
(* the row read; it holds of every job from the moment it is prepared.  Its *)
(* second argument is entity, so that nothing in it changes with a step.   *)
(***************************************************************************)
StatusesOf(c) == DOMAIN GraphOf[entity[c]]

Computed(j, e) ==
    /\ j \in Job
    /\ \/ /\ j.op = "create"
          /\ j.read = NoRow
          /\ \E d \in Data : j.item = NewRow(InitialStatus[e[j.code]], d)
       \/ /\ j.op # "create"
          /\ j.read \in DomainRow
          /\ ~j.read.deleted
          /\ j.read.status \in DOMAIN GraphOf[e[j.code]]
          /\ \/ /\ j.op = "update"
                /\ \E d \in Data : j.item = [j.read EXCEPT !.data = d,
                                             !.version = j.item.version]
             \/ /\ j.op = "transition"
                /\ e[j.code] = "IrrigationPlan" =>
                      RoleOf[j.actor] \in {"reviewer", "admin"}
                /\ \E s \in GraphOf[e[j.code]][j.read.status] :
                      j.item = [j.read EXCEPT !.status = s,
                                              !.version = j.item.version]
             \/ j.op = "delete" /\ j.item = j.read

NewJob(op, u, c, read, item) ==
    [op |-> op, actor |-> u, code |-> c, read |-> read, item |-> item]

Jobs == \A h \in Handlers : job[h] # NoJob => Computed(job[h], entity)

TypeInv == TypeOK /\ Jobs

(***************************************************************************)
(* Facts about the graphs and the helpers.                                 *)
(***************************************************************************)

\* The graph of an entity has its initial status, stays within its statuses,
\* and these are statuses.
LEMMA GraphFacts ==
    ASSUME NEW e \in Entities
    PROVE  /\ DOMAIN GraphOf[e] \subseteq Statuses
           /\ InitialStatus[e] \in DOMAIN GraphOf[e]
           /\ \A s \in DOMAIN GraphOf[e] : GraphOf[e][s] \subseteq DOMAIN GraphOf[e]
<1>1. CASE e = "GreenhouseZone"
  BY <1>1 DEF GraphOf, InitialStatus, Statuses, ZoneStates, GreenhouseZoneTransitions
<1>2. CASE e = "SoilReading"
  BY <1>2 DEF GraphOf, InitialStatus, Statuses, ReadingStates, SoilReadingTransitions
<1>3. CASE e = "IrrigationPlan"
  BY <1>3 DEF GraphOf, InitialStatus, Statuses, PlanStates, IrrigationPlanTransitions
<1> QED
  BY <1>1, <1>2, <1>3 DEF Entities

\* A row that the first start seeds has a status of the graph.
LEMMA SeededFacts ==
    ASSUME NEW e \in Entities
    PROVE  SeededStatuses[e] \subseteq DOMAIN GraphOf[e]
<1>1. CASE e = "GreenhouseZone"
  BY <1>1 DEF GraphOf, SeededStatuses, GreenhouseZoneTransitions
<1>2. CASE e = "SoilReading"
  BY <1>2 DEF GraphOf, SeededStatuses, SoilReadingTransitions
<1>3. CASE e = "IrrigationPlan"
  BY <1>3 DEF GraphOf, SeededStatuses, IrrigationPlanTransitions
<1> QED
  BY <1>1, <1>2, <1>3 DEF Entities

\* The row of a new record is a row.
LEMMA NewRowType ==
    ASSUME NEW s \in Statuses, NEW d \in Data
    PROVE  /\ NewRow(s, d) \in DomainRow
           /\ NewRow(s, d).status = s
           /\ ~NewRow(s, d).deleted
BY DEF NewRow, DomainRow

\* The version a client names and the next one are numbers, the latter not 0.
LEMMA ExpectedVersionType ==
    ASSUME NEW c \in Codes, table[c] \in DomainRow, NEW v \in ExpectedVersions(c)
    PROVE  v \in Nat \ {0} /\ v + 1 \in Nat \ {0}
BY ServiceAssumption DEF ExpectedVersions, DomainRow

\* The row to store has a status of the entity's graph.
LEMMA ItemStatus ==
    ASSUME NEW j, Computed(j, entity), entity \in [Codes -> Entities]
    PROVE  /\ j.item \in DomainRow
           /\ j.item.status \in StatusesOf(j.code)
           /\ j.item.status \in Statuses
<1>1. j \in Job /\ j.code \in Codes /\ j.item \in DomainRow /\ entity[j.code] \in Entities
  BY DEF Computed, Job
<1>2. /\ DOMAIN GraphOf[entity[j.code]] \subseteq Statuses
      /\ InitialStatus[entity[j.code]] \in DOMAIN GraphOf[entity[j.code]]
      /\ \A s \in DOMAIN GraphOf[entity[j.code]] :
            GraphOf[entity[j.code]][s] \subseteq DOMAIN GraphOf[entity[j.code]]
  BY <1>1, GraphFacts
<1>3. CASE j.op = "create"
  BY <1>1, <1>2, <1>3, NewRowType DEF Computed, StatusesOf
<1>4. CASE j.op = "update"
  <2>1. PICK d \in Data : j.item = [j.read EXCEPT !.data = d, !.version = j.item.version]
    BY <1>4 DEF Computed
  <2>2. j.read \in DomainRow /\ j.read.status \in StatusesOf(j.code)
    BY <1>4 DEF StatusesOf, Computed
  <2>3. j.item.status = j.read.status
    BY <2>1, <2>2 DEF DomainRow
  <2> QED
    BY <1>1, <1>2, <2>2, <2>3 DEF StatusesOf
<1>5. CASE j.op = "transition"
  <2>1. PICK s \in GraphOf[entity[j.code]][j.read.status] :
          j.item = [j.read EXCEPT !.status = s, !.version = j.item.version]
    BY <1>5 DEF Computed
  <2>2. j.read \in DomainRow /\ j.read.status \in StatusesOf(j.code)
    BY <1>5 DEF StatusesOf, Computed
  <2>3. j.item.status = s
    BY <2>1, <2>2 DEF DomainRow
  <2> QED
    BY <1>1, <1>2, <2>2, <2>3 DEF StatusesOf
<1>6. CASE j.op = "delete"
  BY <1>1, <1>2, <1>6 DEF Computed, StatusesOf
<1> QED
  BY <1>3, <1>4, <1>5, <1>6 DEF Computed

(***************************************************************************)
(* Each operation prepares a computed job.                                 *)
(***************************************************************************)
Prepares(h, j) ==
    /\ Computed(j, entity)
    /\ Prepare(h, j.op, j.actor, j.code, j.read, j.item)
    /\ j = NewJob(j.op, j.actor, j.code, j.read, j.item)
    /\ j.op # "create" => j.read = table[j.code]
    /\ j.op \in Versioned => j.item.version - 1 \in ExpectedVersions(j.code)

LEMMA CreatePrepares ==
    ASSUME TypeOK, NEW h \in Handlers, NEW c \in Codes, NEW s,
           s = InitialStatus[entity[c]], Create(h, c, s)
    PROVE  \E j \in Job : Prepares(h, j)
<1>1. PICK u \in Callers({"operator", "admin"}), d \in Data :
        Prepare(h, "create", u, c, NoRow, NewRow(s, d))
  BY DEF Create
<1> DEFINE j == NewJob("create", u, c, NoRow, NewRow(s, d))
<1>2. entity[c] \in Entities
  BY DEF TypeOK
<1>3. NewRow(s, d) \in DomainRow
  BY <1>2, GraphFacts, NewRowType
<1>4. j \in Job
  BY <1>3 DEF Job, NewJob, Operations, Callers
<1>5. Computed(j, entity)
  BY <1>4 DEF Computed, NewJob
<1>6. /\ j.op = "create" /\ j.actor = u /\ j.code = c /\ j.read = NoRow
      /\ j.item = NewRow(s, d)
      /\ j = NewJob(j.op, j.actor, j.code, j.read, j.item)
  BY DEF NewJob
<1> HIDE DEF j
<1> QED
  BY <1>1, <1>4, <1>5, <1>6 DEF Prepares, Versioned

LEMMA UpdatePrepares ==
    ASSUME TypeOK, NEW h \in Handlers, NEW c \in Codes, Update(h, c)
    PROVE  \E j \in Job : Prepares(h, j)
<1>1. PICK u \in Callers({"operator", "admin"}), d \in Data :
        /\ Live(table[c])
        /\ PrepareUpdate(h, "update", u, c, [table[c] EXCEPT !.data = d])
  BY DEF Update
<1>2. PICK v \in ExpectedVersions(c) :
        Prepare(h, "update", u, c, table[c],
                [table[c] EXCEPT !.data = d, !.version = v + 1])
  BY <1>1 DEF PrepareUpdate
<1>3. /\ table[c] \in DomainRow /\ ~table[c].deleted
      /\ table[c].status \in StatusesOf(c)
  BY <1>1 DEF Live, TypeOK, StatusesOf
<1>4. v \in Nat \ {0} /\ v + 1 \in Nat \ {0}
  BY <1>3, ExpectedVersionType
<1> DEFINE item == [table[c] EXCEPT !.data = d, !.version = v + 1]
           j == NewJob("update", u, c, table[c], item)
<1>5. item \in DomainRow /\ item.version = v + 1
  BY <1>3, <1>4 DEF DomainRow
<1>6. j \in Job
  BY <1>3, <1>5 DEF Job, NewJob, Operations, Versioned, Callers
<1>7. Computed(j, entity)
  BY <1>3, <1>5, <1>6 DEF StatusesOf, Computed, NewJob
<1>8. /\ j.op = "update" /\ j.actor = u /\ j.code = c /\ j.read = table[c]
      /\ j.item = item
      /\ j = NewJob(j.op, j.actor, j.code, j.read, j.item)
  BY DEF NewJob
<1>9. item.version - 1 = v
  BY <1>4, <1>5
<1>10. Prepare(h, "update", u, c, table[c], item)
  BY <1>2
<1> HIDE DEF item, j
<1> QED
  BY <1>6, <1>7, <1>8, <1>9, <1>10 DEF Prepares

LEMMA TransitionPrepares ==
    ASSUME TypeOK, NEW h \in Handlers, NEW c \in Codes, NEW graph, NEW roles,
           graph = GraphOf[entity[c]],
           entity[c] = "IrrigationPlan" => roles = {"reviewer", "admin"},
           Transition(h, c, graph, roles)
    PROVE  \E j \in Job : Prepares(h, j)
<1>1. PICK u \in Callers(roles), t \in Statuses :
        /\ Live(table[c])
        /\ CanTransition(graph, table[c].status, t)
        /\ PrepareUpdate(h, "transition", u, c, [table[c] EXCEPT !.status = t])
  BY DEF Transition
<1>2. PICK v \in ExpectedVersions(c) :
        Prepare(h, "transition", u, c, table[c],
                [table[c] EXCEPT !.status = t, !.version = v + 1])
  BY <1>1 DEF PrepareUpdate
<1>3. /\ table[c] \in DomainRow /\ ~table[c].deleted
      /\ table[c].status \in StatusesOf(c)
  BY <1>1 DEF Live, TypeOK, StatusesOf
<1>4. v \in Nat \ {0} /\ v + 1 \in Nat \ {0}
  BY <1>3, ExpectedVersionType
<1> DEFINE item == [table[c] EXCEPT !.status = t, !.version = v + 1]
           j == NewJob("transition", u, c, table[c], item)
<1>5. item \in DomainRow /\ item.version = v + 1
  BY <1>3, <1>4 DEF DomainRow
<1>6. j \in Job
  BY <1>3, <1>5 DEF Job, NewJob, Operations, Versioned, Callers
<1>7. t \in GraphOf[entity[c]][table[c].status]
  BY <1>1 DEF CanTransition
<1>8. entity[c] = "IrrigationPlan" => RoleOf[u] \in {"reviewer", "admin"}
  BY DEF Callers
<1>9. Computed(j, entity)
  BY <1>3, <1>5, <1>6, <1>7, <1>8 DEF StatusesOf, Computed, NewJob
<1>10. /\ j.op = "transition" /\ j.actor = u /\ j.code = c /\ j.read = table[c]
       /\ j.item = item
       /\ j = NewJob(j.op, j.actor, j.code, j.read, j.item)
  BY DEF NewJob
<1>11. item.version - 1 = v
  BY <1>4, <1>5
<1>12. Prepare(h, "transition", u, c, table[c], item)
  BY <1>2
<1> HIDE DEF item, j
<1> QED
  BY <1>6, <1>9, <1>10, <1>11, <1>12 DEF Prepares

LEMMA DeletePrepares ==
    ASSUME TypeOK, NEW h \in Handlers, NEW c \in Codes, Delete(h, c)
    PROVE  \E j \in Job : Prepares(h, j)
<1>1. PICK u \in Callers({"admin"}) :
        /\ Live(table[c])
        /\ Prepare(h, "delete", u, c, table[c], table[c])
  BY DEF Delete
<1>2. /\ table[c] \in DomainRow /\ ~table[c].deleted
      /\ table[c].status \in StatusesOf(c)
  BY <1>1 DEF Live, TypeOK, StatusesOf
<1> DEFINE j == NewJob("delete", u, c, table[c], table[c])
<1>3. j \in Job
  BY <1>2 DEF Job, NewJob, Operations, Callers
<1>4. Computed(j, entity)
  BY <1>2, <1>3 DEF StatusesOf, Computed, NewJob
<1>5. /\ j.op = "delete" /\ j.actor = u /\ j.code = c /\ j.read = table[c]
      /\ j.item = table[c]
      /\ j = NewJob(j.op, j.actor, j.code, j.read, j.item)
  BY DEF NewJob
<1> HIDE DEF j
<1> QED
  BY <1>1, <1>3, <1>4, <1>5 DEF Prepares, Versioned

LEMMA BeginPrepares ==
    ASSUME TypeOK, NEW h \in Handlers, Begin(h)
    PROVE  \E j \in Job : Prepares(h, j)
<1>1. CASE Zones(h)
  <2>1. PICK c \in Codes :
          /\ entity[c] = "GreenhouseZone"
          /\ \/ Create(h, c, "active")
             \/ Update(h, c)
             \/ Transition(h, c, GreenhouseZoneTransitions,
                           {"operator", "reviewer", "admin"})
             \/ Delete(h, c)
    BY <1>1 DEF Zones, ZoneService
  <2>2. /\ InitialStatus[entity[c]] = "active"
        /\ GraphOf[entity[c]] = GreenhouseZoneTransitions
    BY <2>1 DEF InitialStatus, GraphOf
  <2> QED
    BY <2>1, <2>2, CreatePrepares, UpdatePrepares, TransitionPrepares, DeletePrepares
<1>2. CASE Readings(h)
  <2>1. PICK c \in Codes :
          /\ entity[c] = "SoilReading"
          /\ \/ Create(h, c, "fresh")
             \/ Update(h, c)
             \/ Transition(h, c, SoilReadingTransitions,
                           {"operator", "reviewer", "admin"})
             \/ Delete(h, c)
    BY <1>2 DEF Readings, ReadingService
  <2>2. /\ InitialStatus[entity[c]] = "fresh"
        /\ GraphOf[entity[c]] = SoilReadingTransitions
    BY <2>1 DEF InitialStatus, GraphOf
  <2> QED
    BY <2>1, <2>2, CreatePrepares, UpdatePrepares, TransitionPrepares, DeletePrepares
<1>3. CASE Plans(h)
  <2>1. PICK c \in Codes :
          /\ entity[c] = "IrrigationPlan"
          /\ \/ Create(h, c, "draft")
             \/ Update(h, c)
             \/ Transition(h, c, IrrigationPlanTransitions, {"reviewer", "admin"})
             \/ Delete(h, c)
    BY <1>3 DEF Plans, PlanService
  <2>2. /\ InitialStatus[entity[c]] = "draft"
        /\ GraphOf[entity[c]] = IrrigationPlanTransitions
    BY <2>1 DEF InitialStatus, GraphOf
  <2> QED
    BY <2>1, <2>2, CreatePrepares, UpdatePrepares, TransitionPrepares, DeletePrepares
<1> QED
  BY <1>1, <1>2, <1>3 DEF Begin

------------------------------------------------------------------------------
(***************************************************************************)
(* Type correctness.                                                       *)
(***************************************************************************)

\* What a handler is about to record has the type of an audit row.
LEMMA AuditEntryType ==
    ASSUME TypeInv, NEW h \in Handlers, pc[h] = "stored"
    PROVE  AuditEntry(h) \in AuditLog
<1>1. job[h] \in Job /\ Computed(job[h], entity) /\ entity \in [Codes -> Entities]
  BY DEF TypeInv, TypeOK, Jobs, Computed
<1>2. job[h].item.status \in Statuses
  BY <1>1, ItemStatus
<1>3. /\ job[h].code \in Codes
      /\ job[h].op \in Operations
      /\ job[h].actor \in Users
      /\ job[h].item.version \in Nat
      /\ job[h].op # "create" => job[h].read.status \in Statuses
  BY <1>1 DEF Job, DomainRow, Computed
<1> QED
  BY <1>2, <1>3 DEF AuditEntry, AuditLog

\* The part of TypeOK about the rows.
RowsOK ==
    /\ table \in [Codes -> DomainRow \cup {NoRow}]
    /\ \A c \in Codes : table[c] # NoRow => table[c].status \in StatusesOf(c)

\* What a handler stores leaves well-typed rows.
LEMMA StoredType ==
    ASSUME TypeInv, NEW h \in Handlers, pc[h] = "prepared", StoreHits(h),
           table' = Stored(h), UNCHANGED entity
    PROVE  RowsOK'
<1>1. /\ job[h] \in Job /\ Computed(job[h], entity)
      /\ job[h].code \in Codes
      /\ entity \in [Codes -> Entities]
      /\ table \in [Codes -> DomainRow \cup {NoRow}]
      /\ \A c \in Codes : table[c] # NoRow => table[c].status \in StatusesOf(c)
  BY DomainAssumption DEF TypeInv, TypeOK, Jobs, Job, StatusesOf
<1> DEFINE k == job[h].code
<1>2. CASE job[h].op = "delete"
  <2>1. table[k] \in DomainRow
    BY <1>1, <1>2 DEF StoreHits, Live, Versioned
  <2> DEFINE row == [table[k] EXCEPT !.deleted = TRUE]
  <2>2. row \in DomainRow /\ row.status = table[k].status
    BY <2>1 DEF DomainRow
  <2>3. table' = [table EXCEPT ![k] = row]
    BY <1>1, <1>2 DEF Stored
  <2>4. table[k] # NoRow
    BY <2>1, DomainRecordsAssumption
  <2> HIDE DEF row, k
  <2> QED
    BY <1>1, <2>2, <2>3, <2>4 DEF RowsOK, StatusesOf
<1>3. CASE job[h].op # "delete"
  <2>1. table' = [table EXCEPT ![k] = job[h].item]
    BY <1>3 DEF Stored
  <2>2. job[h].item \in DomainRow /\ job[h].item.status \in StatusesOf(k)
    BY <1>1, ItemStatus
  <2> QED
    BY <1>1, <2>1, <2>2 DEF RowsOK, StatusesOf
<1> QED
  BY <1>2, <1>3

\* A handler that ends its request has no job, the others keep theirs.
LEMMA FinishType ==
    ASSUME TypeInv, NEW h \in Handlers, Finish(h), UNCHANGED entity
    PROVE  /\ pc' \in [Handlers -> Phases]
           /\ job' \in [Handlers -> Job \cup {NoJob}]
           /\ \A g \in Handlers : pc'[g] = "idle" <=> job'[g] = NoJob
           /\ Jobs'
BY DEF TypeInv, TypeOK, Finish, Phases, Jobs

LEMMA FirstTablesType ==
    ASSUME entity \in [Codes -> Entities], table \in FirstTables(entity)
    PROVE  RowsOK
<1>1. ASSUME NEW c \in Codes
      PROVE  /\ table[c] \in DomainRow \cup {NoRow}
             /\ table[c] # NoRow => table[c].status \in StatusesOf(c)
  <2>1. table[c] \in FirstRows(entity[c]) /\ entity[c] \in Entities
    BY DEF FirstTables
  <2>2. CASE table[c] = NoRow
    BY <2>2
  <2>3. CASE table[c] # NoRow
    <3>1. PICK s \in SeededStatuses[entity[c]], d \in Data : table[c] = NewRow(s, d)
      BY <2>1, <2>3 DEF FirstRows
    <3>2. s \in StatusesOf(c) /\ s \in Statuses
      BY <2>1, <3>1, SeededFacts, GraphFacts DEF StatusesOf
    <3> QED
      BY <3>1, <3>2, NewRowType
  <2> QED
    BY <2>2, <2>3
<1>2. table = [c \in Codes |-> table[c]]
  BY DEF FirstTables
<1> QED
  BY <1>1, <1>2 DEF RowsOK

LEMMA InitTypeInv ==
    ASSUME Init
    PROVE  TypeInv
<1>1. RowsOK
  BY FirstTablesType DEF Init
<1> QED
  BY <1>1 DEF Init, RowsOK, StatusesOf, TypeInv, TypeOK, Jobs, Phases

LEMMA NextTypeInv ==
    ASSUME TypeInv, [Next]_vars
    PROVE  TypeInv'
<1>0. UNCHANGED <<entity, seeded>>
  BY DEF Next, vars
<1>00. (TypeOK' /\ Jobs') => TypeInv'
  BY DEF TypeInv
<1> USE <1>0 DEF StatusesOf
<1>1. CASE UNCHANGED vars
  BY <1>1 DEF vars, TypeInv, TypeOK, Jobs
<1>2. CASE Crash
  BY <1>2 DEF Crash, TypeInv, TypeOK, Phases, Jobs
<1>3. ASSUME NEW h \in Handlers, Begin(h)
      PROVE  TypeInv'
  <2>1. PICK j \in Job : Prepares(h, j)
    BY <1>3, BeginPrepares DEF TypeInv
  <2>2. /\ UNCHANGED <<table, audits>>
        /\ pc' = [pc EXCEPT ![h] = "prepared"]
        /\ job' = [job EXCEPT ![h] = j]
    BY <2>1 DEF Prepares, Prepare, NewJob
  <2>3. j # NoJob
    BY DomainAssumption
  <2>4. TypeOK'
    BY <2>2, <2>3 DEF TypeInv, TypeOK, Phases
  <2>5. Jobs'
    BY <2>1, <2>2 DEF Jobs, TypeInv, TypeOK, Prepares
  <2> QED
    BY <2>4, <2>5, <1>00
<1>4. ASSUME NEW h \in Handlers, Store(h)
      PROVE  TypeInv'
  <2>1. RowsOK'
    BY <1>4, StoredType DEF Store
  <2>2. TypeOK'
    BY <1>4, <2>1 DEF Store, TypeInv, TypeOK, Phases, RowsOK
  <2>3. Jobs'
    BY <1>4 DEF Store, TypeInv, Jobs
  <2> QED
    BY <2>2, <2>3, <1>00
<1>5. ASSUME NEW h \in Handlers, Conflict(h)
      PROVE  TypeInv'
  <2>1. TypeOK'
    BY <1>5, FinishType DEF Conflict, TypeInv, TypeOK
  <2> QED
    BY <1>5, <2>1, FinishType, <1>00 DEF Conflict
<1>6. ASSUME NEW h \in Handlers, StoreFails(h)
      PROVE  TypeInv'
  <2>1. RowsOK'
    <3>1. CASE table' = table
      BY <3>1 DEF TypeInv, TypeOK, RowsOK
    <3>2. CASE table' # table
      BY <1>6, <3>2, StoredType DEF StoreFails
    <3> QED
      BY <3>1, <3>2
  <2>2. TypeOK'
    BY <1>6, <2>1, FinishType DEF StoreFails, TypeInv, TypeOK, RowsOK
  <2> QED
    BY <1>6, <2>2, FinishType, <1>00 DEF StoreFails
<1>7. ASSUME NEW h \in Handlers, RecordAudit(h)
      PROVE  TypeInv'
  <2>1. audits' \in Seq(AuditLog)
    BY <1>7, AuditEntryType DEF RecordAudit, TypeInv, TypeOK
  <2>2. TypeOK'
    BY <1>7, <2>1 DEF RecordAudit, TypeInv, TypeOK, Phases
  <2>3. Jobs'
    BY <1>7 DEF RecordAudit, TypeInv, Jobs
  <2> QED
    BY <2>2, <2>3, <1>00
<1>8. ASSUME NEW h \in Handlers, AuditFails(h)
      PROVE  TypeInv'
  <2>1. audits' \in Seq(AuditLog)
    BY <1>8, AuditEntryType DEF AuditFails, TypeInv, TypeOK
  <2>2. CASE job[h].op \in {"create", "update"}
    <3>1. TypeOK'
      BY <1>8, <2>1, <2>2 DEF AuditFails, TypeInv, TypeOK, Phases
    <3>2. Jobs'
      BY <1>8, <2>2 DEF AuditFails, TypeInv, Jobs
    <3> QED
      BY <3>1, <3>2, <1>00
  <2>3. CASE job[h].op \notin {"create", "update"}
    <3>1. TypeOK'
      BY <1>8, <2>1, <2>3, FinishType DEF AuditFails, TypeInv, TypeOK
    <3> QED
      BY <1>8, <2>3, <3>1, FinishType, <1>00 DEF AuditFails
  <2> QED
    BY <2>2, <2>3
<1>9. ASSUME NEW h \in Handlers, Reply(h)
      PROVE  TypeInv'
  <2>1. TypeOK'
    BY <1>9, FinishType DEF Reply, TypeInv, TypeOK
  <2> QED
    BY <1>9, <2>1, FinishType, <1>00 DEF Reply
<1> QED
  BY <1>1, <1>2, <1>3, <1>4, <1>5, <1>6, <1>7, <1>8, <1>9 DEF Next, Step

LEMMA TypeInvariant == Spec => []TypeInv
<1>1. Init => TypeInv
  BY InitTypeInv
<1>2. TypeInv /\ [Next]_vars => TypeInv'
  BY NextTypeInv
<1> QED
  BY <1>1, <1>2, PTL DEF Spec

\* Every reachable state is well typed: in particular every row has a status
\* of its own entity's graph, whatever versions clients send and whatever
\* fails.
THEOREM TypeCorrect == Spec => []TypeOK
<1>1. TypeInv => TypeOK
  BY DEF TypeInv
<1> QED
  BY <1>1, TypeInvariant, PTL

------------------------------------------------------------------------------
(***************************************************************************)
(* Plans are reviewed.  A row that is not a draft may come from an update  *)
(* computed from an older row, so the jobs count too: whoever holds a plan *)
(* that is not a draft, other than by moving it himself, holds one that    *)
(* was reviewed.                                                           *)
(***************************************************************************)
Moved(c, h) ==
    /\ pc[h] = "stored"
    /\ job[h].code = c
    /\ job[h].op = "transition"
    /\ job[h].item.status # "draft"
    /\ RoleOf[job[h].actor] \in {"reviewer", "admin"}

MoveRecorded(c, a) ==
    /\ a.code = c
    /\ a.action = "transition"
    /\ a.after # "draft"
    /\ RoleOf[a.actor] \in {"reviewer", "admin"}

Reviewed(c) ==
    \/ \E i \in DOMAIN audits : MoveRecorded(c, audits[i])
    \/ \E h \in Handlers : Moved(c, h)

\* The rows that the first start seeded have been reviewed by nobody.
ReviewedInv ==
    /\ TypeInv
    /\ \A c \in Codes :
          /\ entity[c] = "IrrigationPlan"
          /\ c \notin seeded
          /\ table[c] # NoRow
          /\ table[c].status # "draft"
          => Reviewed(c)
    /\ \A h \in Handlers :
          /\ job[h] # NoJob
          /\ job[h].op # "transition"
          /\ job[h].code \notin seeded
          /\ entity[job[h].code] = "IrrigationPlan"
          /\ job[h].item.status # "draft"
          => Reviewed(job[h].code)

\* An audit row that is there stays there.
LEMMA AppendKeeps ==
    ASSUME NEW S, NEW s \in Seq(S), NEW e \in S
    PROVE  /\ \A i \in DOMAIN s : i \in DOMAIN Append(s, e) /\ Append(s, e)[i] = s[i]
           /\ Len(s) + 1 \in DOMAIN Append(s, e)
           /\ Append(s, e)[Len(s) + 1] = e
  OBVIOUS

\* Without faults a review is not forgotten: what a handler has moved it
\* records.
LEMMA ReviewedStays ==
    ASSUME Faults = {}, TypeInv, [Next]_vars, NEW c \in Codes, Reviewed(c)
    PROVE  Reviewed(c)'
<1>1. CASE UNCHANGED <<audits, pc, job>>
  BY <1>1 DEF Reviewed, Moved, MoveRecorded
<1>2. ASSUME NEW h \in Handlers, UNCHANGED audits, pc[h] # "stored",
             \A g \in Handlers \ {h} : pc'[g] = pc[g] /\ job'[g] = job[g]
      PROVE  Reviewed(c)'
  BY <1>2 DEF Reviewed, Moved, MoveRecorded
<1>3. ASSUME NEW h \in Handlers, Begin(h)
      PROVE  Reviewed(c)'
  <2>1. PICK j \in Job : Prepares(h, j)
    BY <1>3, BeginPrepares DEF TypeInv
  <2>2. /\ pc[h] = "idle" /\ UNCHANGED audits
        /\ pc' = [pc EXCEPT ![h] = "prepared"]
        /\ job' = [job EXCEPT ![h] = NewJob(j.op, j.actor, j.code, j.read, j.item)]
    BY <2>1 DEF Prepares, Prepare, NewJob
  <2> QED
    BY <1>2, <2>2 DEF TypeInv, TypeOK
<1>4. ASSUME NEW h \in Handlers, Store(h) \/ Conflict(h) \/ Reply(h)
      PROVE  Reviewed(c)'
  <2>1. /\ pc[h] # "stored" /\ UNCHANGED audits
        /\ \A g \in Handlers \ {h} : pc'[g] = pc[g] /\ job'[g] = job[g]
    BY <1>4 DEF Store, Conflict, Reply, Finish, TypeInv, TypeOK
  <2> QED
    BY <1>2, <2>1
<1>5. ASSUME NEW h \in Handlers, RecordAudit(h)
      PROVE  Reviewed(c)'
  <2>1. /\ pc[h] = "stored" /\ audits' = Append(audits, AuditEntry(h))
        /\ pc' = [pc EXCEPT ![h] = "replying"] /\ job' = job
    BY <1>5 DEF RecordAudit
  <2>2. audits \in Seq(AuditLog) /\ AuditEntry(h) \in AuditLog
    BY <2>1, AuditEntryType DEF TypeInv, TypeOK
  <2>3. /\ \A i \in DOMAIN audits : i \in DOMAIN audits' /\ audits'[i] = audits[i]
        /\ Len(audits) + 1 \in DOMAIN audits'
        /\ audits'[Len(audits) + 1] = AuditEntry(h)
    BY <2>1, <2>2, AppendKeeps
  <2>4. CASE \E i \in DOMAIN audits : MoveRecorded(c, audits[i])
    BY <2>3, <2>4 DEF Reviewed, MoveRecorded
  <2>5. CASE Moved(c, h)
    <3>1. MoveRecorded(c, AuditEntry(h))
      BY <2>5 DEF Moved, MoveRecorded, AuditEntry
    <3> QED
      BY <2>3, <3>1 DEF Reviewed, MoveRecorded
  <2>6. ASSUME NEW g \in Handlers \ {h}, Moved(c, g)
        PROVE  Reviewed(c)'
    <3>1. pc'[g] = "stored"
      BY <2>1, <2>6 DEF Moved, TypeInv, TypeOK
    <3> QED
      BY <2>1, <2>6, <3>1 DEF Reviewed, Moved
  <2> QED
    BY <2>4, <2>5, <2>6 DEF Reviewed
<1> QED
  BY <1>1, <1>3, <1>4, <1>5
     DEF Next, Step, StoreFails, AuditFails, Crash, vars

\* What a handler is about to store of a plan is a draft, reviewed, or its
\* own move.
LEMMA StoredReviewed ==
    ASSUME ReviewedInv, NEW h \in Handlers, Store(h), NEW c \in Codes \ seeded,
           entity[c] = "IrrigationPlan", table'[c] # NoRow,
           table'[c].status # "draft"
    PROVE  Reviewed(c) \/ Moved(c, h)'
<1>1. /\ job[h] \in Job
      /\ Computed(job[h], entity)
      /\ job[h] # NoJob
      /\ job[h].code \in Codes
      /\ table \in [Codes -> DomainRow \cup {NoRow}]
      /\ pc[h] = "prepared" /\ StoreHits(h) /\ table' = Stored(h)
      /\ pc' = [pc EXCEPT ![h] = "stored"] /\ job' = job
      /\ pc \in [Handlers -> Phases]
  BY DomainAssumption DEF Store, ReviewedInv, TypeInv, TypeOK, Jobs, Computed, Job
<1>2. CASE c # job[h].code
  <2>1. table'[c] = table[c]
    BY <1>1, <1>2 DEF Stored
  <2> QED
    BY <2>1 DEF ReviewedInv
<1>3. CASE c = job[h].code /\ job[h].op = "delete"
  <2>1. table[c] \in DomainRow
    BY <1>1, <1>3 DEF StoreHits, Live, Versioned
  <2>2. table'[c] = [table[c] EXCEPT !.deleted = TRUE]
    BY <1>1, <1>3 DEF Stored
  <2>3. table'[c].status = table[c].status /\ table[c] # NoRow
    BY <2>1, <2>2, DomainRecordsAssumption DEF DomainRow
  <2> QED
    BY <2>3 DEF ReviewedInv
<1>4. CASE c = job[h].code /\ job[h].op # "delete"
  <2>1. table'[c] = job[h].item
    BY <1>1, <1>4 DEF Stored
  <2>2. CASE job[h].op # "transition"
    BY <1>1, <1>4, <2>1, <2>2 DEF ReviewedInv
  <2>3. CASE job[h].op = "transition"
    <3>1. RoleOf[job[h].actor] \in {"reviewer", "admin"}
      BY <1>1, <1>4, <2>3 DEF Computed
    <3> QED
      BY <1>1, <1>4, <2>1, <2>3, <3>1 DEF Moved
  <2> QED
    BY <2>2, <2>3
<1> QED
  BY <1>2, <1>3, <1>4

LEMMA InitReviewedInv ==
    ASSUME Init
    PROVE  ReviewedInv
BY InitTypeInv DEF Init, ReviewedInv

LEMMA NextReviewedInv ==
    ASSUME Faults = {}, ReviewedInv, [Next]_vars
    PROVE  ReviewedInv'
<1>1. TypeInv /\ TypeInv' /\ entity' = entity /\ seeded' = seeded
  BY NextTypeInv DEF ReviewedInv, Next, vars
<1>2. \A c \in Codes : Reviewed(c) => Reviewed(c)'
  BY <1>1, ReviewedStays
<1>3. ASSUME NEW c \in Codes \ seeded, entity[c] = "IrrigationPlan",
             table'[c] # NoRow, table'[c].status # "draft"
      PROVE  Reviewed(c)'
  <2>1. CASE table' = table
    BY <1>2, <1>3, <2>1 DEF ReviewedInv
  <2>2. CASE table' # table
    <3>1. PICK h \in Handlers : Store(h)
      <4>1. ASSUME NEW h \in Handlers, Begin(h)
            PROVE  table' = table
        BY <1>1, <4>1, BeginPrepares DEF TypeInv, Prepares, Prepare
      <4> QED
        BY <2>2, <4>1
           DEF Next, Step, Conflict, StoreFails, RecordAudit, AuditFails,
               Reply, Crash, vars
    <3>2. Reviewed(c) \/ Moved(c, h)'
      BY <1>3, <3>1, StoredReviewed
    <3> QED
      BY <1>2, <3>2 DEF Reviewed
  <2> QED
    BY <2>1, <2>2
<1>4. ASSUME NEW g \in Handlers, job'[g] # NoJob, job'[g].op # "transition",
             NEW c \in Codes \ seeded, job'[g].code = c, entity[c] = "IrrigationPlan",
             job'[g].item.status # "draft"
      PROVE  Reviewed(c)'
  <2>1. CASE job'[g] = job[g]
    <3>1. Reviewed(c)
      BY <1>4, <2>1 DEF ReviewedInv
    <3> QED
      BY <1>2, <3>1
  <2>2. CASE job'[g] # job[g]
    <3>1. PICK h \in Handlers : Begin(h)
      BY <1>1, <1>4, <2>2
         DEF Next, Step, Store, Conflict, StoreFails, RecordAudit, AuditFails,
             Reply, Finish, Crash, vars, TypeInv, TypeOK
    <3>2. PICK j \in Job : Prepares(h, j)
      BY <1>1, <3>1, BeginPrepares DEF TypeInv
    <3>3. job' = [job EXCEPT ![h] = j]
      BY <3>2 DEF Prepares, Prepare, NewJob
    <3>4. g = h /\ job'[g] = j
      BY <1>1, <2>2, <3>3 DEF TypeInv, TypeOK
    <3>5. Computed(j, entity) /\ (j.op # "create" => j.read = table[j.code])
      BY <3>2 DEF Prepares
    <3>6. /\ j.code = c /\ j.op # "transition" /\ j.item.status # "draft"
      BY <1>4, <3>4
    <3>7. j.op # "create"
      <4>1. InitialStatus[entity[c]] = "draft"
        BY <1>4 DEF InitialStatus
      <4>2. \A d \in Data : NewRow("draft", d).status = "draft"
        BY DEF NewRow
      <4>3. ASSUME j.op = "create"
            PROVE  FALSE
        <5>1. PICK d \in Data : j.item = NewRow(InitialStatus[entity[j.code]], d)
          BY <3>5, <4>3 DEF Computed
        <5> QED
          BY <3>6, <4>1, <4>2, <5>1
      <4> QED
        BY <4>3
    <3>8. j.read \in DomainRow /\ j.item.status = j.read.status
      BY <3>5, <3>6, <3>7 DEF Computed, DomainRow
    <3>9. table[c] # NoRow /\ table[c].status # "draft"
      BY <3>5, <3>6, <3>7, <3>8, DomainRecordsAssumption
    <3>10. Reviewed(c)
      BY <1>4, <3>9 DEF ReviewedInv
    <3> QED
      BY <1>2, <3>10
  <2> QED
    BY <2>1, <2>2
<1>5. \A g \in Handlers : job'[g] # NoJob => job'[g].code \in Codes
  BY <1>1 DEF TypeInv, TypeOK, Job
<1>6. \A c \in Codes :
         /\ entity'[c] = "IrrigationPlan"
         /\ c \notin seeded'
         /\ table'[c] # NoRow
         /\ table'[c].status # "draft"
         => Reviewed(c)'
  BY <1>1, <1>3
<1>7. ASSUME NEW g \in Handlers, job'[g] # NoJob, job'[g].op # "transition",
             job'[g].code \notin seeded',
             entity'[job'[g].code] = "IrrigationPlan",
             job'[g].item.status # "draft"
      PROVE  Reviewed(job[g].code)'
  <2>1. PICK c \in Codes \ seeded : c = job'[g].code
    BY <1>1, <1>5, <1>7
  <2>2. Reviewed(c)'
    BY <1>1, <1>4, <1>7, <2>1
  <2> QED
    BY <2>1, <2>2 DEF Reviewed, Moved, MoveRecorded
<1> QED
  BY <1>1, <1>6, <1>7 DEF ReviewedInv

\* As long as nothing fails, a plan that was created through the service and is
\* not a draft was moved by a reviewer or an administrator, and the trail names
\* who, whatever versions clients send.  Of the plans that the first start
\* seeds it says nothing: two of them are approved and scheduled without an
\* entry (database.go:192-200).
THEOREM PlansMoveUnderReview ==
    ASSUME Faults = {}
    PROVE  Spec => []PlansAreReviewed
<1>1. Init => ReviewedInv
  BY InitReviewedInv
<1>2. ReviewedInv /\ [Next]_vars => ReviewedInv'
  BY NextReviewedInv
<1>3. ReviewedInv => PlansAreReviewed
  BY DEF ReviewedInv, Reviewed, Moved, MoveRecorded, PlansAreReviewed
<1> QED
  BY <1>1, <1>2, <1>3, PTL DEF Spec

------------------------------------------------------------------------------
(***************************************************************************)
(* The optimistic lock.  When clients name versions they have read, the    *)
(* version a handler compares is no newer than the row it read, and that   *)
(* row is the current one or older: the comparison succeeds only if the    *)
(* row did not change in between.                                          *)
(***************************************************************************)
Fresh(j, row) ==
    /\ row \in DomainRow
    /\ j.item.version - 1 <= j.read.version
    /\ j.read.version <= row.version
    /\ row.version = j.read.version /\ ~row.deleted => row = j.read

FreshInv ==
    /\ TypeInv
    /\ \A h \in Handlers :
          pc[h] = "prepared" /\ job[h].op \in Versioned =>
             Fresh(job[h], table[job[h].code])

\* The job of a handler that is not idle, taken apart.
LEMMA JobType ==
    ASSUME TypeInv, NEW h \in Handlers, pc[h] # "idle"
    PROVE  /\ job[h] \in Job
           /\ Computed(job[h], entity)
           /\ job[h].code \in Codes
           /\ job[h].item \in DomainRow
           /\ job[h].op # "create" => job[h].read \in DomainRow
           /\ entity[job[h].code] \in Entities
           /\ table \in [Codes -> DomainRow \cup {NoRow}]
BY DEF TypeInv, TypeOK, Jobs, Computed, Job

LEMMA FreshHit ==
    ASSUME FreshInv, NEW h \in Handlers, pc[h] = "prepared",
           job[h].op \in Versioned, StoreHits(h)
    PROVE  /\ table[job[h].code] = job[h].read
           /\ job[h].item.version = job[h].read.version + 1
<1>1. job[h].read \in DomainRow /\ job[h].item \in DomainRow
  BY JobType DEF FreshInv, Versioned
<1>2. Fresh(job[h], table[job[h].code])
  BY DEF FreshInv
<1>3. /\ job[h].read.version \in Nat
      /\ job[h].item.version \in Nat
      /\ table[job[h].code].version \in Nat
  BY <1>1, <1>2 DEF Fresh, DomainRow
<1>4. /\ ~table[job[h].code].deleted
      /\ table[job[h].code].version = job[h].item.version - 1
  BY DEF StoreHits, Live, Versioned
<1> QED
  BY <1>2, <1>3, <1>4 DEF Fresh

\* A write by one handler leaves the others fresh or sure to lose.
LEMMA FreshStored ==
    ASSUME FreshInv, NEW h \in Handlers, pc[h] = "prepared", StoreHits(h),
           NEW g \in Handlers, pc[g] = "prepared", job[g].op \in Versioned
    PROVE  Fresh(job[g], Stored(h)[job[g].code])
<1> DEFINE c == job[g].code
<1>1. /\ job[h] \in Job /\ job[h].code \in Codes /\ job[h].item \in DomainRow
      /\ table \in [Codes -> DomainRow \cup {NoRow}]
      /\ c \in Codes
      /\ job[g].read \in DomainRow
      /\ Fresh(job[g], table[c])
  BY JobType DEF FreshInv, Versioned
<1>2. CASE job[h].code # c
  BY <1>1, <1>2 DEF Stored
<1>3. CASE job[h].code = c /\ job[h].op = "create"
  <2>1. table[c] = NoRow
    BY <1>3 DEF StoreHits, Versioned
  <2> QED
    BY <1>1, <2>1, DomainRecordsAssumption DEF Fresh
<1>4. CASE job[h].code = c /\ job[h].op = "delete"
  <2>1. Stored(h)[c] = [table[c] EXCEPT !.deleted = TRUE]
    BY <1>1, <1>4 DEF Stored
  <2> QED
    BY <1>1, <2>1 DEF Fresh, DomainRow
<1>5. CASE job[h].code = c /\ job[h].op \in Versioned
  <2>1. Stored(h)[c] = job[h].item
    BY <1>1, <1>5 DEF Stored, Versioned
  <2>2. /\ table[c] = job[h].read
        /\ job[h].item.version = job[h].read.version + 1
    BY <1>5, FreshHit
  <2>3. /\ job[g].read.version \in Nat
        /\ table[c].version \in Nat
        /\ job[h].item.version = table[c].version + 1
    BY <1>1, <2>2 DEF Fresh, DomainRow
  <2> QED
    BY <1>1, <2>1, <2>3 DEF Fresh
<1> QED
  BY <1>1, <1>2, <1>3, <1>4, <1>5 DEF Job, Operations

LEMMA NextFreshInv ==
    ASSUME Predicted = {}, FreshInv, [Next]_vars
    PROVE  FreshInv'
<1>1. TypeInv /\ TypeInv'
  BY NextTypeInv DEF FreshInv
<1>2. CASE UNCHANGED vars
  BY <1>1, <1>2 DEF vars, FreshInv
<1>3. CASE Crash
  BY <1>1, <1>3 DEF Crash, FreshInv
<1>4. ASSUME NEW h \in Handlers, Begin(h)
      PROVE  FreshInv'
  <2>1. PICK j \in Job : Prepares(h, j)
    BY <1>1, <1>4, BeginPrepares DEF TypeInv
  <2>2. /\ table' = table
        /\ pc' = [pc EXCEPT ![h] = "prepared"]
        /\ job' = [job EXCEPT ![h] = j]
    BY <2>1 DEF Prepares, Prepare, NewJob
  <2>3. ASSUME j.op \in Versioned
        PROVE  Fresh(j, table[j.code])
    <3>1. table[j.code] = j.read /\ j.read \in DomainRow
      BY <2>1, <2>3 DEF Prepares, Computed, Versioned
    <3>2. j.item.version - 1 \in 1..table[j.code].version
      BY <2>1, <2>3 DEF Prepares, ExpectedVersions
    <3> QED
      BY <3>1, <3>2 DEF Fresh, DomainRow
  <2>4. /\ pc \in [Handlers -> Phases]
        /\ job \in [Handlers -> Job \cup {NoJob}]
    BY <1>1 DEF TypeInv, TypeOK
  <2>5. ASSUME NEW g \in Handlers, pc'[g] = "prepared",
               job'[g].op \in Versioned
        PROVE  Fresh(job'[g], table'[job'[g].code])
    <3>1. CASE g = h
      BY <2>2, <2>3, <2>4, <2>5, <3>1
    <3>2. CASE g # h
      BY <2>2, <2>4, <2>5, <3>2 DEF FreshInv
    <3> QED
      BY <3>1, <3>2
  <2> QED
    BY <1>1, <2>5 DEF FreshInv
<1>5. ASSUME NEW h \in Handlers, Step(h)
      PROVE  FreshInv'
  <2>1. \/ table' = table
        \/ pc[h] = "prepared" /\ StoreHits(h) /\ table' = Stored(h)
    BY <1>5 DEF Step, Store, Conflict, StoreFails, RecordAudit, AuditFails, Reply
  <2>2. ASSUME NEW g \in Handlers, pc'[g] = "prepared"
        PROVE  pc[g] = "prepared" /\ job'[g] = job[g]
    BY <1>1, <1>5, <2>2
       DEF TypeInv, TypeOK, Step, Store, Conflict, StoreFails, RecordAudit,
           AuditFails, Reply, Finish
  <2>3. ASSUME NEW g \in Handlers, pc'[g] = "prepared",
               job'[g].op \in Versioned
        PROVE  Fresh(job'[g], table'[job'[g].code])
    BY <2>1, <2>2, <2>3, FreshStored DEF FreshInv
  <2> QED
    BY <1>1, <2>3 DEF FreshInv
<1> QED
  BY <1>2, <1>3, <1>4, <1>5 DEF Next

LEMMA FreshInvariant ==
    ASSUME Predicted = {}
    PROVE  Spec => []FreshInv
<1>1. Init => FreshInv
  BY InitTypeInv DEF Init, FreshInv
<1>2. FreshInv /\ [Next]_vars => FreshInv'
  BY NextFreshInv
<1> QED
  BY <1>1, <1>2, PTL DEF Spec

------------------------------------------------------------------------------
(***************************************************************************)
(* The service implements DomainControl: the statement that stores a row   *)
(* is the atomic operation, every other step is a stutter.                 *)
(***************************************************************************)
LEMMA StoredIsAtomic ==
    ASSUME FreshInv, NEW h \in Handlers, pc[h] = "prepared", StoreHits(h),
           table' = Stored(h), UNCHANGED entity
    PROVE  Atomic!ControlNext
<1> DEFINE j == job[h]
           c == j.code
<1>1. /\ j \in Job
      /\ Computed(j, entity)
      /\ c \in Codes
      /\ table \in [Codes -> DomainRow \cup {NoRow}]
  BY JobType DEF FreshInv
<1>2. j.op # "delete" => table' = [table EXCEPT ![c] = j.item]
  BY DEF Stored
<1>3. j.op # "create" => Live(table[c]) /\ table[c] \in DomainRow
  BY <1>1 DEF StoreHits, Live, Versioned
<1>4. j.op \in Versioned => /\ table[c] = j.read
                            /\ j.item.version = table[c].version + 1
  BY FreshHit
<1> HIDE DEF j, c
<1>5. CASE j.op = "create"
  <2>1. table[c] = NoRow
    BY <1>5 DEF StoreHits, Versioned, j, c
  <2>2. PICK d \in Data : j.item = NewRow(InitialStatus[entity[c]], d)
    BY <1>1, <1>5 DEF Computed, c
  <2>3. Atomic!Create(c)
    BY <1>2, <1>5, <2>1, <2>2
       DEF Atomic!Create, Atomic!Put, NewRow, Atomic!NewRow, InitialStatus,
           Atomic!InitialStatus
  <2> QED
    BY <1>1, <2>3 DEF Atomic!ControlNext
<1>6. CASE j.op = "update"
  <2>1. PICK d \in Data : j.item = [j.read EXCEPT !.data = d,
                                                  !.version = j.item.version]
    BY <1>1, <1>6 DEF Computed
  <2>2. j.item = [table[c] EXCEPT !.data = d, !.version = @ + 1]
    BY <1>3, <1>4, <1>6, <2>1 DEF Versioned
  <2>3. Atomic!Edit(c)
    BY <1>2, <1>3, <1>6, <2>2 DEF Atomic!Edit, Atomic!Put, Live, Atomic!Live
  <2> QED
    BY <1>1, <2>3 DEF Atomic!ControlNext
<1>7. CASE j.op = "transition"
  <2>1. PICK s \in GraphOf[entity[c]][j.read.status] :
          j.item = [j.read EXCEPT !.status = s, !.version = j.item.version]
    BY <1>1, <1>7 DEF Computed, c
  <2>2. j.read = table[c]
    BY <1>4, <1>7 DEF Versioned
  <2>3. j.item = [table[c] EXCEPT !.status = s, !.version = @ + 1]
    BY <1>3, <1>4, <1>7, <2>1, <2>2 DEF Versioned
  <2>4. GraphOf = Atomic!GraphOf
    BY DEF GraphOf, GreenhouseZoneTransitions, SoilReadingTransitions,
           IrrigationPlanTransitions, Atomic!GraphOf,
           Atomic!GreenhouseZoneTransitions, Atomic!SoilReadingTransitions,
           Atomic!IrrigationPlanTransitions
  <2>5. s \in Atomic!GraphOf[entity[c]][table[c].status]
    BY <2>1, <2>2, <2>4
  <2>6. table' = [table EXCEPT ![c] = [table[c] EXCEPT !.status = s,
                                                      !.version = @ + 1]]
    BY <1>2, <1>7, <2>3
  <2>7. Atomic!Move(c)
    BY <1>3, <1>7, <2>5, <2>6 DEF Atomic!Move, Atomic!Put, Live, Atomic!Live
  <2> QED
    BY <1>1, <2>7 DEF Atomic!ControlNext
<1>8. CASE j.op = "delete"
  <2>1. table' = [table EXCEPT ![c] = [table[c] EXCEPT !.deleted = TRUE]]
    BY <1>1, <1>8 DEF Stored, j, c
  <2>2. Atomic!Remove(c)
    BY <1>3, <1>8, <2>1 DEF Atomic!Remove, Atomic!Put, Live, Atomic!Live
  <2> QED
    BY <1>1, <2>2 DEF Atomic!ControlNext
<1> QED
  BY <1>1, <1>5, <1>6, <1>7, <1>8 DEF Computed

\* Only a statement that finds its row, or a free code, changes the table.
LEMMA TableChange ==
    ASSUME TypeInv, [Next]_vars, table' # table
    PROVE  \E h \in Handlers :
              pc[h] = "prepared" /\ StoreHits(h) /\ table' = Stored(h)
<1>1. ASSUME NEW h \in Handlers, Begin(h)
      PROVE  table' = table
  BY <1>1, BeginPrepares DEF TypeInv, Prepares, Prepare
<1>2. ASSUME NEW h \in Handlers, Step(h)
      PROVE  pc[h] = "prepared" /\ StoreHits(h) /\ table' = Stored(h)
  BY <1>2 DEF Step, Store, Conflict, StoreFails, RecordAudit, AuditFails, Reply
<1>3. CASE Crash \/ UNCHANGED vars
  BY <1>3 DEF Crash, vars
<1> QED
  BY <1>1, <1>2, <1>3 DEF Next

\* With clients that name versions they have read, every operation on a zone,
\* a reading or a plan acts as one atomic operation on the current row and
\* moves it along the graph of its entity, whatever fails.
THEOREM ServiceImplementsControl ==
    ASSUME Predicted = {}
    PROVE  Spec => AtomicOperations
<1>1. Init => Atomic!ControlInit
  <2>1. /\ SeededStatuses = Atomic!SeededStatuses /\ Entities = Atomic!Entities
        /\ \A s, d : NewRow(s, d) = Atomic!NewRow(s, d)
    BY DEF SeededStatuses, Atomic!SeededStatuses, Entities, Atomic!Entities,
           NewRow, Atomic!NewRow
  <2>2. \A e : FirstRows(e) = Atomic!FirstRows(e)
    BY <2>1 DEF FirstRows, Atomic!FirstRows
  <2>3. FirstTables(entity) = Atomic!FirstTables(entity)
    BY <2>1, <2>2 DEF FirstTables, Atomic!FirstTables
  <2> QED
    BY <2>1, <2>3 DEF Init, Atomic!ControlInit
<1>2. FreshInv /\ [Next]_vars => [Atomic!ControlNext]_<<table, entity>>
  <2> SUFFICES ASSUME FreshInv, [Next]_vars, <<table, entity>>' # <<table, entity>>
               PROVE  Atomic!ControlNext
    OBVIOUS
  <2>1. UNCHANGED entity
    BY DEF Next, vars
  <2>2. PICK h \in Handlers :
          pc[h] = "prepared" /\ StoreHits(h) /\ table' = Stored(h)
    BY <2>1, TableChange DEF FreshInv
  <2> QED
    BY <2>1, <2>2, StoredIsAtomic
<1>3. Spec => []FreshInv
  BY FreshInvariant
<1>4. Atomic!controlVars = <<table, entity>>
  BY DEF Atomic!controlVars
<1> QED
  BY <1>1, <1>2, <1>3, <1>4, PTL DEF Spec, AtomicOperations, Atomic!ControlSpec, Atomic!controlVars
==============================================================================
