------------------------ MODULE ValveExecution_proofs ------------------------
(***************************************************************************)
(* Proofs about ValveExecution for every value of its constants.           *)
(***************************************************************************)
EXTENDS ValveExecution, TLAPS

(***************************************************************************)
(* Facts about the helpers.                                                *)
(***************************************************************************)

\* The row of a new record is a row.
LEMMA NewRowType ==
    ASSUME NEW s \in ExecutionStates, NEW d \in Data
    PROVE  NewRow(s, d) \in ValveRow
BY DEF NewRow, ValveRow

\* The version a client names and the next one are numbers, the latter not 0.
LEMMA ExpectedVersionType ==
    ASSUME NEW c \in Codes, table[c] \in ValveRow, NEW v \in ExpectedVersions(c)
    PROVE  v \in Nat \ {0} /\ v + 1 \in Nat \ {0}
BY ServiceAssumption DEF ExpectedVersions, ValveRow

\* What a handler is about to store has the type of a row.
LEMMA StoredType ==
    ASSUME TypeOK, NEW h \in Handlers, pc[h] = "prepared", StoreHits(h)
    PROVE  Stored(h) \in [Codes -> ValveRow \cup {NoRow}]
<1>1. job[h] \in Job
  BY DEF TypeOK
<1>2. CASE job[h].op = "delete"
  <2>1. table[job[h].code] \in ValveRow
    BY <1>1, <1>2 DEF StoreHits, Live, Job, TypeOK, Versioned
  <2>2. [table[job[h].code] EXCEPT !.deleted = TRUE] \in ValveRow
    BY <2>1 DEF ValveRow
  <2> QED
    BY <1>1, <1>2, <2>2 DEF Stored, TypeOK, Job
<1>3. CASE job[h].op # "delete"
  BY <1>1, <1>3 DEF Stored, TypeOK, Job
<1> QED
  BY <1>2, <1>3

(***************************************************************************)
(* What a handler works on.  Computed says how the row to store comes from *)
(* the row read; it holds of every job from the moment it is prepared.     *)
(***************************************************************************)
Computed(j) ==
    /\ j.actor \in Callers(MayCall[j.op])
    /\ \/ /\ j.op = "create"
          /\ j.read = NoRow
          /\ \E d \in Data : j.item = NewRow("planned", d)
       \/ /\ j.op # "create"
          /\ j.read \in ValveRow
          /\ ~j.read.deleted
          /\ \/ /\ j.op = "update"
                /\ \E d \in Data : j.item = [j.read EXCEPT !.data = d,
                                             !.version = j.item.version]
             \/ /\ j.op = "transition"
                /\ j.read.status # "planned"
                /\ \E s \in ValveExecutionTransitions[j.read.status] :
                      j.item = [j.read EXCEPT !.status = s,
                                              !.version = j.item.version]
             \/ /\ j.op = "control_request"
                /\ j.read.status = "planned"
                /\ j.read.requestedBy = NoUser
                /\ j.item = [j.read EXCEPT !.requestedBy = j.actor,
                                           !.version = j.item.version]
             \/ /\ j.op = "control_confirm"
                /\ j.read.status = "planned"
                /\ j.read.requestedBy \notin {NoUser, j.actor}
                /\ j.item = [j.read EXCEPT !.status = "running",
                                           !.confirmedBy = j.actor,
                                           !.version = j.item.version]
             \/ j.op = "delete" /\ j.item = j.read

NewJob(op, u, c, read, item) ==
    [op |-> op, actor |-> u, code |-> c, read |-> read, item |-> item]

Jobs == \A h \in Handlers : job[h] # NoJob => Computed(job[h])

\* Every way to begin a request prepares a computed job, and the version it
\* expects is one a client may name.
LEMMA BeginPrepares ==
    ASSUME TypeOK, NEW h \in Handlers, Begin(h)
    PROVE  \E j \in Job :
              /\ Prepare(h, j.op, j.actor, j.code, j.read, j.item)
              /\ j = NewJob(j.op, j.actor, j.code, j.read, j.item)
              /\ Computed(j)
              /\ j.op # "create" => j.read = table[j.code]
              /\ j.op \in Versioned =>
                    j.item.version - 1 \in ExpectedVersions(j.code)
<1> USE DEF Callers
<1>1. CASE Create(h)
  <2>1. PICK u \in Callers(MayCall.create), c \in Codes, d \in Data :
          Prepare(h, "create", u, c, NoRow, NewRow("planned", d))
    BY <1>1 DEF Create
  <2> DEFINE j == NewJob("create", u, c, NoRow, NewRow("planned", d))
  <2>2. NewRow("planned", d) \in ValveRow
    BY NewRowType DEF ExecutionStates
  <2>3. j \in Job
    BY <2>2 DEF NewJob, Job, Operations
  <2>4. Computed(j)
    BY <2>1 DEF Computed, NewJob, Prepare
  <2> QED
    BY <2>1, <2>3, <2>4 DEF NewJob, Versioned
<1>2. CASE Update(h)
  <2>1. PICK u \in Callers(MayCall.update), c \in Codes, d \in Data :
          /\ Live(table[c])
          /\ PrepareUpdate(h, "update", u, c,
                           [table[c] EXCEPT !.data = d])
    BY <1>2 DEF Update
  <2>0. PICK v \in ExpectedVersions(c) :
          Prepare(h, "update", u, c, table[c],
                     [table[c] EXCEPT !.data = d, !.version = v + 1])
    BY <2>1 DEF PrepareUpdate
  <2>2. table[c] \in ValveRow /\ ~table[c].deleted
    BY <2>1 DEF Live, TypeOK
  <2>3. v \in Nat \ {0} /\ v + 1 \in Nat \ {0}
    BY <2>2, ExpectedVersionType
  <2> DEFINE item == [table[c] EXCEPT !.data = d, !.version = v + 1]
             j == NewJob("update", u, c, table[c], item)
  <2>4. item \in ValveRow /\ item.version = v + 1
    BY <2>2, <2>3 DEF ValveRow
  <2>5. j \in Job
    BY <2>2, <2>4 DEF NewJob, Job, Operations, Versioned
  <2>6. Computed(j)
    BY <2>1, <2>0, <2>2, <2>4 DEF Computed, NewJob, Prepare
  <2>7. /\ j.op = "update" /\ j.actor = u /\ j.code = c
        /\ j.read = table[c] /\ j.item = item
        /\ j = NewJob(j.op, j.actor, j.code, j.read, j.item)
    BY DEF NewJob
  <2> HIDE DEF item, j
  <2>8. j.item.version - 1 = v
    BY <2>3, <2>4, <2>7
  <2> QED
    BY <2>0, <2>5, <2>6, <2>7, <2>8 DEF item
<1>3. CASE Transition(h)
  <2>1. PICK u \in Callers(MayCall.transition), c \in Codes, t \in ExecutionStates :
          /\ Live(table[c])
          /\ ~(table[c].status = "planned" /\ t = "running")
          /\ CanTransition(ValveExecutionTransitions, table[c].status, t)
          /\ PrepareUpdate(h, "transition", u, c,
                           [table[c] EXCEPT !.status = t])
    BY <1>3 DEF Transition
  <2>0. PICK v \in ExpectedVersions(c) :
          Prepare(h, "transition", u, c, table[c],
                     [table[c] EXCEPT !.status = t, !.version = v + 1])
    BY <2>1 DEF PrepareUpdate
  <2>2. table[c] \in ValveRow /\ ~table[c].deleted
    BY <2>1 DEF Live, TypeOK
  <2>3. v \in Nat \ {0} /\ v + 1 \in Nat \ {0}
    BY <2>2, ExpectedVersionType
  <2> DEFINE item == [table[c] EXCEPT !.status = t, !.version = v + 1]
             j == NewJob("transition", u, c, table[c], item)
  <2>4. item \in ValveRow /\ item.version = v + 1
    BY <2>2, <2>3 DEF ValveRow
  <2>5. j \in Job
    BY <2>2, <2>4 DEF NewJob, Job, Operations, Versioned
  <2>6. /\ table[c].status # "planned"
        /\ t \in ValveExecutionTransitions[table[c].status]
    BY <2>1 DEF CanTransition, ValveExecutionTransitions
  <2>7. Computed(j)
    BY <2>0, <2>2, <2>4, <2>6 DEF Computed, NewJob, Prepare
  <2>8. /\ j.op = "transition" /\ j.actor = u /\ j.code = c
        /\ j.read = table[c] /\ j.item = item
        /\ j = NewJob(j.op, j.actor, j.code, j.read, j.item)
    BY DEF NewJob
  <2> HIDE DEF item, j
  <2>9. j.item.version - 1 = v
    BY <2>3, <2>4, <2>8
  <2> QED
    BY <2>0, <2>5, <2>7, <2>8, <2>9 DEF item
<1>4. CASE RequestControl(h)
  <2>1. PICK u \in Callers(MayCall.control_request), c \in Codes :
          /\ Live(table[c])
          /\ table[c].status = "planned"
          /\ table[c].requestedBy = NoUser
          /\ PrepareUpdate(h, "control_request", u, c,
                           [table[c] EXCEPT !.requestedBy = u])
    BY <1>4 DEF RequestControl
  <2>0. PICK v \in ExpectedVersions(c) :
          Prepare(h, "control_request", u, c, table[c],
                     [table[c] EXCEPT !.requestedBy = u, !.version = v + 1])
    BY <2>1 DEF PrepareUpdate
  <2>2. table[c] \in ValveRow /\ ~table[c].deleted
    BY <2>1 DEF Live, TypeOK
  <2>3. v \in Nat \ {0} /\ v + 1 \in Nat \ {0}
    BY <2>2, ExpectedVersionType
  <2> DEFINE item == [table[c] EXCEPT !.requestedBy = u, !.version = v + 1]
             j == NewJob("control_request", u, c, table[c], item)
  <2>4. item \in ValveRow /\ item.version = v + 1
    BY <2>2, <2>3 DEF ValveRow
  <2>5. j \in Job
    BY <2>2, <2>4 DEF NewJob, Job, Operations, Versioned
  <2>6. Computed(j)
    BY <2>1, <2>0, <2>2, <2>4 DEF Computed, NewJob, Prepare
  <2>7. /\ j.op = "control_request" /\ j.actor = u /\ j.code = c
        /\ j.read = table[c] /\ j.item = item
        /\ j = NewJob(j.op, j.actor, j.code, j.read, j.item)
    BY DEF NewJob
  <2> HIDE DEF item, j
  <2>8. j.item.version - 1 = v
    BY <2>3, <2>4, <2>7
  <2> QED
    BY <2>0, <2>5, <2>6, <2>7, <2>8 DEF item
<1>5. CASE ConfirmControl(h)
  <2>1. PICK u \in Callers(MayCall.control_confirm), c \in Codes :
          /\ Live(table[c])
          /\ table[c].status = "planned"
          /\ table[c].requestedBy \notin {NoUser, u}
          /\ PrepareUpdate(h, "control_confirm", u, c,
                           [table[c] EXCEPT !.status = "running", !.confirmedBy = u])
    BY <1>5 DEF ConfirmControl
  <2>0. PICK v \in ExpectedVersions(c) :
          Prepare(h, "control_confirm", u, c, table[c],
                     [table[c] EXCEPT !.status = "running",
                                      !.confirmedBy = u, !.version = v + 1])
    BY <2>1 DEF PrepareUpdate
  <2>2. table[c] \in ValveRow /\ ~table[c].deleted
    BY <2>1 DEF Live, TypeOK
  <2>3. v \in Nat \ {0} /\ v + 1 \in Nat \ {0}
    BY <2>2, ExpectedVersionType
  <2> DEFINE item == [table[c] EXCEPT !.status = "running",
                                      !.confirmedBy = u, !.version = v + 1]
             j == NewJob("control_confirm", u, c, table[c], item)
  <2>4. item \in ValveRow /\ item.version = v + 1
    BY <2>2, <2>3 DEF ValveRow, ExecutionStates
  <2>5. j \in Job
    BY <2>2, <2>4 DEF NewJob, Job, Operations, Versioned
  <2>6. Computed(j)
    BY <2>1, <2>0, <2>2, <2>4 DEF Computed, NewJob, Prepare
  <2>7. /\ j.op = "control_confirm" /\ j.actor = u /\ j.code = c
        /\ j.read = table[c] /\ j.item = item
        /\ j = NewJob(j.op, j.actor, j.code, j.read, j.item)
    BY DEF NewJob
  <2> HIDE DEF item, j
  <2>8. j.item.version - 1 = v
    BY <2>3, <2>4, <2>7
  <2> QED
    BY <2>0, <2>5, <2>6, <2>7, <2>8 DEF item
<1>6. CASE Delete(h)
  <2>1. PICK u \in Callers(MayCall.delete), c \in Codes :
          /\ Live(table[c])
          /\ Prepare(h, "delete", u, c, table[c], table[c])
    BY <1>6 DEF Delete
  <2>2. table[c] \in ValveRow /\ ~table[c].deleted
    BY <2>1 DEF Live, TypeOK
  <2> DEFINE j == NewJob("delete", u, c, table[c], table[c])
  <2>3. j \in Job
    BY <2>2 DEF NewJob, Job, Operations
  <2>4. Computed(j)
    BY <2>1, <2>2 DEF Computed, NewJob, Prepare
  <2> QED
    BY <2>1, <2>3, <2>4 DEF NewJob, Versioned
<1> QED
  BY <1>1, <1>2, <1>3, <1>4, <1>5, <1>6 DEF Begin

\* What a handler is about to record has the type of an audit row.
LEMMA AuditEntryType ==
    ASSUME TypeOK, Jobs, NEW h \in Handlers, pc[h] = "stored"
    PROVE  AuditEntry(h) \in AuditLog
<1>1. job[h] \in Job /\ Computed(job[h])
  BY DEF TypeOK, Jobs
<1>2. /\ job[h].code \in Codes
      /\ job[h].op \in Operations
      /\ job[h].actor \in Users
      /\ job[h].item.version \in Nat
      /\ job[h].item.status \in ExecutionStates
      /\ job[h].op # "create" => job[h].read.status \in ExecutionStates
  BY <1>1 DEF Job, ValveRow, Computed
<1> QED
  BY <1>2 DEF AuditEntry, AuditLog

\* A handler that ends its request has no job, the others keep theirs.
LEMMA FinishType ==
    ASSUME TypeOK, NEW h \in Handlers, Finish(h)
    PROVE  /\ pc' \in [Handlers -> Phases]
           /\ job' \in [Handlers -> Job \cup {NoJob}]
           /\ \A g \in Handlers : pc'[g] = "idle" <=> job'[g] = NoJob
           /\ Jobs => Jobs'
BY DEF TypeOK, Finish, Phases, Jobs

------------------------------------------------------------------------------
(***************************************************************************)
(* Type correctness.                                                       *)
(***************************************************************************)
TypeInv == TypeOK /\ Jobs

LEMMA InitTypeInv ==
    ASSUME Init
    PROVE  TypeInv
<1>1. PICK d \in Data :
        table = [c \in Codes |-> IF Seeded[c] = "absent"
                                 THEN NoRow ELSE NewRow(Seeded[c], d)]
  BY DEF Init
<1>2. \A c \in Codes : Seeded[c] # "absent" => NewRow(Seeded[c], d) \in ValveRow
  BY NewRowType, ExecutionAssumption
<1>3. table \in [Codes -> ValveRow \cup {NoRow}]
  BY <1>1, <1>2
<1> QED
  BY <1>3 DEF Init, TypeInv, TypeOK, Jobs, Phases

LEMMA NextTypeInv ==
    ASSUME TypeInv, [Next]_vars
    PROVE  TypeInv'
<1> USE DEF TypeInv
<1>1. CASE UNCHANGED vars
  BY <1>1 DEF vars, serviceVars, TypeOK, Jobs
<1>2. CASE Crash
  BY <1>2 DEF Crash, TypeOK, Phases, Jobs
<1>3. ASSUME NEW h \in Handlers, Begin(h)
      PROVE  TypeInv'
  <2>1. PICK j \in Job :
          /\ Prepare(h, j.op, j.actor, j.code, j.read, j.item)
          /\ j = NewJob(j.op, j.actor, j.code, j.read, j.item)
          /\ Computed(j)
    BY <1>3, BeginPrepares
  <2>2. /\ UNCHANGED <<table, audits>>
        /\ pc' = [pc EXCEPT ![h] = "prepared"]
        /\ job' = [job EXCEPT ![h] = j]
    BY <2>1 DEF Prepare, NewJob
  <2>3. j # NoJob
    BY ExecutionAssumption
  <2>4. TypeOK'
    BY <2>2, <2>3 DEF TypeOK, Phases
  <2>5. Jobs'
    BY <2>1, <2>2 DEF Jobs, TypeOK
  <2> QED
    BY <2>4, <2>5
<1>4. ASSUME NEW h \in Handlers, Store(h)
      PROVE  TypeInv'
  <2>1. table' \in [Codes -> ValveRow \cup {NoRow}]
    BY <1>4, StoredType DEF Store
  <2> QED
    BY <1>4, <2>1 DEF Store, TypeOK, Phases, Jobs
<1>5. ASSUME NEW h \in Handlers, Conflict(h)
      PROVE  TypeInv'
  BY <1>5, FinishType DEF Conflict, TypeOK
<1>6. ASSUME NEW h \in Handlers, StoreFails(h)
      PROVE  TypeInv'
  <2>1. table' \in [Codes -> ValveRow \cup {NoRow}]
    BY <1>6, StoredType DEF StoreFails, TypeOK
  <2> QED
    BY <1>6, <2>1, FinishType DEF StoreFails, TypeOK
<1>7. ASSUME NEW h \in Handlers, RecordAudit(h)
      PROVE  TypeInv'
  <2>1. audits' \in Seq(AuditLog)
    BY <1>7, AuditEntryType DEF RecordAudit, TypeOK
  <2> QED
    BY <1>7, <2>1 DEF RecordAudit, TypeOK, Phases, Jobs
<1>8. ASSUME NEW h \in Handlers, AuditFails(h)
      PROVE  TypeInv'
  <2>1. audits' \in Seq(AuditLog)
    BY <1>8, AuditEntryType DEF AuditFails, TypeOK
  <2>2. CASE job[h].op \in {"create", "update"}
    BY <1>8, <2>1, <2>2 DEF AuditFails, TypeOK, Phases, Jobs
  <2>3. CASE job[h].op \notin {"create", "update"}
    BY <1>8, <2>1, <2>3, FinishType DEF AuditFails, TypeOK
  <2> QED
    BY <2>2, <2>3
<1>9. ASSUME NEW h \in Handlers, Reply(h)
      PROVE  TypeInv'
  BY <1>9, FinishType DEF Reply, TypeOK
<1> QED
  BY <1>1, <1>2, <1>3, <1>4, <1>5, <1>6, <1>7, <1>8, <1>9 DEF Next, Step

LEMMA TypeInvariant == Spec => []TypeInv
<1>1. Init => TypeInv
  BY InitTypeInv
<1>2. TypeInv /\ [Next]_vars => TypeInv'
  BY NextTypeInv
<1> QED
  BY <1>1, <1>2, PTL DEF Spec

\* Every reachable state is well typed, and a handler has a job exactly when
\* it serves a request.
THEOREM TypeCorrect == Spec => []TypeOK
<1>1. TypeInv => TypeOK
  BY DEF TypeInv
<1> QED
  BY <1>1, TypeInvariant, PTL

------------------------------------------------------------------------------
(***************************************************************************)
(* The two-person rule.  ConfirmedIndependently is not inductive: a handler*)
(* stores a row it computed from one it read earlier, so the rows read and *)
(* the rows to store must obey the rule too.                               *)
(***************************************************************************)
Confirmed(c, row) ==
    /\ Seeded[c] \in {"absent", "planned"}
    /\ row # NoRow
    /\ row.status # "planned"
    => Independent(row)

ConfirmedInv ==
    /\ TypeInv
    /\ \A c \in Codes : Confirmed(c, table[c])
    /\ \A h \in Handlers : job[h] # NoJob => /\ Confirmed(job[h].code, job[h].read)
                                             /\ Confirmed(job[h].code, job[h].item)

\* No operation computes a row that breaks the rule from one that obeys it.
LEMMA ComputedConfirmed ==
    ASSUME NEW j \in Job, Computed(j), Confirmed(j.code, j.read)
    PROVE  Confirmed(j.code, j.item)
<1>1. NoRow # j.read \/ j.op = "create"
  BY ValveRecordsAssumption DEF Computed
<1>2. j.item \in ValveRow /\ j.actor \in Users /\ j.actor # NoUser
  BY ValveRecordsAssumption DEF Job
<1>3. CASE j.op = "create"
  <2>1. PICK d \in Data : j.item = NewRow("planned", d)
    BY <1>3 DEF Computed
  <2>2. j.item.status = "planned"
    BY <2>1 DEF NewRow
  <2> QED
    BY <2>2 DEF Confirmed
<1>4. CASE j.op = "update"
  <2>1. PICK d \in Data : j.item = [j.read EXCEPT !.data = d,
                                                  !.version = j.item.version]
    BY <1>4 DEF Computed
  <2>2. j.read \in ValveRow
    BY <1>4 DEF Computed
  <2>3. /\ j.item.status = j.read.status
        /\ j.item.requestedBy = j.read.requestedBy
        /\ j.item.confirmedBy = j.read.confirmedBy
    BY <2>1, <2>2 DEF ValveRow
  <2> QED
    BY <1>1, <1>4, <2>3 DEF Confirmed, Independent
<1>5. CASE j.op = "transition"
  <2>1. PICK s \in ValveExecutionTransitions[j.read.status] :
          j.item = [j.read EXCEPT !.status = s, !.version = j.item.version]
    BY <1>5 DEF Computed
  <2>2. j.read \in ValveRow /\ j.read.status # "planned"
    BY <1>5 DEF Computed
  <2>3. /\ j.item.requestedBy = j.read.requestedBy
        /\ j.item.confirmedBy = j.read.confirmedBy
    BY <2>1, <2>2 DEF ValveRow
  <2> QED
    BY <1>1, <1>5, <2>2, <2>3 DEF Confirmed, Independent
<1>6. CASE j.op = "control_request"
  <2>1. /\ j.read \in ValveRow
        /\ j.read.status = "planned"
        /\ j.item = [j.read EXCEPT !.requestedBy = j.actor,
                                   !.version = j.item.version]
    BY <1>6 DEF Computed
  <2>2. j.item.status = "planned"
    BY <2>1 DEF ValveRow
  <2> QED
    BY <2>2 DEF Confirmed
<1>7. CASE j.op = "control_confirm"
  <2>1. /\ j.read \in ValveRow
        /\ j.read.requestedBy \notin {NoUser, j.actor}
        /\ j.item = [j.read EXCEPT !.status = "running",
                                   !.confirmedBy = j.actor,
                                   !.version = j.item.version]
    BY <1>7 DEF Computed
  <2>2. /\ j.item.requestedBy = j.read.requestedBy
        /\ j.item.confirmedBy = j.actor
    BY <2>1 DEF ValveRow
  <2> QED
    BY <1>2, <2>1, <2>2 DEF Confirmed, Independent
<1>8. CASE j.op = "delete"
  BY <1>8 DEF Computed
<1> QED
  BY <1>3, <1>4, <1>5, <1>6, <1>7, <1>8 DEF Job, Operations, Versioned

\* A statement that finds its row leaves a table that obeys the rule.
LEMMA StoredConfirmed ==
    ASSUME ConfirmedInv, NEW h \in Handlers, pc[h] = "prepared", StoreHits(h),
           NEW c \in Codes
    PROVE  Confirmed(c, Stored(h)[c])
<1>1. /\ job[h] \in Job
      /\ job[h].code \in Codes
      /\ table \in [Codes -> ValveRow \cup {NoRow}]
      /\ Confirmed(c, table[c])
      /\ Confirmed(job[h].code, job[h].item)
  BY ExecutionAssumption DEF ConfirmedInv, TypeInv, TypeOK, Job
<1>2. CASE c # job[h].code
  BY <1>1, <1>2 DEF Stored
<1>3. CASE c = job[h].code /\ job[h].op # "delete"
  BY <1>1, <1>3 DEF Stored
<1>4. CASE c = job[h].code /\ job[h].op = "delete"
  <2>1. Stored(h)[c] = [table[c] EXCEPT !.deleted = TRUE]
    BY <1>1, <1>4 DEF Stored
  <2>2. table[c] \in ValveRow
    BY <1>1, <1>4 DEF StoreHits, Live, Versioned
  <2>3. /\ Stored(h)[c].status = table[c].status
        /\ Stored(h)[c].requestedBy = table[c].requestedBy
        /\ Stored(h)[c].confirmedBy = table[c].confirmedBy
        /\ table[c] # NoRow
    BY <2>1, <2>2, ValveRecordsAssumption DEF ValveRow
  <2> QED
    BY <1>1, <2>3 DEF Confirmed, Independent
<1> QED
  BY <1>2, <1>3, <1>4

LEMMA InitConfirmedInv ==
    ASSUME Init
    PROVE  ConfirmedInv
<1>1. PICK d \in Data :
        table = [c \in Codes |-> IF Seeded[c] = "absent"
                                 THEN NoRow ELSE NewRow(Seeded[c], d)]
  BY DEF Init
<1>2. \A c \in Codes : Confirmed(c, table[c])
  BY <1>1 DEF Confirmed, NewRow
<1> QED
  BY <1>2, InitTypeInv DEF Init, ConfirmedInv

LEMMA NextConfirmedInv ==
    ASSUME ConfirmedInv, [Next]_vars
    PROVE  ConfirmedInv'
<1>1. TypeInv /\ TypeInv'
  BY NextTypeInv DEF ConfirmedInv
<1>2. CASE UNCHANGED vars
  BY <1>1, <1>2 DEF vars, serviceVars, ConfirmedInv, Confirmed
<1>3. CASE Crash
  BY <1>1, <1>3 DEF Crash, ConfirmedInv, Confirmed
<1>4. ASSUME NEW h \in Handlers, Begin(h)
      PROVE  ConfirmedInv'
  <2>1. PICK j \in Job :
          /\ Prepare(h, j.op, j.actor, j.code, j.read, j.item)
          /\ j = NewJob(j.op, j.actor, j.code, j.read, j.item)
          /\ Computed(j)
          /\ j.op # "create" => j.read = table[j.code]
    BY <1>1, <1>4, BeginPrepares DEF TypeInv
  <2>2. table' = table /\ job' = [job EXCEPT ![h] = j]
    BY <2>1 DEF Prepare, NewJob
  <2>3. Confirmed(j.code, j.read)
    BY <2>1 DEF ConfirmedInv, Confirmed, Computed, Job
  <2>4. Confirmed(j.code, j.item)
    BY <2>1, <2>3, ComputedConfirmed
  <2>5. job \in [Handlers -> Job \cup {NoJob}]
    BY <1>1 DEF TypeInv, TypeOK
  <2>6. \A c \in Codes : Confirmed(c, table[c])'
    BY <2>2 DEF ConfirmedInv, Confirmed
  <2>7. ASSUME NEW g \in Handlers, job'[g] # NoJob
        PROVE  /\ Confirmed(job'[g].code, job'[g].read)
               /\ Confirmed(job'[g].code, job'[g].item)
    <3>1. CASE g = h
      BY <2>2, <2>3, <2>4, <2>5, <3>1
    <3>2. CASE g # h
      BY <2>2, <2>5, <2>7, <3>2 DEF ConfirmedInv
    <3> QED
      BY <3>1, <3>2
  <2> QED
    BY <1>1, <2>6, <2>7 DEF ConfirmedInv, Confirmed
<1>5. ASSUME NEW h \in Handlers, Step(h)
      PROVE  ConfirmedInv'
  <2>1. \/ table' = table
        \/ pc[h] = "prepared" /\ StoreHits(h) /\ table' = Stored(h)
    BY <1>5 DEF Step, Store, Conflict, StoreFails, RecordAudit, AuditFails, Reply
  <2>2. \A c \in Codes : Confirmed(c, table'[c])
    BY <2>1, StoredConfirmed DEF ConfirmedInv
  <2>3. \/ job' = job
        \/ job' = [job EXCEPT ![h] = NoJob]
    BY <1>5 DEF Step, Store, Conflict, StoreFails, RecordAudit, AuditFails,
                Reply, Finish
  <2>4. ASSUME NEW g \in Handlers, job'[g] # NoJob
        PROVE  job[g] # NoJob /\ job'[g] = job[g]
    BY <1>1, <2>3, <2>4 DEF TypeInv, TypeOK
  <2> QED
    BY <1>1, <2>2, <2>4 DEF ConfirmedInv, Confirmed
<1> QED
  BY <1>2, <1>3, <1>4, <1>5 DEF Next

\* A valve execution created through the API that has left "planned" was asked
\* for by one user and confirmed by another: for every number of records,
\* handlers and users, all fault patterns and all versions clients may send.
THEOREM StartsAreIndependent == Spec => []ConfirmedIndependently
<1>1. Init => ConfirmedInv
  BY InitConfirmedInv
<1>2. ConfirmedInv /\ [Next]_vars => ConfirmedInv'
  BY NextConfirmedInv
<1>3. ConfirmedInv => ConfirmedIndependently
  BY DEF ConfirmedInv, Confirmed, ConfirmedIndependently
<1> QED
  BY <1>1, <1>2, <1>3, PTL DEF Spec

------------------------------------------------------------------------------
(***************************************************************************)
(* Versions.                                                               *)
(***************************************************************************)

\* What is stored in place of a row is its successor or its tombstone.
LEMMA StoredAdvances ==
    ASSUME TypeInv, NEW h \in Handlers, pc[h] = "prepared", StoreHits(h),
           NEW c \in Codes, table[c] # NoRow, Stored(h)[c] # table[c]
    PROVE  /\ ~table[c].deleted
           /\ \/ Stored(h)[c] = [table[c] EXCEPT !.deleted = TRUE]
              \/ /\ ~Stored(h)[c].deleted
                 /\ Stored(h)[c].version = table[c].version + 1
<1>1. /\ job[h] \in Job
      /\ Computed(job[h])
      /\ table \in [Codes -> ValveRow \cup {NoRow}]
  BY ExecutionAssumption DEF TypeInv, TypeOK, Jobs
<1>2. c = job[h].code
  BY <1>1 DEF Stored
<1>3. CASE job[h].op = "delete"
  BY <1>1, <1>2, <1>3 DEF StoreHits, Stored, Live, Versioned
<1>4. CASE job[h].op \in Versioned
  <2>1. Stored(h)[c] = job[h].item
    BY <1>1, <1>2, <1>4 DEF Stored, Versioned
  <2>2. ~table[c].deleted /\ table[c].version = job[h].item.version - 1
    BY <1>2, <1>4 DEF StoreHits, Live, Versioned
  <2>3. /\ job[h].item.version \in Nat
        /\ table[c].version \in Nat
    BY <1>1 DEF Job, ValveRow
  <2>4. ~job[h].item.deleted
    <3>1. job[h].read \in ValveRow /\ ~job[h].read.deleted
      BY <1>1, <1>4 DEF Computed, Versioned
    <3> QED
      BY <1>1, <1>4, <3>1 DEF Computed, Versioned, ValveRow
  <2> QED
    BY <2>1, <2>2, <2>3, <2>4
<1>5. CASE job[h].op = "create"
  BY <1>2, <1>5 DEF StoreHits, Versioned
<1> QED
  BY <1>1, <1>3, <1>4, <1>5 DEF Job, Operations

\* Only a statement that finds its row, or a free code, changes the table.
LEMMA TableChange ==
    ASSUME [Next]_vars, table' # table
    PROVE  \E h \in Handlers :
              pc[h] = "prepared" /\ StoreHits(h) /\ table' = Stored(h)
<1>1. ASSUME NEW h \in Handlers, Begin(h)
      PROVE  table' = table
  BY <1>1 DEF Begin, Create, Update, Transition, RequestControl,
              ConfirmControl, Delete, Prepare, PrepareUpdate
<1>2. ASSUME NEW h \in Handlers, Step(h)
      PROVE  pc[h] = "prepared" /\ StoreHits(h) /\ table' = Stored(h)
  BY <1>2 DEF Step, Store, Conflict, StoreFails, RecordAudit, AuditFails, Reply
<1>3. CASE Crash \/ UNCHANGED vars
  BY <1>3 DEF Crash, vars, serviceVars
<1> QED
  BY <1>1, <1>2, <1>3 DEF Next

\* Whatever versions clients send, a row only ever changes to its next version
\* or to deleted, and a deleted row stays as it is: of the requests that name
\* one version at most one succeeds.
THEOREM VersionsAdvanceByOne == Spec => OneWinnerPerVersion
<1> DEFINE Advance ==
      \A c \in Codes :
          table[c] # NoRow /\ table'[c] # table[c] =>
              /\ ~table[c].deleted
              /\ \/ table'[c] = [table[c] EXCEPT !.deleted = TRUE]
                 \/ /\ ~table'[c].deleted
                    /\ table'[c].version = table[c].version + 1
<1>1. TypeInv /\ [Next]_vars => [Advance]_vars
  <2> SUFFICES ASSUME TypeInv, [Next]_vars,
                      NEW c \in Codes, table[c] # NoRow, table'[c] # table[c]
               PROVE  /\ ~table[c].deleted
                      /\ \/ table'[c] = [table[c] EXCEPT !.deleted = TRUE]
                         \/ /\ ~table'[c].deleted
                            /\ table'[c].version = table[c].version + 1
    OBVIOUS
  <2>1. PICK h \in Handlers :
          pc[h] = "prepared" /\ StoreHits(h) /\ table' = Stored(h)
    BY TableChange
  <2> QED
    BY <2>1, StoredAdvances
<1> QED
  BY <1>1, TypeInvariant, PTL DEF Spec, OneWinnerPerVersion

------------------------------------------------------------------------------
(***************************************************************************)
(* The optimistic lock.  When clients name versions they have read, the    *)
(* version a handler compares is no newer than the row it read, and that   *)
(* row is the current one or older: the comparison succeeds only if the    *)
(* row did not change in between.                                          *)
(***************************************************************************)
Fresh(j, row) ==
    /\ row \in ValveRow
    /\ j.item.version - 1 <= j.read.version
    /\ j.read.version <= row.version
    /\ row.version = j.read.version /\ ~row.deleted => row = j.read

FreshInv ==
    /\ TypeInv
    /\ \A h \in Handlers :
          pc[h] = "prepared" /\ job[h].op \in Versioned =>
             Fresh(job[h], table[job[h].code])

LEMMA FreshHit ==
    ASSUME FreshInv, NEW h \in Handlers, pc[h] = "prepared",
           job[h].op \in Versioned, StoreHits(h)
    PROVE  /\ table[job[h].code] = job[h].read
           /\ job[h].item.version = job[h].read.version + 1
<1>1. job[h] \in Job /\ Computed(job[h])
  BY ExecutionAssumption DEF FreshInv, TypeInv, TypeOK, Jobs
<1>2. job[h].read \in ValveRow /\ job[h].item \in ValveRow
  BY <1>1 DEF Computed, Job, Versioned
<1>3. /\ job[h].read.version \in Nat
      /\ job[h].item.version \in Nat
      /\ table[job[h].code].version \in Nat
  BY <1>2 DEF FreshInv, Fresh, ValveRow
<1>4. /\ ~table[job[h].code].deleted
      /\ table[job[h].code].version = job[h].item.version - 1
  BY DEF StoreHits, Live, Versioned
<1> QED
  BY <1>3, <1>4 DEF FreshInv, Fresh

\* A write by one handler leaves the others fresh or sure to lose.
LEMMA FreshStored ==
    ASSUME FreshInv, NEW h \in Handlers, pc[h] = "prepared", StoreHits(h),
           NEW g \in Handlers, pc[g] = "prepared", job[g].op \in Versioned
    PROVE  Fresh(job[g], Stored(h)[job[g].code])
<1> DEFINE c == job[g].code
<1>1. /\ job[h] \in Job
      /\ table \in [Codes -> ValveRow \cup {NoRow}]
      /\ c \in Codes
      /\ Fresh(job[g], table[c])
      /\ job[g].read \in ValveRow
  BY ExecutionAssumption
     DEF FreshInv, TypeInv, TypeOK, Jobs, Job, Computed, Versioned
<1>2. CASE job[h].code # c
  BY <1>1, <1>2 DEF Stored
<1>3. CASE job[h].code = c /\ job[h].op = "create"
  <2>1. table[c] = NoRow
    BY <1>3 DEF StoreHits, Versioned
  <2> QED
    BY <1>1, <2>1, ValveRecordsAssumption DEF Fresh
<1>4. CASE job[h].code = c /\ job[h].op = "delete"
  <2>1. Stored(h)[c] = [table[c] EXCEPT !.deleted = TRUE]
    BY <1>1, <1>4 DEF Stored
  <2> QED
    BY <1>1, <2>1 DEF Fresh, ValveRow
<1>5. CASE job[h].code = c /\ job[h].op \in Versioned
  <2>1. Stored(h)[c] = job[h].item
    BY <1>1, <1>5 DEF Stored, Versioned
  <2>2. /\ table[c] = job[h].read
        /\ job[h].item.version = job[h].read.version + 1
    BY <1>5, FreshHit
  <2>3. job[h].item \in ValveRow
    BY <1>1 DEF Job
  <2>4. /\ job[g].read.version \in Nat
        /\ table[c].version \in Nat
        /\ job[h].item.version = table[c].version + 1
    BY <1>1, <2>2 DEF Fresh, ValveRow
  <2> QED
    BY <1>1, <2>1, <2>3, <2>4 DEF Fresh
<1> QED
  BY <1>1, <1>2, <1>3, <1>4, <1>5 DEF Job, Operations

LEMMA NextFreshInv ==
    ASSUME Predicted = {}, FreshInv, [Next]_vars
    PROVE  FreshInv'
<1>1. TypeInv /\ TypeInv'
  BY NextTypeInv DEF FreshInv
<1>2. CASE UNCHANGED vars
  BY <1>1, <1>2 DEF vars, serviceVars, FreshInv, Fresh
<1>3. CASE Crash
  BY <1>1, <1>3 DEF Crash, FreshInv
<1>4. ASSUME NEW h \in Handlers, Begin(h)
      PROVE  FreshInv'
  <2>1. PICK j \in Job :
          /\ Prepare(h, j.op, j.actor, j.code, j.read, j.item)
          /\ j = NewJob(j.op, j.actor, j.code, j.read, j.item)
          /\ Computed(j)
          /\ j.op # "create" => j.read = table[j.code]
          /\ j.op \in Versioned =>
                j.item.version - 1 \in ExpectedVersions(j.code)
    BY <1>1, <1>4, BeginPrepares DEF TypeInv
  <2>2. /\ table' = table
        /\ pc' = [pc EXCEPT ![h] = "prepared"]
        /\ job' = [job EXCEPT ![h] = j]
    BY <2>1 DEF Prepare, NewJob
  <2>3. ASSUME j.op \in Versioned
        PROVE  Fresh(j, table[j.code])
    <3>1. table[j.code] = j.read /\ j.read \in ValveRow
      BY <2>1, <2>3 DEF Computed, Versioned
    <3>2. j.item.version - 1 \in 1..table[j.code].version
      BY <2>1, <2>3 DEF ExpectedVersions
    <3> QED
      BY <3>1, <3>2 DEF Fresh, ValveRow
  <2>4. /\ pc \in [Handlers -> Phases]
        /\ job \in [Handlers -> Job \cup {NoJob}]
    BY <1>1 DEF TypeInv, TypeOK
  <2>5. ASSUME NEW g \in Handlers, pc'[g] = "prepared",
               job'[g].op \in Versioned
        PROVE  Fresh(job'[g], table'[job'[g].code])
    <3>1. CASE g = h
      BY <2>2, <2>3, <2>4, <2>5, <3>1
    <3>2. CASE g # h
      BY <2>2, <2>4, <2>5, <3>2 DEF FreshInv
    <3> QED
      BY <3>1, <3>2
  <2> QED
    BY <1>1, <2>5 DEF FreshInv, Fresh
<1>5. ASSUME NEW h \in Handlers, Step(h)
      PROVE  FreshInv'
  <2>1. \/ table' = table
        \/ pc[h] = "prepared" /\ StoreHits(h) /\ table' = Stored(h)
    BY <1>5 DEF Step, Store, Conflict, StoreFails, RecordAudit, AuditFails, Reply
  <2>2. ASSUME NEW g \in Handlers, pc'[g] = "prepared"
        PROVE  pc[g] = "prepared" /\ job'[g] = job[g]
    BY <1>1, <1>5, <2>2
       DEF TypeInv, TypeOK, Step, Store, Conflict, StoreFails, RecordAudit,
           AuditFails, Reply, Finish
  <2>3. ASSUME NEW g \in Handlers, pc'[g] = "prepared",
               job'[g].op \in Versioned
        PROVE  Fresh(job'[g], table'[job'[g].code])
    BY <2>1, <2>2, <2>3, FreshStored DEF FreshInv
  <2> QED
    BY <1>1, <2>3 DEF FreshInv, Fresh
<1> QED
  BY <1>2, <1>3, <1>4, <1>5 DEF Next

LEMMA FreshInvariant ==
    ASSUME Predicted = {}
    PROVE  Spec => []FreshInv
<1>1. Init => FreshInv
  BY InitTypeInv DEF Init, FreshInv
<1>2. FreshInv /\ [Next]_vars => FreshInv'
  BY NextFreshInv
<1> QED
  BY <1>1, <1>2, PTL DEF Spec

\* With clients that name versions they have read, an UPDATE that finds its
\* version overwrites exactly the row its handler read.
THEOREM UpdatesAreNotLost ==
    ASSUME Predicted = {}
    PROVE  Spec => []NoLostUpdate
<1>1. FreshInv => NoLostUpdate
  BY FreshHit DEF NoLostUpdate
<1> QED
  BY <1>1, FreshInvariant, PTL

------------------------------------------------------------------------------
(***************************************************************************)
(* The service implements ValveControl: the statement that stores a row is *)
(* the atomic operation, every other step is a stutter.                    *)
(***************************************************************************)
LEMMA StoredIsAtomic ==
    ASSUME FreshInv, NEW h \in Handlers, pc[h] = "prepared", StoreHits(h),
           table' = Stored(h)
    PROVE  Atomic!ControlNext
<1> DEFINE j == job[h]
           c == j.code
<1>1. /\ j \in Job
      /\ Computed(j)
      /\ c \in Codes
      /\ j.actor \in Users
      /\ table \in [Codes -> ValveRow \cup {NoRow}]
  BY ExecutionAssumption DEF FreshInv, TypeInv, TypeOK, Jobs, Job
<1>2. j.op # "delete" => table' = [table EXCEPT ![c] = j.item]
  BY DEF Stored
<1>3. j.op # "create" => Live(table[c]) /\ table[c] \in ValveRow
  BY <1>1 DEF StoreHits, Live, Versioned
<1>4. j.op \in Versioned => /\ table[c] = j.read
                            /\ j.item.version = table[c].version + 1
  BY FreshHit
<1>5. j.actor \in Callers(MayCall[j.op])
  BY <1>1 DEF Computed
<1> HIDE DEF j, c
<1>6. CASE j.op = "create"
  <2>1. table[c] = NoRow
    BY <1>6 DEF StoreHits, Versioned, j, c
  <2>2. PICK d \in Data : j.item = NewRow("planned", d)
    BY <1>1, <1>6 DEF Computed
  <2>3. Atomic!Create(c)
    BY <1>2, <1>6, <2>1, <2>2 DEF Atomic!Create, Atomic!Put, NewRow, Atomic!NewRow
  <2> QED
    BY <1>1, <2>3 DEF Atomic!ControlNext, Atomic!Operation
<1>7. CASE j.op = "update"
  <2>1. PICK d \in Data : j.item = [j.read EXCEPT !.data = d,
                                                  !.version = j.item.version]
    BY <1>1, <1>7 DEF Computed
  <2>2. j.item = [table[c] EXCEPT !.data = d, !.version = @ + 1]
    BY <1>3, <1>4, <1>7, <2>1 DEF Versioned
  <2>3. Atomic!Edit(c)
    BY <1>2, <1>3, <1>7, <2>2 DEF Atomic!Edit, Atomic!Put, Live, Atomic!Live
  <2> QED
    BY <1>1, <2>3 DEF Atomic!ControlNext, Atomic!Operation
<1>8. CASE j.op = "transition"
  <2>1. PICK s \in ValveExecutionTransitions[j.read.status] :
          j.item = [j.read EXCEPT !.status = s, !.version = j.item.version]
    BY <1>1, <1>8 DEF Computed
  <2>2. j.read = table[c] /\ j.read.status # "planned"
    BY <1>1, <1>4, <1>8 DEF Computed, Versioned
  <2>3. j.item = [table[c] EXCEPT !.status = s, !.version = @ + 1]
    BY <1>3, <1>4, <1>8, <2>1, <2>2 DEF Versioned
  <2>4. ValveExecutionTransitions = Atomic!ValveExecutionTransitions
    BY DEF ValveExecutionTransitions, Atomic!ValveExecutionTransitions
  <2>5. s \in Atomic!ValveExecutionTransitions[table[c].status]
    BY <2>1, <2>2, <2>4
  <2>6. table' = [table EXCEPT ![c] = [table[c] EXCEPT !.status = s,
                                                      !.version = @ + 1]]
    BY <1>2, <1>8, <2>3
  <2>7. Atomic!Move(c, s)
    BY <1>3, <1>8, <2>2, <2>5, <2>6
       DEF Atomic!Move, Atomic!MayMove, Atomic!Put, Live, Atomic!Live
  <2>8. s \in Atomic!ExecutionStates
    BY <1>3, <1>8, <2>1, <2>2
       DEF ValveRow, ExecutionStates, Atomic!ExecutionStates, ValveExecutionTransitions
  <2> QED
    BY <1>1, <2>7, <2>8 DEF Atomic!ControlNext, Atomic!Operation
<1>9. CASE j.op = "control_request"
  <2>1. /\ j.read.status = "planned"
        /\ j.read.requestedBy = NoUser
        /\ j.item = [j.read EXCEPT !.requestedBy = j.actor,
                                   !.version = j.item.version]
    BY <1>1, <1>9 DEF Computed
  <2>2. j.item = [table[c] EXCEPT !.requestedBy = j.actor, !.version = @ + 1]
    BY <1>3, <1>4, <1>9, <2>1 DEF Versioned
  <2>3. j.actor \in Atomic!Callers({"operator", "admin"})
    BY <1>5, <1>9 DEF MayCall, Callers, Atomic!Callers
  <2>4. Atomic!AskForStart(c, j.actor)
    BY <1>1, <1>2, <1>3, <1>4, <1>9, <2>1, <2>2, <2>3
       DEF Atomic!AskForStart, Atomic!MayAsk, Atomic!Put, Live, Atomic!Live,
           Versioned
  <2> QED
    BY <1>1, <2>4 DEF Atomic!ControlNext, Atomic!Operation
<1>10. CASE j.op = "control_confirm"
  <2>1. /\ j.read.status = "planned"
        /\ j.read.requestedBy \notin {NoUser, j.actor}
        /\ j.item = [j.read EXCEPT !.status = "running",
                                   !.confirmedBy = j.actor,
                                   !.version = j.item.version]
    BY <1>1, <1>10 DEF Computed
  <2>2. j.item = [table[c] EXCEPT !.status = "running",
                                  !.confirmedBy = j.actor, !.version = @ + 1]
    BY <1>3, <1>4, <1>10, <2>1 DEF Versioned
  <2>3. j.actor \in Atomic!Callers({"reviewer", "admin"})
    BY <1>5, <1>10 DEF MayCall, Callers, Atomic!Callers
  <2>4. table[c] = j.read
    BY <1>4, <1>10 DEF Versioned
  <2>5. table' = [table EXCEPT ![c] =
                    [table[c] EXCEPT !.status = "running",
                                     !.confirmedBy = j.actor,
                                     !.version = @ + 1]]
    BY <1>2, <1>10, <2>2
  <2>6. Atomic!ConfirmStart(c, j.actor)
    BY <1>3, <1>10, <2>1, <2>3, <2>4, <2>5
       DEF Atomic!ConfirmStart, Atomic!MayConfirm, Atomic!Put, Live, Atomic!Live
  <2> QED
    BY <1>1, <2>6 DEF Atomic!ControlNext, Atomic!Operation
<1>11. CASE j.op = "delete"
  <2>1. table' = [table EXCEPT ![c] = [table[c] EXCEPT !.deleted = TRUE]]
    BY <1>1, <1>11 DEF Stored, j, c
  <2>2. Atomic!Remove(c)
    BY <1>3, <1>11, <2>1 DEF Atomic!Remove, Atomic!Put, Live, Atomic!Live
  <2> QED
    BY <1>1, <2>2 DEF Atomic!ControlNext, Atomic!Operation
<1> QED
  BY <1>1, <1>6, <1>7, <1>8, <1>9, <1>10, <1>11 DEF Job, Operations, Versioned

\* With clients that name versions they have read, Get, the local changes and
\* the UPDATE of a request act as one atomic operation on the current row, and
\* the two-person rule of ValveControl is kept by every one of them.
THEOREM ServiceImplementsControl ==
    ASSUME Predicted = {}
    PROVE  Spec => AtomicOperations
<1>1. Init => Atomic!ControlInit
  BY DEF Init, Atomic!ControlInit, NewRow, Atomic!NewRow
<1>2. FreshInv /\ [Next]_vars => [Atomic!ControlNext]_table
  <2> SUFFICES ASSUME FreshInv, [Next]_vars, table' # table
               PROVE  Atomic!ControlNext
    OBVIOUS
  <2>1. PICK h \in Handlers :
          pc[h] = "prepared" /\ StoreHits(h) /\ table' = Stored(h)
    BY TableChange
  <2> QED
    BY <2>1, StoredIsAtomic
<1>3. Spec => []FreshInv
  BY FreshInvariant
<1> QED
  BY <1>1, <1>2, <1>3, PTL DEF Spec, AtomicOperations, Atomic!ControlSpec

------------------------------------------------------------------------------
(***************************************************************************)
(* Progress.  A request has at most three steps to go, and nothing another *)
(* handler does, a crash excepted, changes where a handler is.             *)
(*                                                                         *)
(* The theorems assume that a handler at work is scheduled: unless it is   *)
(* idle again and again, it steps again and again.  That is what FairSpec  *)
(* asks of a handler that can always step, said without ENABLED.           *)
(***************************************************************************)
Runs(h) == []<>(pc[h] = "idle") \/ []<><<Step(h)>>_vars

StepsRunOn == \A h \in Handlers : Runs(h)

\* The three phases a request can go through after this one, in their order.
NextPhases == [idle |-> {"prepared"}, prepared |-> {"stored", "idle"},
               stored |-> {"replying", "idle"}, replying |-> {"idle"}]

\* Each step of a handler takes it to its next phase.
LEMMA StepAdvances ==
    ASSUME TypeInv, NEW h \in Handlers, Step(h)
    PROVE  pc[h] # "idle" /\ pc'[h] \in NextPhases[pc[h]]
BY DEF TypeInv, TypeOK, Step, Store, Conflict, StoreFails, RecordAudit,
       AuditFails, Reply, Finish, NextPhases

\* What others do leaves a handler where it is.
LEMMA OthersStep ==
    ASSUME TypeInv, NEW h \in Handlers, NEW k \in Handlers, k # h,
           Begin(k) \/ Step(k)
    PROVE  pc'[h] = pc[h] /\ job'[h] = job[h]
<1>1. CASE Begin(k)
  BY <1>1 DEF TypeInv, TypeOK, Begin, Create, Update, Transition, RequestControl,
              ConfirmControl, Delete, PrepareUpdate, Prepare
<1>2. CASE Step(k)
  BY <1>2 DEF TypeInv, TypeOK, Step, Store, Conflict, StoreFails, RecordAudit,
              AuditFails, Reply, Finish
<1> QED
  BY <1>1, <1>2

\* A request that is admitted stays where it is, advances, or ends.
LEMMA PhaseAdvances ==
    ASSUME TypeInv, [Next]_vars, NEW h \in Handlers, pc[h] # "idle"
    PROVE  pc'[h] \in {pc[h], "idle"} \cup NextPhases[pc[h]]
<1>1. CASE UNCHANGED vars
  BY <1>1 DEF vars, serviceVars
<1>2. CASE Crash
  BY <1>2 DEF Crash
<1>3. ASSUME NEW k \in Handlers, k # h, Begin(k) \/ Step(k)
      PROVE  pc'[h] = pc[h]
  BY <1>3, OthersStep
<1>4. CASE Step(h)
  BY <1>4, StepAdvances
<1>5. ~Begin(h)
  BY DEF Begin, Create, Update, Transition, RequestControl, ConfirmControl,
         Delete, PrepareUpdate, Prepare
<1> QED
  BY <1>1, <1>2, <1>3, <1>4, <1>5 DEF Next

\* One handler's requests end when that handler runs on.
LEMMA RequestEnds ==
    ASSUME NEW h \in Handlers
    PROVE  Spec /\ Runs(h) => (pc[h] # "idle" ~> pc[h] = "idle")
<1> DEFINE Prepared == pc[h] = "prepared"
           Recording == pc[h] = "stored"
           Replying == pc[h] = "replying"
           Idle == pc[h] = "idle"
<1>1. TypeInv => Prepared \/ Recording \/ Replying \/ Idle
  BY DEF TypeInv, TypeOK, Phases
<1>2. TypeInv /\ [Next]_vars /\ Prepared => (Prepared \/ Recording \/ Idle)'
  BY PhaseAdvances DEF NextPhases
<1>3. TypeInv /\ [Next]_vars /\ Recording => (Recording \/ Replying \/ Idle)'
  BY PhaseAdvances DEF NextPhases
<1>4. TypeInv /\ [Next]_vars /\ Replying => (Replying \/ Idle)'
  BY PhaseAdvances DEF NextPhases
<1>5. TypeInv /\ Prepared /\ <<Step(h)>>_vars => (Recording \/ Idle)'
  BY StepAdvances DEF NextPhases
<1>6. TypeInv /\ Recording /\ <<Step(h)>>_vars => (Replying \/ Idle)'
  BY StepAdvances DEF NextPhases
<1>7. TypeInv /\ Replying /\ <<Step(h)>>_vars => Idle'
  BY StepAdvances DEF NextPhases
<1>8. Spec /\ Runs(h) => (~Idle ~> Idle)
  <2> HIDE DEF Prepared, Recording, Replying
  <2> QED
    BY <1>1, <1>2, <1>3, <1>4, <1>5, <1>6, <1>7, TypeInvariant, PTL DEF Spec, Runs
<1> QED
  BY <1>8, PTL

\* Every request that is admitted ends, whatever fails and whatever the other
\* handlers do, as long as its goroutine runs on.
THEOREM RequestsComeToAnEnd == Spec /\ StepsRunOn => RequestsEnd
<1>1. SUFFICES ASSUME NEW h \in Handlers
               PROVE  Spec /\ StepsRunOn => (pc[h] # "idle" ~> pc[h] = "idle")
  BY DEF RequestsEnd
<1>2. StepsRunOn => Runs(h)
  BY DEF StepsRunOn
<1>3. Spec /\ Runs(h) => (pc[h] # "idle" ~> pc[h] = "idle")
  BY RequestEnds
<1> QED
  BY <1>2, <1>3, PTL

\* A handler about to update a row of code c with the version v the row has.
AboutToWin(c, v, h) ==
    /\ Live(table[c]) /\ table[c].version = v
    /\ pc[h] = "prepared"
    /\ job[h].code = c /\ job[h].op \in Versioned
    /\ job[h].item.version = v + 1

Overtaken(c, v) ==
    table[c] # NoRow /\ (table[c].version > v \/ table[c].deleted)

\* A row that changes has the version overtaken.
LEMMA ChangeOvertakes ==
    ASSUME TypeInv, [Next]_vars, NEW c \in Codes, NEW v \in Nat,
           Live(table[c]), table[c].version = v, table'[c] # table[c]
    PROVE  Overtaken(c, v)'
<1>1. PICK k \in Handlers :
        pc[k] = "prepared" /\ StoreHits(k) /\ table' = Stored(k)
  BY TableChange
<1>2. table[c] \in ValveRow /\ table[c] # NoRow
  BY DEF Live, TypeInv, TypeOK
<1>3. \/ table'[c] = [table[c] EXCEPT !.deleted = TRUE]
      \/ table'[c].version = v + 1
  BY <1>1, <1>2, StoredAdvances
<1>4. table'[c] \in ValveRow
  <2>1. job[k] \in Job
    BY <1>1 DEF TypeInv, TypeOK
  <2> QED
    BY <1>1, <1>2, <2>1 DEF Stored, Job, ValveRow, TypeInv, TypeOK
<1> QED
  BY <1>2, <1>3, <1>4, ValveRecordsAssumption DEF Overtaken, ValveRow

\* When it steps, its UPDATE finds the row.
LEMMA WinnerSteps ==
    ASSUME TypeInv, {"store", "crash"} \cap Faults = {}, [Next]_vars,
           NEW c \in Codes, NEW v \in Nat, NEW h \in Handlers,
           AboutToWin(c, v, h), Step(h)
    PROVE  Overtaken(c, v)'
<1>1. job[h] \in Job
  BY DEF AboutToWin, TypeInv, TypeOK
<1>2. StoreHits(h)
  BY DEF AboutToWin, StoreHits
<1>3. table' = Stored(h)
  BY <1>2 DEF AboutToWin, Step, Store, Conflict, StoreFails, RecordAudit,
              AuditFails, Reply
<1>4. table'[c] = job[h].item
  BY <1>1, <1>3 DEF Stored, AboutToWin, Versioned, TypeInv, TypeOK
<1> QED
  BY <1>1, <1>4, ValveRecordsAssumption DEF Overtaken, AboutToWin, Job, ValveRow

\* What the handler is about to do stays possible until the row has changed.
LEMMA WinnerWaits ==
    ASSUME TypeInv, [Next]_vars, {"store", "crash"} \cap Faults = {},
           NEW c \in Codes, NEW v \in Nat, NEW h \in Handlers, AboutToWin(c, v, h)
    PROVE  (AboutToWin(c, v, h) \/ Overtaken(c, v))'
<1>1. CASE table'[c] # table[c]
  BY <1>1, ChangeOvertakes DEF AboutToWin
<1>2. CASE table'[c] = table[c] /\ ~Step(h)
  <2>1. ~Begin(h)
    BY DEF AboutToWin, Begin, Create, Update, Transition, RequestControl,
           ConfirmControl, Delete, PrepareUpdate, Prepare
  <2>2. pc'[h] = pc[h] /\ job'[h] = job[h]
    BY <1>2, <2>1, OthersStep DEF Next, Crash, vars, serviceVars
  <2> QED
    BY <1>2, <2>2 DEF AboutToWin, Live
<1>3. CASE Step(h)
  BY <1>3, WinnerSteps
<1> QED
  BY <1>1, <1>2, <1>3

\* Requests that collide never all lose: when the statement of one can hit, a
\* row is changed, by it or by another, as long as its goroutine runs on and
\* neither the statement nor the process fails.
THEOREM CollisionsHaveAWinner ==
    ASSUME {"store", "crash"} \cap Faults = {}
    PROVE  Spec /\ StepsRunOn => SomeRequestWins
<1>1. SUFFICES ASSUME NEW c \in Codes, NEW v \in 1..MaxVersion, NEW h \in Handlers
               PROVE  Spec /\ StepsRunOn => (AboutToWin(c, v, h) ~> Overtaken(c, v))
  BY DEF SomeRequestWins, AboutToWin, Overtaken
<1> DEFINE Waits == AboutToWin(c, v, h)
           Won == Overtaken(c, v)
<1>2. TypeInv /\ [Next]_vars /\ Waits => (Waits \/ Won)'
  BY WinnerWaits
<1>3. TypeInv /\ [Next]_vars /\ Waits /\ <<Step(h)>>_vars => Won'
  BY WinnerSteps
<1>4. Waits => ~(pc[h] = "idle")
  BY DEF AboutToWin
<1>5. StepsRunOn => Runs(h)
  BY DEF StepsRunOn
<1> HIDE DEF Waits, Won
<1>6. Spec /\ StepsRunOn => (Waits ~> Won)
  BY <1>2, <1>3, <1>4, <1>5, TypeInvariant, PTL DEF Spec, Runs
<1> QED
  BY <1>6 DEF Waits, Won
==============================================================================
