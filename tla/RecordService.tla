---------------------------- MODULE RecordService ----------------------------
(***************************************************************************)
(* How a request on a business record is served: the statements of the     *)
(* versioned store (repository/base.go) and of the audit log               *)
(* (service/security.go, repository/security.go) that the four services    *)
(* share.                                                                  *)
(*                                                                         *)
(* Requests are served by concurrent goroutines, the Handlers.  A request  *)
(* is up to four database statements, each atomic by itself and in no      *)
(* common transaction:                                                     *)
(*                                                                         *)
(*     Get -> local changes -> INSERT/UPDATE/DELETE -> INSERT audit -> Get *)
(*                                                                         *)
(* The arrival of the request, the first Get and the local changes are one *)
(* step, Prepare: they touch nothing shared but the row they read.  A      *)
(* request that the role gate, the binding or the service refuses changes  *)
(* nothing, so it is a handler that stays idle.  Other handlers may step   *)
(* between any two statements, and any statement may fail.                 *)
(***************************************************************************)
EXTENDS Records, Sequences

CONSTANTS
    Handlers,     \* the goroutines serving requests
    NoJob,        \* what an idle handler works on
    Predicted,    \* versions a client may send without having read them
    Faults,       \* what may fail: subset of {"store", "audit", "crash"}
    MaxVersion    \* bound: no request makes a version above it

ASSUME ServiceAssumption ==
    /\ Predicted \subseteq Nat \ {0}
    /\ Faults \subseteq {"store", "audit", "crash"}
    /\ MaxVersion \in Nat

VARIABLES
    table,        \* code -> row, or NoRow
    audits,       \* the rows of audit_logs in the order of their ids
    pc,           \* where each handler is
    job           \* what it works on: its request, the row read, the row to store

serviceVars == <<table, audits, pc, job>>

\* The operations that UPDATE a row under its version, and the others.
Versioned == {"update", "transition", "control_request", "control_confirm"}
Operations == Versioned \cup {"create", "delete"}

Phases == {"idle", "prepared", "stored", "replying"}

\* The binding refuses 0.  Clients send a version they have read, which is
\* one the row has had, or a Predicted one.
ExpectedVersions(c) ==
    {v \in 1..table[c].version \cup Predicted : v < MaxVersion}

------------------------------------------------------------------------------
\* Handler h has admitted the request and is ready to store item.
Prepare(h, op, actor, c, read, item) ==
    /\ pc[h] = "idle"
    /\ pc' = [pc EXCEPT ![h] = "prepared"]
    /\ job' = [job EXCEPT ![h] = [op |-> op, actor |-> actor, code |-> c,
                                  read |-> read, item |-> item]]
    /\ UNCHANGED <<table, audits>>

\* The row to store is the row read, changed, with the version after the one
\* the client expects.
PrepareUpdate(h, op, actor, c, item) ==
    \E v \in ExpectedVersions(c) :
        Prepare(h, op, actor, c, table[c], [item EXCEPT !.version = v + 1])

\* Mutants of StoreHits: the WHERE clause without the version, and with the
\* version the row is to have.
StoreHitsAnyVersion(h) ==
    LET row == table[job[h].code]
    IN  IF job[h].op = "create" THEN row = NoRow ELSE Live(row)

StoreHitsNewVersion(h) ==
    LET row == table[job[h].code]
    IN  IF job[h].op = "create"
        THEN row = NoRow
        ELSE Live(row) /\ row.version = job[h].item.version

\* The statement of h finds a row to write, or a free code to insert.
StoreHits(h) ==
    LET row == table[job[h].code]
    IN  \/ job[h].op = "create" /\ row = NoRow
        \/ job[h].op = "delete" /\ Live(row)
        \/ /\ job[h].op \in Versioned
           /\ Live(row)
           /\ row.version = job[h].item.version - 1

\* UPDATE writes every column; the soft delete only the mark.
Stored(h) ==
    IF job[h].op = "delete"
    THEN [table EXCEPT ![job[h].code].deleted = TRUE]
    ELSE [table EXCEPT ![job[h].code] = job[h].item]

Finish(h) ==
    /\ pc' = [pc EXCEPT ![h] = "idle"]
    /\ job' = [job EXCEPT ![h] = NoJob]

Store(h) ==
    /\ pc[h] = "prepared"
    /\ StoreHits(h)
    /\ table' = Stored(h)
    /\ pc' = [pc EXCEPT ![h] = "stored"]
    /\ UNCHANGED <<audits, job>>

\* Mutants of Conflict: RowsAffected is not looked at, and the handler tries
\* the statement again.
ConflictIgnored(h) ==
    /\ pc[h] = "prepared"
    /\ ~StoreHits(h)
    /\ pc' = [pc EXCEPT ![h] = "stored"]
    /\ UNCHANGED <<table, audits, job>>

ConflictRetries(h) ==
    /\ pc[h] = "prepared"
    /\ ~StoreHits(h)
    /\ UNCHANGED serviceVars

\* ErrVersionConflict, ErrRecordNotFound or a violated unique index.
Conflict(h) ==
    /\ pc[h] = "prepared"
    /\ ~StoreHits(h)
    /\ Finish(h)
    /\ UNCHANGED <<table, audits>>

\* The statement fails or the deadline passes; it may have been committed.
StoreFails(h) ==
    /\ "store" \in Faults
    /\ pc[h] = "prepared"
    /\ table' \in {table} \cup (IF StoreHits(h) THEN {Stored(h)} ELSE {})
    /\ Finish(h)
    /\ UNCHANGED audits

\* Mutant of AuditEntry: "before" is taken after the status was assigned.
AuditEntryTooLate(h) ==
    LET j == job[h]
    IN  [code   |-> j.code,
         write  |-> IF j.op = "delete" THEN 0 ELSE j.item.version,
         action |-> j.op,
         actor  |-> j.actor,
         before |-> IF j.op = "create" THEN "" ELSE j.item.status,
         after  |-> IF j.op = "delete" THEN "deleted" ELSE j.item.status]

AuditEntry(h) ==
    LET j == job[h]
    IN  [code   |-> j.code,
         write  |-> IF j.op = "delete" THEN 0 ELSE j.item.version,
         action |-> j.op,
         actor  |-> j.actor,
         before |-> IF j.op = "create" THEN "" ELSE j.read.status,
         after  |-> IF j.op = "delete" THEN "deleted" ELSE j.item.status]

\* Mutant of RecordAudit: only a change of status is recorded.
RecordAuditOfStatusChange(h) ==
    /\ pc[h] = "stored"
    /\ audits' = IF AuditEntry(h).before = AuditEntry(h).after
                 THEN audits ELSE Append(audits, AuditEntry(h))
    /\ pc' = [pc EXCEPT ![h] = "replying"]
    /\ UNCHANGED <<table, job>>

RecordAudit(h) ==
    /\ pc[h] = "stored"
    /\ audits' = Append(audits, AuditEntry(h))
    /\ pc' = [pc EXCEPT ![h] = "replying"]
    /\ UNCHANGED <<table, job>>

\* Mutant of AuditFails: every operation ignores the error.
AuditFailsSilently(h) ==
    /\ "audit" \in Faults
    /\ pc[h] = "stored"
    /\ audits' \in {audits, Append(audits, AuditEntry(h))}
    /\ pc' = [pc EXCEPT ![h] = "replying"]
    /\ UNCHANGED <<table, job>>

\* Create and Update ignore the error and answer as if nothing happened.
AuditFails(h) ==
    /\ "audit" \in Faults
    /\ pc[h] = "stored"
    /\ audits' \in {audits, Append(audits, AuditEntry(h))}
    /\ IF job[h].op \in {"create", "update"}
       THEN pc' = [pc EXCEPT ![h] = "replying"] /\ UNCHANGED job
       ELSE Finish(h)
    /\ UNCHANGED table

\* The last Get changes nothing whether it succeeds or not.
Reply(h) ==
    /\ pc[h] = "replying"
    /\ Finish(h)
    /\ UNCHANGED <<table, audits>>

Step(h) ==
    \/ Store(h) \/ Conflict(h) \/ StoreFails(h)
    \/ RecordAudit(h) \/ AuditFails(h) \/ Reply(h)

\* The process stops: out of memory, a restart, or the end of the ten
\* seconds Shutdown waits for requests that may last fifteen.
Crash ==
    /\ "crash" \in Faults
    /\ \E h \in Handlers : pc[h] # "idle"
    /\ pc' = [h \in Handlers |-> "idle"]
    /\ job' = [h \in Handlers |-> NoJob]
    /\ UNCHANGED <<table, audits>>
==============================================================================
