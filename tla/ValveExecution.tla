--------------------------- MODULE ValveExecution ----------------------------
(***************************************************************************)
(* The valve execution service (service/valve_execution.go) and its role   *)
(* gates (handler/valve_execution.go).  Each operation of the API is an    *)
(* action that reads the row, applies the operation's guards and prepares  *)
(* the row to store; RecordService serves it from there.                   *)
(***************************************************************************)
EXTENDS ValveRecords, RecordService

CONSTANT Seeded     \* the status of each code's first row, "absent" if none

vars == serviceVars

Job == [op   : Operations,
        actor: Users,
        code : Codes,
        read : ValveRow \cup {NoRow},
        item : ValveRow]

(***************************************************************************)
(* An audit row.  "write" stands for the request id: every request writes  *)
(* at most once, and its write is known by the version it stored, 0 for    *)
(* the delete.                                                             *)
(***************************************************************************)
AuditLog == [code  : Codes,
             write : Nat,
             action: Operations,
             actor : Users,
             before: ExecutionStates \cup {""},
             after : ExecutionStates \cup {"deleted"}]

MayCall == [create          |-> {"operator", "admin"},
            update          |-> {"operator", "admin"},
            transition      |-> {"operator", "reviewer", "admin"},
            control_request |-> {"operator", "admin"},
            control_confirm |-> {"reviewer", "admin"},
            delete          |-> {"admin"}]

ASSUME ExecutionAssumption ==
    /\ NoJob \notin Job
    /\ Seeded \in [Codes -> ExecutionStates \cup {"absent"}]

------------------------------------------------------------------------------
Init ==
    /\ \E d \in Data :
          table = [c \in Codes |-> IF Seeded[c] = "absent"
                                   THEN NoRow ELSE NewRow(Seeded[c], d)]
    /\ audits = <<>>
    /\ pc = [h \in Handlers |-> "idle"]
    /\ job = [h \in Handlers |-> NoJob]

Create(h) ==
    \E u \in Callers(MayCall.create), c \in Codes, d \in Data :
        Prepare(h, "create", u, c, NoRow, NewRow("planned", d))

Update(h) ==
    \E u \in Callers(MayCall.update), c \in Codes, d \in Data :
        /\ Live(table[c])
        /\ PrepareUpdate(h, "update", u, c, [table[c] EXCEPT !.data = d])

\* Mutant of Transition: the remote start is not refused.
TransitionMayStart(h) ==
    \E u \in Callers(MayCall.transition), c \in Codes, target \in ExecutionStates :
        /\ Live(table[c])
        /\ CanTransition(ValveExecutionTransitions, table[c].status, target)
        /\ PrepareUpdate(h, "transition", u, c,
                         [table[c] EXCEPT !.status = target])

Transition(h) ==
    \E u \in Callers(MayCall.transition), c \in Codes, target \in ExecutionStates :
        /\ Live(table[c])
        /\ ~(table[c].status = "planned" /\ target = "running")
        /\ CanTransition(ValveExecutionTransitions, table[c].status, target)
        /\ PrepareUpdate(h, "transition", u, c,
                         [table[c] EXCEPT !.status = target])

\* A request without "confirmed" is refused before the row is read, here and
\* in ConfirmControl.
RequestControl(h) ==
    \E u \in Callers(MayCall.control_request), c \in Codes :
        /\ Live(table[c])
        /\ table[c].status = "planned"
        /\ table[c].requestedBy = NoUser
        /\ PrepareUpdate(h, "control_request", u, c,
                         [table[c] EXCEPT !.requestedBy = u])

\* Mutant of ConfirmControl: the requester is not compared with the actor.
ConfirmControlByAnyone(h) ==
    \E u \in Callers(MayCall.control_confirm), c \in Codes :
        /\ Live(table[c])
        /\ table[c].status = "planned"
        /\ table[c].requestedBy # NoUser
        /\ PrepareUpdate(h, "control_confirm", u, c,
                         [table[c] EXCEPT !.status = "running", !.confirmedBy = u])

ConfirmControl(h) ==
    \E u \in Callers(MayCall.control_confirm), c \in Codes :
        /\ Live(table[c])
        /\ table[c].status = "planned"
        /\ table[c].requestedBy \notin {NoUser, u}
        /\ CanTransition(ValveExecutionTransitions, table[c].status, "running")
        /\ PrepareUpdate(h, "control_confirm", u, c,
                         [table[c] EXCEPT !.status = "running", !.confirmedBy = u])

Delete(h) ==
    \E u \in Callers(MayCall.delete), c \in Codes :
        /\ Live(table[c])
        /\ Prepare(h, "delete", u, c, table[c], table[c])

Begin(h) ==
    \/ Create(h) \/ Update(h) \/ Transition(h)
    \/ RequestControl(h) \/ ConfirmControl(h) \/ Delete(h)

Next == (\E h \in Handlers : Begin(h) \/ Step(h)) \/ Crash

Spec == Init /\ [][Next]_vars

\* A goroutine that serves a request runs on, and the request's deadline
\* ends every wait for the database.
FairSpec == Spec /\ \A h \in Handlers : WF_vars(Step(h))

------------------------------------------------------------------------------
(***************************************************************************)
(* Properties of the rows.                                                 *)
(***************************************************************************)

\* Every variable holds a value of its type, and a handler has a job exactly
\* when it is not idle.
TypeOK ==
    /\ table \in [Codes -> ValveRow \cup {NoRow}]
    /\ audits \in Seq(AuditLog)
    /\ pc \in [Handlers -> Phases]
    /\ job \in [Handlers -> Job \cup {NoJob}]
    /\ \A h \in Handlers : pc[h] = "idle" <=> job[h] = NoJob

Independent(row) ==
    /\ row.requestedBy # NoUser
    /\ row.confirmedBy # NoUser
    /\ row.requestedBy # row.confirmedBy

\* An execution created through the API that has left "planned" was asked
\* for by one person and confirmed by another, whatever the interleaving, the
\* faults and the versions clients send (ConfirmControl, lines 147-182; the
\* refusal in Transition, lines 100-102).
ConfirmedIndependently ==
    \A c \in Codes :
        /\ Seeded[c] \in {"absent", "planned"}
        /\ table[c] # NoRow
        /\ table[c].status # "planned"
        => Independent(table[c])

\* An UPDATE that finds its version finds the very row the handler read: no
\* write of another request is lost between Get and Update (base.go:59-70).
NoLostUpdate ==
    \A h \in Handlers :
        /\ pc[h] = "prepared"
        /\ job[h].op \in Versioned
        /\ StoreHits(h)
        => table[job[h].code] = job[h].read

\* Whatever versions clients send, of the requests that name one version at
\* most one succeeds, and a deleted row never changes again: a step that
\* changes a row adds one to the version of a live row or marks it deleted.
OneWinnerPerVersion ==
    [][\A c \in Codes :
          table[c] # NoRow /\ table'[c] # table[c] =>
              /\ ~table[c].deleted
              /\ \/ table'[c] = [table[c] EXCEPT !.deleted = TRUE]
                 \/ /\ ~table'[c].deleted
                    /\ table'[c].version = table[c].version + 1]_vars

Atomic == INSTANCE ValveControl WITH table <- table, Seeded <- Seeded

\* With clients that send versions they have read, every operation acts as
\* one atomic step on the current row, under the rules of ValveControl: the
\* optimistic lock makes Get, local changes and Update one transaction.
AtomicOperations == Atomic!ControlSpec

\* A row that enters "running" was planned and had been asked for
\* (VALIDATION.md:15, "the general status interface cannot bypass it").
StartNeedsConfirmation ==
    [][\A c \in Codes :
          /\ Live(table[c])
          /\ table[c].status # "running"
          /\ table'[c].status = "running"
          => table[c].status = "planned" /\ table[c].requestedBy # NoUser]_vars

------------------------------------------------------------------------------
(***************************************************************************)
(* Properties of the audit trail.                                          *)
(***************************************************************************)

\* The audit trail of a record is a walk: the entry of a write starts in the
\* status the entry of the write before it ended in, however late each was
\* recorded (the before and after arguments of every call of Audit).
TrailIsAWalk ==
    \A i, j \in DOMAIN audits :
        /\ audits[i].code = audits[j].code
        /\ audits[i].write > 0
        /\ audits[j].write = audits[i].write + 1
        => audits[j].before = audits[i].after

\* Nothing is audited that was not written, and nothing twice.
NoPhantomAudit ==
    \A i \in DOMAIN audits :
        LET a == audits[i]
            row == table[a.code]
        IN  /\ row # NoRow
            /\ IF a.write = 0 THEN row.deleted ELSE a.write <= row.version
            /\ \A j \in DOMAIN audits \ {i} :
                  <<audits[j].code, audits[j].write>> # <<a.code, a.write>>

Audited(c, w) == \E i \in DOMAIN audits : audits[i].code = c /\ audits[i].write = w

Auditing(c, w) ==
    \E h \in Handlers :
        pc[h] = "stored" /\ AuditEntry(h).code = c /\ AuditEntry(h).write = w

\* Every write of a record the API created is in the audit trail or its
\* handler is about to record it (README.md:44).
TrailComplete ==
    \A c \in Codes :
        /\ Seeded[c] = "absent"
        /\ table[c] # NoRow
        => /\ \A v \in 1..table[c].version : Audited(c, v) \/ Auditing(c, v)
           /\ table[c].deleted => Audited(c, 0) \/ Auditing(c, 0)

\* A change of status, a control step or a delete that is about to be
\* answered with success has its audit entry (lines 113, 141, 178, 192).
SuccessIsAudited ==
    \A h \in Handlers :
        /\ pc[h] = "replying"
        /\ job[h].op \notin {"create", "update"}
        => Audited(AuditEntry(h).code, AuditEntry(h).write)

\* Every remote start has a control_request of its own (README.md:62, both
\* steps are confirmed explicitly and each writes its audit event).
EveryStartRequested ==
    \A i, j \in DOMAIN audits :
        /\ i < j
        /\ audits[i].code = audits[j].code
        /\ audits[i].action = "control_confirm"
        /\ audits[j].action = "control_confirm"
        => \E k \in i..j : /\ audits[k].code = audits[i].code
                           /\ audits[k].action = "control_request"

------------------------------------------------------------------------------
(***************************************************************************)
(* Progress.                                                               *)
(***************************************************************************)

\* Every request that was admitted ends.
RequestsEnd == \A h \in Handlers : pc[h] # "idle" ~> pc[h] = "idle"

\* Requests that collide never all lose: when a handler is ready to update a
\* row with the version the row has, the row is changed, by it or by another.
SomeRequestWins ==
    \A c \in Codes, v \in 1..MaxVersion, h \in Handlers :
        (/\ Live(table[c]) /\ table[c].version = v
         /\ pc[h] = "prepared"
         /\ job[h].code = c /\ job[h].op \in Versioned
         /\ job[h].item.version = v + 1)
        ~> (table[c] # NoRow /\ (table[c].version > v \/ table[c].deleted))
==============================================================================
