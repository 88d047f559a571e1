---------------------------- MODULE DomainService ----------------------------
(***************************************************************************)
(* The services of zones, readings and plans (service/greenhouse_zone.go,  *)
(* soil_reading.go, irrigation_plan.go) and their role gates.  The three   *)
(* are the same code but for the entity, its graph and who may change its  *)
(* status; Zones, Readings and Plans are the three.  RecordService serves  *)
(* a request once its row is read and changed.                             *)
(***************************************************************************)
EXTENDS DomainRecords, RecordService

VARIABLES
    entity,     \* code -> the table the code belongs to, fixed
    seeded      \* history: the codes of the rows that the first start seeded

vars == <<table, audits, pc, job, entity, seeded>>

Job == [op   : Operations,
        actor: Users,
        code : Codes,
        read : DomainRow \cup {NoRow},
        item : DomainRow]

\* "write" stands for the request id, as in ValveExecution.
AuditLog == [code  : Codes,
             write : Nat,
             action: Operations,
             actor : Users,
             before: Statuses \cup {""},
             after : Statuses \cup {"deleted"}]

ASSUME DomainAssumption == NoJob \notin Job

------------------------------------------------------------------------------
Init ==
    /\ entity \in [Codes -> Entities]
    /\ table \in FirstTables(entity)
    /\ seeded = {c \in Codes : table[c] # NoRow}
    /\ audits = <<>>
    /\ pc = [h \in Handlers |-> "idle"]
    /\ job = [h \in Handlers |-> NoJob]

Create(h, c, initial) ==
    \E u \in Callers({"operator", "admin"}), d \in Data :
        Prepare(h, "create", u, c, NoRow, NewRow(initial, d))

Update(h, c) ==
    \E u \in Callers({"operator", "admin"}), d \in Data :
        /\ Live(table[c])
        /\ PrepareUpdate(h, "update", u, c, [table[c] EXCEPT !.data = d])

\* Mutant of Transition: the graph is not asked.
TransitionAnywhere(h, c, graph, roles) ==
    \E u \in Callers(roles), target \in Statuses :
        /\ Live(table[c])
        /\ PrepareUpdate(h, "transition", u, c, [table[c] EXCEPT !.status = target])

Transition(h, c, graph, roles) ==
    \E u \in Callers(roles), target \in Statuses :
        /\ Live(table[c])
        /\ CanTransition(graph, table[c].status, target)
        /\ PrepareUpdate(h, "transition", u, c, [table[c] EXCEPT !.status = target])

Delete(h, c) ==
    \E u \in Callers({"admin"}) :
        /\ Live(table[c])
        /\ Prepare(h, "delete", u, c, table[c], table[c])

\* The three services.  The movers are the roles that may change a status.
ZoneService(h, c, movers) ==
    \/ Create(h, c, "active")
    \/ Update(h, c)
    \/ Transition(h, c, GreenhouseZoneTransitions, movers)
    \/ Delete(h, c)

ReadingService(h, c, movers) ==
    \/ Create(h, c, "fresh")
    \/ Update(h, c)
    \/ Transition(h, c, SoilReadingTransitions, movers)
    \/ Delete(h, c)

PlanService(h, c, movers) ==
    \/ Create(h, c, "draft")
    \/ Update(h, c)
    \/ Transition(h, c, IrrigationPlanTransitions, movers)
    \/ Delete(h, c)

\* Their handlers, which open the services to roles.
Zones(h) ==
    \E c \in Codes :
        /\ entity[c] = "GreenhouseZone"
        /\ ZoneService(h, c, {"operator", "reviewer", "admin"})

Readings(h) ==
    \E c \in Codes :
        /\ entity[c] = "SoilReading"
        /\ ReadingService(h, c, {"operator", "reviewer", "admin"})

\* Mutant of Plans: the status of a plan is opened to operators, as the
\* status of zones and readings is.
PlansMovedByOperators(h) ==
    \E c \in Codes :
        /\ entity[c] = "IrrigationPlan"
        /\ PlanService(h, c, {"operator", "reviewer", "admin"})

Plans(h) ==
    \E c \in Codes :
        /\ entity[c] = "IrrigationPlan"
        /\ PlanService(h, c, {"reviewer", "admin"})

Begin(h) == Zones(h) \/ Readings(h) \/ Plans(h)

Next ==
    /\ (\E h \in Handlers : Begin(h) \/ Step(h)) \/ Crash
    /\ UNCHANGED <<entity, seeded>>

Spec == Init /\ [][Next]_vars

------------------------------------------------------------------------------
\* Every variable holds a value of its type, and the row of an entity has a
\* status of that entity's graph.
TypeOK ==
    /\ table \in [Codes -> DomainRow \cup {NoRow}]
    /\ audits \in Seq(AuditLog)
    /\ pc \in [Handlers -> Phases]
    /\ job \in [Handlers -> Job \cup {NoJob}]
    /\ entity \in [Codes -> Entities]
    /\ seeded \subseteq Codes
    /\ \A c \in Codes :
          table[c] # NoRow => table[c].status \in DOMAIN GraphOf[entity[c]]
    /\ \A h \in Handlers : pc[h] = "idle" <=> job[h] = NoJob

Atomic == INSTANCE DomainControl WITH table <- table, entity <- entity

\* With clients that send versions they have read, every operation on a zone,
\* a reading or a plan acts as one atomic step on the current row and moves
\* its status along the graph of its entity (base.go:59-70, status.go:56-59).
AtomicOperations == Atomic!ControlSpec

\* A plan that was created through the service and is not a draft was moved by
\* a reviewer or an administrator, and the audit trail names who did it, at
\* the latest when the handler that moved it has recorded its entry
\* (README.md:24, irrigation_plan.go:92-112).  The plans that the first start
\* seeds as approved and scheduled (database.go:192-200) have no entry.
PlansAreReviewed ==
    \A c \in Codes :
        /\ entity[c] = "IrrigationPlan"
        /\ c \notin seeded
        /\ table[c] # NoRow
        /\ table[c].status # "draft"
        => \/ \E i \in DOMAIN audits :
                 /\ audits[i].code = c
                 /\ audits[i].action = "transition"
                 /\ audits[i].after # "draft"
                 /\ RoleOf[audits[i].actor] \in {"reviewer", "admin"}
           \/ \E h \in Handlers :
                 /\ pc[h] = "stored"
                 /\ job[h].code = c
                 /\ job[h].op = "transition"
                 /\ RoleOf[job[h].actor] \in {"reviewer", "admin"}
==============================================================================
