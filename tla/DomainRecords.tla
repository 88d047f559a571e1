---------------------------- MODULE DomainRecords ----------------------------
(***************************************************************************)
(* Greenhouse zones, soil readings and irrigation plans                    *)
(* (model/greenhouse_zone.go, soil_reading.go, irrigation_plan.go): three  *)
(* tables of the same shape, each with a status graph of its own.  A code  *)
(* c stands for a code of one of the tables, entity[c] says which.         *)
(***************************************************************************)
EXTENDS Records

Entities == {"GreenhouseZone", "SoilReading", "IrrigationPlan"}

GraphOf == [GreenhouseZone |-> GreenhouseZoneTransitions,
            SoilReading    |-> SoilReadingTransitions,
            IrrigationPlan |-> IrrigationPlanTransitions]

InitialStatus == [GreenhouseZone |-> "active",
                  SoilReading    |-> "fresh",
                  IrrigationPlan |-> "draft"]

Statuses == ZoneStates \cup ReadingStates \cup PlanStates

DomainRow == [status  : Statuses,
              version : Nat \ {0},
              data    : Data,
              deleted : BOOLEAN]

ASSUME DomainRecordsAssumption == NoRow \notin DomainRow

NewRow(status, data) ==
    [status |-> status, version |-> 1, data |-> data, deleted |-> FALSE]

\* The statuses of the rows that the first start seeds, approved and scheduled
\* plans among them.
SeededStatuses == [GreenhouseZone |-> {"active", "dry", "wet"},
                   SoilReading    |-> {"fresh", "validated", "anomalous"},
                   IrrigationPlan |-> {"draft", "approved", "scheduled"}]

\* What may be under a code of entity e when the server first serves requests.
FirstRows(e) == {NoRow} \cup {NewRow(s, d) : s \in SeededStatuses[e], d \in Data}

\* The tables as the first start leaves them, when e says what the codes are of.
FirstTables(e) ==
    {t \in [Codes -> UNION {FirstRows(x) : x \in Entities}] :
        \A c \in Codes : t[c] \in FirstRows(e[c])}
==============================================================================
