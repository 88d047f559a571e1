----------------------------- MODULE StateGraphs -----------------------------
(***************************************************************************)
(* The status graphs of the four business records                          *)
(* (backend/internal/constants/status.go).  A graph maps a status to the   *)
(* set of the statuses it may be changed to; no graph has a terminal       *)
(* status.                                                                 *)
(***************************************************************************)

ZoneStates      == {"active", "dry", "wet", "locked"}
ReadingStates   == {"fresh", "validated", "anomalous", "expired"}
PlanStates      == {"draft", "approved", "scheduled", "completed"}
ExecutionStates == {"planned", "running", "succeeded", "failed"}

GreenhouseZoneTransitions ==
    [active |-> {"dry", "wet"},
     dry    |-> {"wet", "locked", "active"},
     wet    |-> {"locked", "dry"},
     locked |-> {"wet"}]

SoilReadingTransitions ==
    [fresh     |-> {"validated", "anomalous"},
     validated |-> {"anomalous", "expired", "fresh"},
     anomalous |-> {"expired", "validated"},
     expired   |-> {"anomalous"}]

IrrigationPlanTransitions ==
    [draft     |-> {"approved", "scheduled"},
     approved  |-> {"scheduled", "completed", "draft"},
     scheduled |-> {"completed", "approved"},
     completed |-> {"scheduled"}]

ValveExecutionTransitions ==
    [planned   |-> {"running"},
     running   |-> {"succeeded", "failed", "planned"},
     succeeded |-> {"failed", "running"},
     failed    |-> {"succeeded"}]

CanTransition(graph, from, to) ==
    /\ from \in DOMAIN graph
    /\ to \in graph[from]

(***************************************************************************)
(* The roles of model/security.go; router.go and the handlers' Register    *)
(* functions name the roles an endpoint admits.                            *)
(***************************************************************************)
Roles == {"viewer", "operator", "reviewer", "admin"}
==============================================================================
