------------------------------ MODULE MCReads -------------------------------
(***************************************************************************)
(* The lists and the audit reports for TLC.  They read different tables    *)
(* and share nothing, so a behaviour is either one of the lists or one of  *)
(* the reports.                                                            *)
(*                                                                         *)
(* Two zones and a valve execution are there from the start and a third    *)
(* zone can be created: a page of one record has predecessors, successors  *)
(* and newcomers.  Three entries at three instants of three kinds that     *)
(* differ in code, action and actor make every breakdown of the summary    *)
(* tell something.  The records start in one order; every other order is   *)
(* one or two writes away.                                                 *)
(***************************************************************************)
EXTENDS RecordLists, AuditReports

CONSTANTS z1, z2, z3, v1, oper, revw

MCRoleOf == (oper :> "operator") @@ (revw :> "reviewer")

MCTableOf == [c \in Codes |-> IF c = v1 THEN "executions" ELSE "zones"]

MCEntityOf == [c \in Codes |-> IF c = v1 THEN "ValveExecution" ELSE "GreenhouseZone"]

MCSeeded == (z1 :> "active") @@ (z2 :> "dry") @@ (z3 :> "absent") @@ (v1 :> "planned")

MCRecorded == {[code |-> z1, action |-> "update", actor |-> oper],
               [code |-> v1, action |-> "transition", actor |-> oper],
               [code |-> v1, action |-> "control_confirm", actor |-> revw]}

VARIABLE part

readVars == <<listVars, reportVars, part>>

Init ==
    /\ ListInit
    /\ ReportInit
    /\ part \in {"lists", "reports"}
    /\ order = <<z1, z2, v1>>

Next ==
    \/ part = "lists" /\ ListNext /\ UNCHANGED <<reportVars, part>>
    \/ part = "reports" /\ ReportNext /\ UNCHANGED <<listVars, part>>

Spec == Init /\ [][Next]_readVars
==============================================================================
