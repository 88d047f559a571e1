---------------------------- MODULE ValveRecords -----------------------------
(***************************************************************************)
(* The valve execution record (model/valve_execution.go): the row of the   *)
(* table valve_executions.  The times control_requested_at and             *)
(* control_confirmed_at are always set together with the matching user     *)
(* name, so the user name stands for both.                                 *)
(***************************************************************************)
EXTENDS Records

CONSTANT NoUser     \* the empty user name

ValveRow ==
    [status      : ExecutionStates,
     version     : Nat \ {0},
     data        : Data,
     requestedBy : Users \cup {NoUser},
     confirmedBy : Users \cup {NoUser},
     deleted     : BOOLEAN]

ASSUME ValveRecordsAssumption ==
    /\ NoUser \notin Users
    /\ NoRow \notin ValveRow

\* Mutant of NewRow: the version is left at zero.
NewRowUnversioned(status, data) ==
    [status |-> status, version |-> 0, data |-> data,
     requestedBy |-> NoUser, confirmedBy |-> NoUser, deleted |-> FALSE]

NewRow(status, data) ==
    [status |-> status, version |-> 1, data |-> data,
     requestedBy |-> NoUser, confirmedBy |-> NoUser, deleted |-> FALSE]
==============================================================================
