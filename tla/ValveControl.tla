---------------------------- MODULE ValveControl -----------------------------
(***************************************************************************)
(* What the valve execution API promises, one atomic step per operation:   *)
(* each operation acts on the record as it is at that moment, adds one to  *)
(* its version, and keeps the two-person rule for a remote start: a        *)
(* planned execution is started only by a reviewer or administrator other  *)
(* than the operator or administrator who asked for it.                    *)
(*                                                                         *)
(* ValveExecution.tla shows that the code's read, compare and write        *)
(* implements these steps.                                                 *)
(***************************************************************************)
EXTENDS ValveRecords

CONSTANT Seeded     \* the status of each code's first row, "absent" if none

VARIABLE table      \* code -> row, or NoRow

ControlInit ==
    \E d \in Data :
        table = [c \in Codes |-> IF Seeded[c] = "absent"
                                 THEN NoRow ELSE NewRow(Seeded[c], d)]

Put(c, row) == table' = [table EXCEPT ![c] = row]

Create(c) ==
    /\ table[c] = NoRow
    /\ \E d \in Data : Put(c, NewRow("planned", d))

Edit(c) ==
    /\ Live(table[c])
    /\ \E d \in Data :
          Put(c, [table[c] EXCEPT !.data = d, !.version = @ + 1])

\* What the general status change may do: any edge of the graph but the
\* remote start.
MayMove(row, s) ==
    /\ Live(row)
    /\ row.status # "planned"
    /\ s \in ValveExecutionTransitions[row.status]

MayAsk(row, u) ==
    /\ Live(row)
    /\ row.status = "planned"
    /\ row.requestedBy = NoUser
    /\ u \in Callers({"operator", "admin"})

MayConfirm(row, u) ==
    /\ Live(row)
    /\ row.status = "planned"
    /\ row.requestedBy \notin {NoUser, u}
    /\ u \in Callers({"reviewer", "admin"})

Move(c, s) ==
    /\ MayMove(table[c], s)
    /\ Put(c, [table[c] EXCEPT !.status = s, !.version = @ + 1])

AskForStart(c, u) ==
    /\ MayAsk(table[c], u)
    /\ Put(c, [table[c] EXCEPT !.requestedBy = u, !.version = @ + 1])

ConfirmStart(c, u) ==
    /\ MayConfirm(table[c], u)
    /\ Put(c, [table[c] EXCEPT !.status = "running", !.confirmedBy = u,
                               !.version = @ + 1])

Remove(c) ==
    /\ Live(table[c])
    /\ Put(c, [table[c] EXCEPT !.deleted = TRUE])

Operation(c) ==
    \/ Create(c) \/ Edit(c) \/ Remove(c)
    \/ \E s \in ExecutionStates : Move(c, s)
    \/ \E u \in Users : AskForStart(c, u) \/ ConfirmStart(c, u)

ControlNext == \E c \in Codes : Operation(c)

ControlSpec == ControlInit /\ [][ControlNext]_table
==============================================================================
