---------------------------- MODULE DomainControl ----------------------------
(***************************************************************************)
(* What the API of zones, readings and plans promises, one atomic step per *)
(* operation: every change is made to the record as it is, counts in its   *)
(* version, and moves its status along the graph of its entity.            *)
(***************************************************************************)
EXTENDS DomainRecords

VARIABLES
    table,      \* code -> row, or NoRow
    entity      \* code -> the table the code belongs to

controlVars == <<table, entity>>

ControlInit ==
    /\ entity \in [Codes -> Entities]
    /\ table \in FirstTables(entity)

Put(c, row) ==
    /\ table' = [table EXCEPT ![c] = row]
    /\ UNCHANGED entity

Create(c) ==
    /\ table[c] = NoRow
    /\ \E d \in Data : Put(c, NewRow(InitialStatus[entity[c]], d))

Edit(c) ==
    /\ Live(table[c])
    /\ \E d \in Data : Put(c, [table[c] EXCEPT !.data = d, !.version = @ + 1])

Move(c) ==
    /\ Live(table[c])
    /\ \E s \in GraphOf[entity[c]][table[c].status] :
          Put(c, [table[c] EXCEPT !.status = s, !.version = @ + 1])

Remove(c) ==
    /\ Live(table[c])
    /\ Put(c, [table[c] EXCEPT !.deleted = TRUE])

ControlNext == \E c \in Codes : Create(c) \/ Edit(c) \/ Move(c) \/ Remove(c)

ControlSpec == ControlInit /\ [][ControlNext]_controlVars
==============================================================================
