------------------------------- MODULE Records -------------------------------
(***************************************************************************)
(* What the four kinds of business record have in common (model/base.go)   *)
(* and the accounts that act on them (model/security.go).                  *)
(*                                                                         *)
(* A record is known by its code: the unique index on "code" covers        *)
(* soft-deleted rows too, so a code belongs to at most one row for ever    *)
(* and the numeric id is in bijection with it.  Codes are compared after   *)
(* the trimming and upper-casing of Create.  The business fields (name,    *)
(* facility, owner, ...) are one value of Data.                            *)
(***************************************************************************)
EXTENDS Naturals, StateGraphs

CONSTANTS
    Codes,      \* the codes of the records
    Users,      \* the accounts that hold a token
    RoleOf,     \* the role claim of each account's token
    Data,       \* values of the business fields
    NoRow       \* no row has this code

ASSUME RoleAssumption == RoleOf \in [Users -> Roles]

\* gorm.DeletedAt makes a delete a mark on the row, which every query skips.
Live(row) == row # NoRow /\ ~row.deleted

\* The accounts RequireRoles(roles) lets through.
Callers(roles) == {u \in Users : RoleOf[u] \in roles}
==============================================================================
