--------------------------- MODULE MCDomainService ---------------------------
(***************************************************************************)
(* Instances of DomainService for TLC: one record of any of the three      *)
(* entities, two concurrent handlers, one account of each role that may    *)
(* write.  A zone or a reading starts without a row, a plan without one or *)
(* with a seeded one: the three services differ in nothing that a seeded   *)
(* row meets.                                                              *)
(***************************************************************************)
EXTENDS DomainService, TLC

CONSTANTS c1, oper, revw, admn, h1, h2, d1

MCRoleOf == [u \in Users |-> CASE u = oper -> "operator"
                               [] u = revw -> "reviewer"
                               [] u = admn -> "admin"]

MCInit ==
    /\ Init
    /\ \A c \in seeded : entity[c] = "IrrigationPlan"

MCSpec == MCInit /\ [][Next]_vars

HandlerSymmetry == Permutations(Handlers)
==============================================================================
