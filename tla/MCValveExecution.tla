-------------------------- MODULE MCValveExecution ---------------------------
(***************************************************************************)
(* Instances of ValveExecution for TLC: one execution, two concurrent      *)
(* handlers, one account of each role that may write.                      *)
(***************************************************************************)
EXTENDS ValveExecution, TLC

CONSTANTS v1, oper, revw, admn, h1, h2, d1, d2

MCRoleOf == [u \in Users |-> CASE u = oper -> "operator"
                               [] u = revw -> "reviewer"
                               [] u = admn -> "admin"]
MCNotSeeded == v1 :> "absent"
MCSeededSucceeded == v1 :> "succeeded"

HandlerSymmetry == Permutations(Handlers)

\* No action reads the audit trail, so the rows and the handlers evolve alike
\* whatever it holds; runs without a property of the trail leave it out.
WithoutTrail == <<table, pc, job>>
==============================================================================
