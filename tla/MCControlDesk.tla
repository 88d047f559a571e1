---------------------------- MODULE MCControlDesk ----------------------------
(***************************************************************************)
(* Instances of ControlDesk for TLC: one execution, one browser tab with   *)
(* two calls at a time, an administrator and a reviewer.                   *)
(***************************************************************************)
EXTENDS ControlDesk, TLC

CONSTANTS v1, revw, admn, s1, s2, d1

MCRoleOf == [u \in Users |-> IF u = admn THEN "admin" ELSE "reviewer"]
MCSeeded == [c \in Codes |-> "absent"]
MCSearches == {{}, Codes}

SlotSymmetry == Permutations(Slots)
==============================================================================
