-------------------------- MODULE MCServerLifecycle --------------------------
(***************************************************************************)
(* Instances of ServerLifecycle for TLC: one demo record and one record of *)
(* a client in every table; an environment with everything set, one with   *)
(* nothing set, and for each setting one that is out of bounds, at the     *)
(* bound or beyond it.                                                     *)
(***************************************************************************)
EXTENDS ServerLifecycle

CONSTANTS demo, own

Unset == [driver |-> "", secret |-> 0, limit |-> 0, tokenTTL |-> 0,
          timeouts |-> [n \in Timeouts |-> 0]]

Composed == [driver |-> "postgres", secret |-> 16, limit |-> MaxRequestLimit,
             tokenTTL |-> DefaultTokenTTL, timeouts |-> DefaultTimeout]

MCEnvironments ==
    {Unset, Composed,
     [Composed EXCEPT !.driver = "unsupported"],
     [Composed EXCEPT !.secret = 15],
     [Composed EXCEPT !.limit = 9],
     [Composed EXCEPT !.limit = MaxRequestLimit + 1],
     [Unset EXCEPT !.limit = -1, !.tokenTTL = -1, !.timeouts["shutdown"] = -1],
     [Unset EXCEPT !.tokenTTL = -1]}

MCOneEnvironment == {Composed}
==============================================================================
