------------------------------- MODULE Paging --------------------------------
(***************************************************************************)
(* Pages of a list: the page size a request asks for is bound by the       *)
(* handler (handler/system.go, bindPage) and normalised by the repository  *)
(* (repository/base.go, normalizePage).  The client is any caller of the   *)
(* API that asks for the pages 1, 2, 3, ... of one size, as far as it      *)
(* likes.                                                                  *)
(***************************************************************************)
EXTENDS Integers, Sequences, FiniteSets, FiniteSetsExt, SequencesExt

CONSTANTS
    DefaultPageSize,    \* 20, in place of a size that is not admitted
    MaxPageSize,        \* 100
    MaxPages            \* bound: pages that a client asks for

ASSUME PagingAssumption ==
    /\ {MaxPageSize, MaxPages} \subseteq Nat
    /\ DefaultPageSize \in 1..MaxPageSize

\* Mutant of BindPageSize: the upper limit is left to the repository.
BindPageSizeUnlimited(asked) == IF asked < 1 THEN DefaultPageSize ELSE asked

BindPageSize(asked) ==
    IF asked < 1 \/ asked > MaxPageSize THEN DefaultPageSize ELSE asked

NormalizedPageSize(size) ==
    IF size < 1 THEN DefaultPageSize ELSE Min({size, MaxPageSize})

\* Sizes that meet both limits from below and from above.
AskedSizes == 0..MaxPageSize + 1

\* A breakdown has a figure for each of the things of S that occur.
Breakdown(f, S) == DOMAIN f \subseteq S /\ \A x \in DOMAIN f : f[x] \in Nat \ {0}

\* The figures of a breakdown, added up: as many as there are units in them.
SumOver(f) == Cardinality(UNION {{x} \X (1..f[x]) : x \in DOMAIN f})

(***************************************************************************)
(* How far a client is: the page it asks for next, or is being answered;   *)
(* the total of the latest count; the page size the repository uses; what  *)
(* it has got, and what twice.                                             *)
(***************************************************************************)
FirstPage(size) ==
    [step |-> "count", page |-> 1, total |-> 0, size |-> size,
     got |-> {}, twice |-> {}]

MayCount(p) == p.step = "count" /\ p.page <= MaxPages

\* The statement SELECT count(*), when the list is l.
Counted(p, l) == [p EXCEPT !.total = Len(l), !.step = "find"]

\* Mutant of PageOf: the offset is one page too far.
PageOfNext(p, l) ==
    ToSet(SubSeq(l, p.page * p.size + 1, Min({(p.page + 1) * p.size, Len(l)})))

PageOf(p, l) ==
    ToSet(SubSeq(l, (p.page - 1) * p.size + 1, Min({p.page * p.size, Len(l)})))

\* The statement that finds the rows of the page, when the list is l.
Found(p, l) ==
    [p EXCEPT !.got   = @ \cup PageOf(p, l),
              !.twice = @ \cup (p.got \cap PageOf(p, l)),
              !.page  = @ + 1,
              !.step  = "count"]

\* The pages that were answered cover the total that the last one shows.
AllRead(p) == p.step = "count" /\ p.page > 1 /\ p.total <= (p.page - 1) * p.size

PagesOf(Items) ==
    [step  : {"count", "find"},
     page  : Nat \ {0},
     total : Nat,
     size  : 1..MaxPageSize,
     got   : SUBSET Items,
     twice : SUBSET Items]
==============================================================================
