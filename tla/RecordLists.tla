----------------------------- MODULE RecordLists -----------------------------
(***************************************************************************)
(* The lists of records (repository/base.go, List) and the overview of the *)
(* four tables (handler/system.go, Overview) while the services write.     *)
(* Neither is a transaction: a page is a count and a find, an overview is  *)
(* one grouped count per table, and a client reads page after page.        *)
(* Writes come between any two of these statements.                        *)
(*                                                                         *)
(* The writers are the services: a write creates a row, deletes one, or    *)
(* changes one along the graph of its table.  Reads do not affect each     *)
(* other, so there is one reader.                                          *)
(***************************************************************************)
EXTENDS Records, Paging, TLC

CONSTANTS
    TableOf,    \* the table each code belongs to
    Seeded,     \* the status of each code's first row, or "absent"
    MaxWrites   \* bound: writes

Tables == {"zones", "readings", "plans", "executions"}

GraphOf == [zones      |-> GreenhouseZoneTransitions,
            readings   |-> SoilReadingTransitions,
            plans      |-> IrrigationPlanTransitions,
            executions |-> ValveExecutionTransitions]

InitialStatus == [zones |-> "active", readings |-> "fresh",
                  plans |-> "draft", executions |-> "planned"]

StatusesOf(t) == DOMAIN GraphOf[t]

Statuses == UNION {StatusesOf(t) : t \in Tables}

ASSUME ListAssumption ==
    /\ TableOf \in [Codes -> Tables]
    /\ Seeded \in [Codes -> Statuses \cup {"absent"}]
    /\ \A c \in Codes : Seeded[c] \in StatusesOf(TableOf[c]) \cup {"absent"}
    /\ IsFiniteSet({c \in Codes : Seeded[c] # "absent"})
    /\ MaxWrites \in Nat

VARIABLES
    rows,       \* code -> status, "absent" or "deleted"
    order,      \* the live codes, ORDER BY updated_at DESC, id DESC
    writes,     \* how many writes there were
    read,       \* the list or the overview that is being read
    watch       \* history: what happened to the records since

listVars == <<rows, order, writes, read, watch>>

NotReading == [kind |-> "none"]

NothingWatched == [steady |-> {}, alive |-> {}, present |-> {},
                   left |-> 0, moved |-> 0, late |-> 0]

ListInit ==
    /\ rows = Seeded
    /\ order \in SetToSeqs({c \in Codes : Seeded[c] # "absent"})
    /\ writes = 0
    /\ read = NotReading
    /\ watch = NothingWatched

LiveCodes == {c \in Codes : rows[c] \notin {"absent", "deleted"}}

\* Where a live code is in the order.
Place(c) == CHOOSE i \in DOMAIN order : order[i] = c

------------------------------------------------------------------------------
(***************************************************************************)
(* The writers.                                                            *)
(***************************************************************************)

\* Mutant of MovedUp: ORDER BY updated_at without DESC.
MovedDown(c) == {Append(RemoveFirst(order, c), c)}

\* Mutant of MovedUp: a page is cut from the versions of the rows, the old ones
\* included.
MovedTwice(c) == {<<c>> \o order}

\* The orders after c was written.  The process stamps updated_at before the
\* statement commits, so c may land behind writes that overtook it, but never
\* behind where it was.
MovedUp(c) ==
    LET lowest == IF c \in LiveCodes THEN Place(c) ELSE Len(order) + 1
    IN  {InsertAt(RemoveFirst(order, c), i, c) : i \in 1..lowest}

\* The statuses that put a row of table t into the list that is being read.
Wanted(t) ==
    IF read.kind = "list" /\ read.table = t THEN read.want ELSE {}

\* How the records under watch fare when c gets status s.  A record that is
\* deleted or has no more a status the list asks for has left the list; one
\* that is written and has such a status has moved up in it.
Watched(c, s) ==
    LET was == rows[c] \in Wanted(TableOf[c])
        is  == s \in Wanted(TableOf[c])
    IN  IF read = NotReading THEN watch
        ELSE [watch EXCEPT
                !.steady  = @ \ {c},
                !.alive   = IF s = "deleted" THEN @ \ {c} ELSE @,
                !.present = IF s = "deleted" THEN @ ELSE @ \cup {c},
                !.left    = IF was /\ ~is THEN @ + 1 ELSE @,
                !.moved   = IF is THEN @ + 1 ELSE @,
                !.late    = IF is THEN @ + 1 ELSE @]

\* One committed statement of a service.
Write(c, s) ==
    /\ writes < MaxWrites
    /\ writes' = writes + 1
    /\ rows' = [rows EXCEPT ![c] = s]
    /\ IF s = "deleted" THEN order' = RemoveFirst(order, c)
                        ELSE order' \in MovedUp(c)
    /\ watch' = Watched(c, s)
    /\ UNCHANGED read

CreateRow(c) ==
    /\ rows[c] = "absent"
    /\ Write(c, InitialStatus[TableOf[c]])

\* Update and RequestControl keep the status.
UpdateRow(c) ==
    /\ c \in LiveCodes
    /\ Write(c, rows[c])

MoveRow(c) ==
    /\ c \in LiveCodes
    /\ \E s \in GraphOf[TableOf[c]][rows[c]] : Write(c, s)

DeleteRow(c) ==
    /\ c \in LiveCodes
    /\ Write(c, "deleted")

------------------------------------------------------------------------------
(***************************************************************************)
(* The pages of a list.  The status filter is modelled; the search text    *)
(* filters in the same statements.                                         *)
(***************************************************************************)
List(t, want, asked) ==
    LET used == NormalizedPageSize(BindPageSize(asked))
    IN  /\ read = NotReading
        /\ read' = [kind |-> "list", table |-> t, want |-> want,
                    pages |-> FirstPage(used)]
        /\ watch' = [NothingWatched EXCEPT
                        !.steady = {c \in LiveCodes : TableOf[c] = t /\ rows[c] \in want}]
        /\ UNCHANGED <<rows, order, writes>>

Matching == {c \in LiveCodes : TableOf[c] = read.table /\ rows[c] \in read.want}

\* The matching codes as they come in the order: there is one such sequence.
Listed ==
    {l \in SetToSeqs(Matching) :
        \A i, j \in DOMAIN l : i < j => Place(l[i]) < Place(l[j])}

CountPage ==
    /\ read.kind = "list"
    /\ MayCount(read.pages)
    /\ \E l \in Listed : read' = [read EXCEPT !.pages = Counted(@, l)]
    /\ watch' = [watch EXCEPT !.late = 0]
    /\ UNCHANGED <<rows, order, writes>>

FindPage ==
    /\ read.kind = "list"
    /\ read.pages.step = "find"
    /\ \E l \in Listed : read' = [read EXCEPT !.pages = Found(@, l)]
    /\ UNCHANGED <<rows, order, writes, watch>>

------------------------------------------------------------------------------
(***************************************************************************)
(* The overview: one statement per table.                                  *)
(***************************************************************************)
OverviewOrder == <<"zones", "readings", "plans", "executions">>

Overview ==
    /\ read = NotReading
    /\ read' = [kind |-> "overview", done |-> 0, counts |-> [t \in Tables |-> <<>>]]
    /\ watch' = [NothingWatched EXCEPT !.alive = LiveCodes, !.present = LiveCodes]
    /\ UNCHANGED <<rows, order, writes>>

CountIn(t, s) == Cardinality({c \in LiveCodes : TableOf[c] = t /\ rows[c] = s})

\* Mutant of CountByStatus: new records and all others in a statement each.
CountInTwoStatements(t) ==
    LET new     == {InitialStatus[t]}
        counted == IF read.counts[t] = <<>> THEN new ELSE StatusesOf(t) \ new
    IN  read' = [read EXCEPT !.counts[t] = [s \in counted |-> CountIn(t, s)] @@ @,
                             !.done = IF counted = new THEN @ ELSE @ + 1]

\* GROUP BY has a row for each status that occurs.
CountByStatus(t) ==
    LET occurring == {s \in StatusesOf(t) : CountIn(t, s) > 0}
    IN  read' = [read EXCEPT !.counts[t] = [s \in occurring |-> CountIn(t, s)],
                             !.done = @ + 1]

CountNextTable ==
    /\ read.kind = "overview"
    /\ read.done < Len(OverviewOrder)
    /\ CountByStatus(OverviewOrder[read.done + 1])
    /\ UNCHANGED <<rows, order, writes, watch>>

\* The answer is complete, a statement fails, or the client stops asking.
EndRead ==
    /\ read # NotReading
    /\ read' = NotReading
    /\ watch' = NothingWatched
    /\ UNCHANGED <<rows, order, writes>>

ListNext ==
    \/ \E c \in Codes : CreateRow(c) \/ UpdateRow(c) \/ MoveRow(c) \/ DeleteRow(c)
    \/ \E c \in Codes, asked \in AskedSizes :
          \E want \in {StatusesOf(TableOf[c])} \cup {{s} : s \in StatusesOf(TableOf[c])} :
             List(TableOf[c], want, asked)
    \/ CountPage \/ FindPage
    \/ Overview \/ CountNextTable
    \/ EndRead

ListSpec == ListInit /\ [][ListNext]_listVars

------------------------------------------------------------------------------
ReadType ==
    \/ read = NotReading
    \/ read \in [kind : {"list"}, table : Tables, want : SUBSET Statuses,
                pages : PagesOf(Codes)]
    \/ /\ read.kind = "overview"
       /\ read.done \in 0..Len(OverviewOrder)
       /\ \A t \in Tables : Breakdown(read.counts[t], StatusesOf(t))

\* The type of the state: each live code has one place in the order.
ListTypeOK ==
    /\ \A c \in Codes : rows[c] \in StatusesOf(TableOf[c]) \cup {"absent", "deleted"}
    /\ IsInjective(order) /\ ToSet(order) = LiveCodes
    /\ writes \in 0..MaxWrites
    /\ ReadType
    /\ watch \in [steady : SUBSET Codes, alive : SUBSET Codes, present : SUBSET Codes,
                  left : Nat, moved : Nat, late : Nat]

\* A client that asks for the pages of a list one after the other gets at
\* most as many records twice as moved up meanwhile (base.go:38-46: the order
\* puts first what was written last); and when its pages cover the total it
\* was last told, it has missed at most as many as left the list meanwhile,
\* or moved up in it since that was counted.  Both of the records that were
\* in the list all along and were not written.
PagesMissAndRepeatFew ==
    read.kind = "list" =>
        /\ Cardinality(watch.steady \cap read.pages.twice) <= watch.moved
        /\ AllRead(read.pages) =>
              Cardinality(watch.steady \ read.pages.got) <= watch.left + watch.late

\* Of each table that it has counted, the overview counts a record at most once,
\* and only if it was there while the overview was put together, and it misses
\* none that was there all the while, however the records change their status
\* between its statements (base.go:83-102, one grouped statement per table).
OverviewCountsOnce ==
    read.kind = "overview" =>
        \A i \in 1..read.done :
            LET t == OverviewOrder[i]
                n == SumOver(read.counts[t])
                ofTable(S) == Cardinality({c \in S : TableOf[c] = t})
            IN  ofTable(watch.alive) <= n /\ n <= ofTable(watch.present)
==============================================================================
