---------------------------- MODULE AuditReports -----------------------------
(***************************************************************************)
(* What the audit endpoints read from the audit log while it grows         *)
(* (handler/system.go, service/security.go, repository/security.go): its   *)
(* pages, the history of one record, and the summary of a window of time,  *)
(* which is put together from five statements.                             *)
(*                                                                         *)
(* The writers are the services.  Audit stamps an entry with the time, and *)
(* the insert may come after the inserts of later stamps.  Reads do not    *)
(* affect each other, so there is one reader.                              *)
(***************************************************************************)
EXTENDS Records, Paging

CONSTANTS
    EntityOf,       \* the entity type of each code
    DefaultWindow,  \* 24 hours, in place of a window below one
    MaxWindow,      \* 90 days
    MaxLimit,       \* 100, the longest history
    DefaultLimit,   \* 20
    Recorded,       \* bound: the code, action and actor of the entries
    MaxEntries,     \* bound: entries
    MaxTime         \* bound: the last instant

\* The actions that the services record; a start is not a "transition".
Actions == {"create", "update", "transition", "control_request",
            "control_confirm", "delete"}

ASSUME ReportAssumption ==
    /\ {MaxWindow, MaxLimit, MaxEntries, MaxTime} \subseteq Nat
    /\ Recorded \subseteq [code : Codes, action : Actions, actor : Users]
    /\ DefaultWindow \in 1..MaxWindow
    /\ DefaultLimit \in 1..MaxLimit

VARIABLES
    log,        \* the rows of audit_logs
    clock,      \* the time of day
    report,     \* the report that is being read
    settled,    \* history: the entries in the log when the report was asked
                \* for whose time no other has had
    arrived     \* history: how many entries came since, and how many since
                \* the last count

reportVars == <<log, clock, report, settled, arrived>>

\* The id of the row is its identity.
AuditLog == [id : 1..MaxEntries, of : Recorded, at : 0..MaxTime]

NoReport == [kind |-> "none"]

NothingArrived == [since |-> 0, late |-> 0]

ReportInit ==
    /\ log = {}
    /\ clock = 0
    /\ report = NoReport
    /\ settled = {}
    /\ arrived = NothingArrived

------------------------------------------------------------------------------
\* Audit stamps the entry at some time before it is inserted.
AppendAudit(of, at) ==
    /\ Cardinality(log) < MaxEntries
    /\ log' = log \cup {[id |-> Cardinality(log) + 1, of |-> of, at |-> at]}
    /\ IF report = NoReport
       THEN UNCHANGED <<settled, arrived>>
       ELSE /\ settled' = {x \in settled : x.at # at}
            /\ arrived' = [since |-> arrived.since + 1, late |-> arrived.late + 1]
    /\ UNCHANGED <<clock, report>>

Tick ==
    /\ clock < MaxTime
    /\ clock' = clock + 1
    /\ UNCHANGED <<log, report, settled, arrived>>

------------------------------------------------------------------------------
\* RequireMinimumRole("reviewer") of the audit endpoints.
MayReport == Callers({"reviewer", "admin"}) # {}

Ask(r) ==
    /\ report = NoReport
    /\ MayReport
    /\ report' = r
    /\ settled' = {e \in log : \A x \in log \ {e} : x.at # e.at}
    /\ arrived' = NothingArrived
    /\ UNCHANGED <<log, clock>>

\* Mutant of NewestFirst: the oldest come first.
OldestFirst(s) == \A i, j \in DOMAIN s : i < j => s[i].at <= s[j].at

\* ORDER BY created_at DESC alone: entries of one time come in any order.
NewestFirst(s) == \A i, j \in DOMAIN s : i < j => s[i].at >= s[j].at

\* The orders in which the database may give a set of entries.
Orders(entries) == {s \in SetToSeqs(entries) : NewestFirst(s)}

\* The answers show the page size that the handler asked the repository for.
ListAudits(asked) ==
    LET bound == BindPageSize(asked)
    IN  Ask([kind |-> "pages", shown |-> bound,
             pages |-> FirstPage(NormalizedPageSize(bound))])

CountAudits ==
    /\ report.kind = "pages"
    /\ MayCount(report.pages)
    /\ \E l \in Orders(log) : report' = [report EXCEPT !.pages = Counted(@, l)]
    /\ arrived' = [arrived EXCEPT !.late = 0]
    /\ UNCHANGED <<log, clock, settled>>

FindAudits ==
    /\ report.kind = "pages"
    /\ report.pages.step = "find"
    /\ \E l \in Orders(log) : report' = [report EXCEPT !.pages = Found(@, l)]
    /\ UNCHANGED <<log, clock, settled, arrived>>

------------------------------------------------------------------------------
\* The limit as the service passes it on.
HistoryLimit(asked) ==
    IF asked < 1 THEN DefaultLimit ELSE Min({asked, MaxLimit})

EntityHistory(c, asked) ==
    Ask([kind |-> "history", code |-> c, limit |-> HistoryLimit(asked),
         step |-> "find", entries |-> <<>>])

\* The repository limits the limit again.
ClampedLimit(limit) ==
    IF limit < 1 THEN DefaultLimit ELSE Min({limit, MaxLimit})

FindHistory ==
    /\ report.kind = "history"
    /\ report.step = "find"
    /\ \E s \in Orders({e \in log : e.of.code = report.code}) :
          report' = [report EXCEPT
                       !.entries = SubSeq(s, 1, Min({ClampedLimit(report.limit), Len(s)})),
                       !.step = "done"]
    /\ UNCHANGED <<log, clock, settled, arrived>>

------------------------------------------------------------------------------
\* dto Window; the clamp of the service finds nothing left to do.
WindowOf(asked) == IF asked < 1 THEN DefaultWindow ELSE Min({asked, MaxWindow})

AuditSummary(asked) ==
    Ask([kind |-> "summary", step |-> "total",
         window |-> WindowOf(asked), since |-> clock - WindowOf(asked),
         total |-> 0, transitions |-> 0, actors |-> 0,
         actions |-> <<>>, entities |-> <<>>])

\* Mutant of InWindow: the window is taken when a statement runs.
InWindowNow(e) == e.at >= clock - report.window

InWindow(e) == e.at >= report.since

Recent == {e \in log : InWindow(e)}

ByAction ==
    [a \in {e.of.action : e \in Recent} |->
        Cardinality({e \in Recent : e.of.action = a})]

ByEntity ==
    [t \in {EntityOf[e.of.code] : e \in Recent} |->
        Cardinality({e \in Recent : EntityOf[e.of.code] = t})]

SummarizeAudits ==
    /\ report.kind = "summary"
    /\ \/ /\ report.step = "total"
          /\ report' = [report EXCEPT !.total = Cardinality(Recent),
                                      !.step = "transitions"]
       \/ /\ report.step = "transitions"
          /\ report' = [report EXCEPT
                          !.transitions = Cardinality({e \in Recent : e.of.action = "transition"}),
                          !.step = "actors"]
       \/ /\ report.step = "actors"
          /\ report' = [report EXCEPT !.actors = Cardinality({e.of.actor : e \in Recent}),
                                      !.step = "actions"]
       \/ /\ report.step = "actions"
          /\ report' = [report EXCEPT !.actions = ByAction,
                                      !.step = "entities"]
       \/ /\ report.step = "entities"
          /\ report' = [report EXCEPT !.entities = ByEntity,
                                      !.step = "done"]
    /\ UNCHANGED <<log, clock, settled, arrived>>

\* The answer is complete, a statement fails, or the client stops asking.
EndReport ==
    /\ report # NoReport
    /\ report' = NoReport
    /\ settled' = {}
    /\ arrived' = NothingArrived
    /\ UNCHANGED <<log, clock>>

ReportNext ==
    \/ \E of \in Recorded, at \in 0..clock : AppendAudit(of, at)
    \/ Tick
    \/ \E asked \in AskedSizes : ListAudits(asked)
    \/ CountAudits \/ FindAudits
    \/ \E c \in Codes, asked \in 0..MaxLimit + 1 : EntityHistory(c, asked)
    \/ FindHistory
    \/ \E asked \in 0..MaxWindow + 1 : AuditSummary(asked)
    \/ SummarizeAudits
    \/ EndReport

ReportSpec == ReportInit /\ [][ReportNext]_reportVars

------------------------------------------------------------------------------
SummarySteps == {"total", "transitions", "actors", "actions", "entities", "done"}

\* The page size that is shown is the one that is used.
PagesReport ==
    {r \in [kind : {"pages"}, shown : 1..MaxPageSize, pages : PagesOf(AuditLog)] :
        r.shown = r.pages.size}

ReportType ==
    \/ report = NoReport
    \/ report \in PagesReport
    \/ /\ report.kind = "history"
       /\ report.code \in Codes
       /\ report.limit \in 1..MaxLimit
       /\ report.step \in {"find", "done"}
       /\ report.entries \in Seq(AuditLog)
       /\ Len(report.entries) <= report.limit
    \/ /\ report.kind = "summary"
       /\ report.step \in SummarySteps
       /\ report.window \in 1..MaxWindow
       /\ report.since \in -MaxWindow..MaxTime
       /\ {report.total, report.transitions, report.actors} \subseteq 0..MaxEntries
       /\ Breakdown(report.actions, Actions)
       /\ Breakdown(report.entities, {EntityOf[c] : c \in Codes})

\* The type of the state: no report is longer than its limits, the page size
\* that an answer shows is the one the repository used (system.go:155;
\* base.go:102-113), and the ids of the log are those of an autoincrement.
ReportTypeOK ==
    /\ log \subseteq AuditLog
    /\ {e.id : e \in log} = 1..Cardinality(log)
    /\ clock \in 0..MaxTime
    /\ ReportType
    /\ settled \subseteq log
    /\ arrived \in [since : 0..MaxEntries, late : 0..MaxEntries]

\* A client that asks for the pages of the audit log one after the other gets
\* at most as many entries twice as were inserted meanwhile; and when its
\* pages cover the total it was last told, it has missed at most as many as
\* were inserted since that was counted.  Both of the entries that were there
\* from the start and share their time with no other (security.go:46-60).
AuditPagesMissFew ==
    report.kind = "pages" =>
        /\ Cardinality(settled \cap report.pages.twice) <= arrived.since
        /\ AllRead(report.pages) =>
              Cardinality(settled \ report.pages.got) <= arrived.late

\* The figures of a summary are read one after the other from a log that only
\* grows, so each covers what the one before it counted: the breakdowns add
\* up to no less than the total, and no more transitions are reported than
\* the breakdown by action shows (security.go:62-90).
SummaryAddsUp ==
    report.kind = "summary" /\ report.step = "done" =>
        /\ report.total <= SumOver(report.actions)
        /\ SumOver(report.actions) <= SumOver(report.entities)
        /\ report.transitions > 0 =>
              /\ "transition" \in DOMAIN report.actions
              /\ report.transitions <= report.actions["transition"]
        /\ report.total > 0 => report.actors > 0
        /\ report.actors <= SumOver(report.actions)

\* A history leaves out an entry that was in the log when it was asked for
\* only if it shows limit others that are as recent (security.go:92-103).
HistoryKeepsTheNewest ==
    report.kind = "history" /\ report.step = "done" =>
        \A e \in settled :
            \/ e.of.code # report.code
            \/ e \in ToSet(report.entries)
            \/ /\ Len(report.entries) = report.limit
               /\ \A i \in DOMAIN report.entries : report.entries[i].at >= e.at
==============================================================================
