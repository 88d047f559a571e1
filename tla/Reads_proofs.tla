----------------------------- MODULE Reads_proofs -----------------------------
(***************************************************************************)
(* Proofs about AuditReports and RecordLists: what the audit log reports,  *)
(* and what the lists and the overview show, of tables that are written    *)
(* between the statements of a read.                                       *)
(*                                                                         *)
(* Both kinds of pages are covered by one argument, PagesInv of            *)
(* Paging_proofs: a watched item is known by its rank, the number of items *)
(* up to it, and a write moves a rank by at most one.                      *)
(***************************************************************************)
EXTENDS RecordLists, AuditReports, Paging_proofs

\* The breakdowns by things of S.
Figures(S) == UNION {[D -> Nat \ {0}] : D \in SUBSET S}

LEMMA FiguresAreBreakdowns ==
    ASSUME NEW S, NEW f \in Figures(S)
    PROVE  Breakdown(f, S)
<1>1. PICK D \in SUBSET S : f \in [D -> Nat \ {0}]
  BY DEF Figures
<1>2. QED
  BY <1>1 DEF Breakdown

LEMMA NoFigures ==
    ASSUME NEW S
    PROVE  <<>> \in Figures(S)
<1>1. <<>> \in [{} -> Nat \ {0}]
  OBVIOUS
<1>2. {} \in SUBSET S
  OBVIOUS
<1>3. QED
  BY <1>1, <1>2 DEF Figures

\* Counting the items of each group that occurs gives a breakdown.
LEMMA CountsAreFigures ==
    ASSUME NEW S, NEW D \in SUBSET S, NEW f, DOMAIN f = D, f = [x \in D |-> f[x]],
           \A x \in D : f[x] \in Nat \ {0}
    PROVE  f \in Figures(S)
<1>1. f \in [D -> Nat \ {0}]
  OBVIOUS
<1>2. QED
  BY <1>1 DEF Figures

LEMMA SomeCounted ==
    ASSUME NEW S, IsFiniteSet(S), NEW e \in S
    PROVE  Cardinality(S) \in Nat \ {0}
<1>1. Cardinality(S) \in Nat
  BY FS_CardinalityType
<1>2. S # {}
  OBVIOUS
<1>3. Cardinality(S) # 0
  BY <1>2, FS_EmptySet
<1>4. QED
  BY <1>1, <1>3

\* A part of a finite set.
LEMMA PartOf ==
    ASSUME NEW S, IsFiniteSet(S), NEW T, T \subseteq S
    PROVE  /\ IsFiniteSet(T)
           /\ Cardinality(T) \in Nat /\ Cardinality(S) \in Nat
           /\ Cardinality(T) <= Cardinality(S)
  BY FS_Subset, FS_CardinalityType

------------------------------------------------------------------------------
(***************************************************************************)
(* The audit reports: types.                                               *)
(***************************************************************************)
Entities == {EntityOf[c] : c \in Codes}

HistoryReports ==
    [kind : {"history"}, code : Codes, limit : 1..MaxLimit,
     step : {"find", "done"}, entries : Seq(AuditLog)]

SummaryReports ==
    [kind : {"summary"}, step : SummarySteps, window : 1..MaxWindow,
     since : -MaxWindow..MaxTime, total : 0..MaxEntries,
     transitions : 0..MaxEntries, actors : 0..MaxEntries,
     actions : Figures(Actions), entities : Figures(Entities)]

\* The reports as records: what ReportType says, and that there are no other
\* fields.
ReportShape ==
    \/ report = NoReport
    \/ report \in PagesReport
    \/ report \in HistoryReports /\ Len(report.entries) <= report.limit
    \/ report \in SummaryReports

\* What is counted of the entries that arrive.
ArrivedInv ==
    /\ IsFiniteSet(log)
    /\ arrived.late <= arrived.since
    /\ arrived.since <= Cardinality(log)

ReportTypeInv == ReportTypeOK /\ ReportShape /\ ArrivedInv

LEMMA ShapeGivesType == ReportShape => ReportType
<1> SUFFICES ASSUME ReportShape PROVE ReportType
  OBVIOUS
<1>1. CASE report = NoReport
  BY <1>1 DEF ReportType
<1>2. CASE report \in PagesReport
  BY <1>2 DEF ReportType
<1>3. CASE report \in HistoryReports /\ Len(report.entries) <= report.limit
  BY <1>3 DEF ReportType, HistoryReports
<1>4. CASE report \in SummaryReports
  <2>1. report.actions \in Figures(Actions) /\ report.entities \in Figures(Entities)
    BY <1>4 DEF SummaryReports
  <2>2. Breakdown(report.actions, Actions) /\ Breakdown(report.entities, Entities)
    BY <2>1, FiguresAreBreakdowns
  <2>3. QED
    BY <1>4, <2>2 DEF ReportType, SummaryReports, Entities
<1>5. QED
  BY <1>1, <1>2, <1>3, <1>4 DEF ReportShape

LEMMA ShapeGivesTypeNext == ReportShape' => ReportType'
  BY ShapeGivesType, PTL

\* The log is no longer than its bound.
LEMMA LogBounded ==
    ASSUME ReportTypeInv
    PROVE  Cardinality(log) \in 0..MaxEntries
<1>1. Cardinality(log) \in Nat
  BY FS_CardinalityType DEF ReportTypeInv, ArrivedInv
<1>2. CASE Cardinality(log) >= 1
  <2>1. PICK e \in log : e.id = Cardinality(log)
    <3>1. Cardinality(log) \in {e.id : e \in log}
      BY <1>1, <1>2 DEF ReportTypeInv, ReportTypeOK
    <3>2. QED
      BY <3>1
  <2>2. e.id \in 1..MaxEntries
    BY DEF ReportTypeInv, ReportTypeOK, AuditLog
  <2>3. QED
    BY <1>1, <2>1, <2>2, ReportAssumption
<1>3. QED
  BY <1>1, <1>2, ReportAssumption

\* The row an insert adds.
NewEntry(of, at) == [id |-> Cardinality(log) + 1, of |-> of, at |-> at]

LEMMA AppendGrows ==
    ASSUME ReportTypeInv, NEW of \in Recorded, NEW at \in 0..clock, AppendAudit(of, at)
    PROVE  /\ NewEntry(of, at) \in AuditLog /\ NewEntry(of, at) \notin log
           /\ log' = log \cup {NewEntry(of, at)}
           /\ IsFiniteSet(log')
           /\ Cardinality(log') = Cardinality(log) + 1
           /\ {e.id : e \in log'} = 1..Cardinality(log')
<1> DEFINE n == Cardinality(log)
           e == NewEntry(of, at)
<1>1. n \in Nat /\ n < MaxEntries /\ MaxEntries \in Nat
  BY LogBounded, ReportAssumption DEF AppendAudit
<1>2. log' = log \cup {e}
  BY DEF AppendAudit, NewEntry
<1>3. e \in AuditLog
  <2>1. at \in 0..MaxTime
    BY ReportAssumption DEF ReportTypeInv, ReportTypeOK
  <2>2. n + 1 \in 1..MaxEntries
    BY <1>1
  <2>3. QED
    BY <2>1, <2>2 DEF NewEntry, AuditLog
<1>4. e.id = n + 1
  BY DEF NewEntry
<1>5. {x.id : x \in log} = 1..n
  BY DEF ReportTypeInv, ReportTypeOK
<1>6. e \notin log
  <2>1. n + 1 \notin 1..n
    BY <1>1
  <2>2. QED
    BY <1>4, <1>5, <2>1
<1> HIDE DEF e, n
<1>7. IsFiniteSet(log') /\ Cardinality(log') = n + 1
  BY <1>2, <1>6, FS_AddElement DEF ReportTypeInv, ArrivedInv, n
<1>8. {x.id : x \in log'} = 1..n + 1
  <2>1. {x.id : x \in log'} = {x.id : x \in log} \cup {e.id}
    BY <1>2
  <2>2. 1..n + 1 = (1..n) \cup {n + 1}
    BY <1>1
  <2>3. QED
    BY <1>4, <1>5, <2>1, <2>2
<1>9. QED
  BY <1>2, <1>3, <1>6, <1>7, <1>8 DEF e, n

\* A step of the reader leaves the log and the clock alone.
LEMMA ReaderType ==
    ASSUME ReportTypeInv, UNCHANGED <<log, clock>>, ReportShape',
           settled' \subseteq log,
           arrived' = NothingArrived \/ arrived' = arrived \/ arrived' = [arrived EXCEPT !.late = 0]
    PROVE  ReportTypeInv'
<1>1. ReportType'
  BY ShapeGivesTypeNext
<1>2. Cardinality(log) \in Nat /\ MaxEntries \in Nat
  BY LogBounded, ReportAssumption
<1> USE DEF ReportTypeInv, ReportTypeOK, ArrivedInv
<1>3. /\ arrived' \in [since : 0..MaxEntries, late : 0..MaxEntries]
      /\ arrived'.late <= arrived'.since
      /\ arrived'.since <= Cardinality(log)
  <2>1. arrived \in [since : 0..MaxEntries, late : 0..MaxEntries]
    OBVIOUS
  <2>2. CASE arrived' = NothingArrived
    BY <1>2, <2>2 DEF NothingArrived
  <2>3. CASE arrived' = arrived
    BY <2>1, <2>3
  <2>4. CASE arrived' = [arrived EXCEPT !.late = 0]
    <3>1. arrived'.late = 0 /\ arrived'.since = arrived.since
      BY <2>1, <2>4
    <3>2. arrived' \in [since : 0..MaxEntries, late : 0..MaxEntries]
      BY <1>2, <2>1, <2>4
    <3>3. QED
      BY <2>1, <3>1, <3>2
  <2>5. QED
    BY <2>2, <2>3, <2>4
<1>4. QED
  BY <1>1, <1>3

LEMMA AskType ==
    ASSUME ReportTypeInv, NEW r, Ask(r),
           \/ r \in PagesReport
           \/ r \in HistoryReports /\ Len(r.entries) <= r.limit
           \/ r \in SummaryReports
    PROVE  ReportTypeInv'
<1>1. /\ UNCHANGED <<log, clock>> /\ report' = r
      /\ settled' \subseteq log /\ arrived' = NothingArrived
  BY DEF Ask
<1>2. ReportShape'
  BY <1>1 DEF ReportShape
<1>3. QED
  BY <1>1, <1>2, ReaderType

LEMMA ListAuditsType ==
    ASSUME ReportTypeInv, NEW asked \in AskedSizes, ListAudits(asked)
    PROVE  ReportTypeInv'
<1> DEFINE b == BindPageSize(asked)
           f == FirstPage(b)
           r == [kind |-> "pages", shown |-> b, pages |-> f]
<1>1. Ask(r)
  BY BoundSizes DEF ListAudits
<1>2. b \in 1..MaxPageSize /\ f \in PagesOf(AuditLog) /\ f.size = b
  BY BoundSizes, FirstPageType DEF FirstPage
<1> HIDE DEF f, b
<1>3. r \in PagesReport
  BY <1>2 DEF PagesReport
<1>4. QED
  BY <1>1, <1>3, AskType

\* Which of the kinds of report it is.
LEMMA ReportKinds ==
    ASSUME ReportShape
    PROVE  /\ report = NoReport => report.kind = "none"
           /\ report.kind = "pages" =>
                 report \in PagesReport
           /\ report.kind = "history" =>
                 report \in HistoryReports /\ Len(report.entries) <= report.limit
           /\ report.kind = "summary" => report \in SummaryReports
  BY DEF ReportShape, NoReport, PagesReport, HistoryReports, SummaryReports

LEMMA CountAuditsType ==
    ASSUME ReportTypeInv, CountAudits
    PROVE  ReportTypeInv'
<1>1. report \in PagesReport
  BY ReportKinds DEF CountAudits, ReportTypeInv
<1>2. PICK l \in Orders(log) : report' = [report EXCEPT !.pages = Counted(@, l)]
  BY DEF CountAudits
<1>3. Len(l) \in Nat
  BY ListOfSet DEF Orders, ReportTypeInv, ArrivedInv
<1>4. /\ Counted(report.pages, l) \in PagesOf(AuditLog)
      /\ Counted(report.pages, l).size = report.pages.size
  BY <1>1, <1>3, CountedType DEF PagesReport, PagesOf, Counted
<1>5. report' \in PagesReport
  BY <1>1, <1>2, <1>4 DEF PagesReport
<1>6. settled' \subseteq log
  BY DEF CountAudits, ReportTypeInv, ReportTypeOK
<1>7. QED
  BY <1>5, <1>6, ReaderType DEF CountAudits, ReportShape

LEMMA FindAuditsType ==
    ASSUME ReportTypeInv, FindAudits
    PROVE  ReportTypeInv'
<1>1. report \in PagesReport
  BY ReportKinds DEF FindAudits, ReportTypeInv
<1>2. PICK l \in Orders(log) : report' = [report EXCEPT !.pages = Found(@, l)]
  BY DEF FindAudits
<1>3. /\ Found(report.pages, l) \in PagesOf(AuditLog)
      /\ Found(report.pages, l).size = report.pages.size
  <2>1. report.pages \in PagesOf(AuditLog)
    BY <1>1 DEF PagesReport
  <2>2. Found(report.pages, l).size = report.pages.size
    BY <2>1 DEF PagesOf, Found
  <2>3. QED
    BY <2>1, <2>2, FoundType DEF Orders, ReportTypeInv, ReportTypeOK, ArrivedInv
<1>4. report' \in PagesReport
  BY <1>1, <1>2, <1>3 DEF PagesReport
<1>5. settled' \subseteq log
  BY DEF FindAudits, ReportTypeInv, ReportTypeOK
<1>6. QED
  BY <1>4, <1>5, ReaderType DEF FindAudits, ReportShape

LEMMA EntityHistoryType ==
    ASSUME ReportTypeInv, NEW c \in Codes, NEW asked \in 0..MaxLimit + 1,
           EntityHistory(c, asked)
    PROVE  ReportTypeInv'
<1> DEFINE m == HistoryLimit(asked)
           r == [kind |-> "history", code |-> c, limit |-> m,
                 step |-> "find", entries |-> <<>>]
<1>1. m \in 1..MaxLimit
  BY ReportAssumption, MinOfTwo DEF HistoryLimit
<1>2. Ask(r)
  BY DEF EntityHistory
<1> HIDE DEF m
<1>3. <<>> \in Seq(AuditLog) /\ Len(<<>>) = 0
  OBVIOUS
<1>4. r \in HistoryReports /\ Len(r.entries) <= r.limit
  BY <1>1, <1>3 DEF HistoryReports
<1>5. QED
  BY <1>2, <1>4, AskType

\* The repository finds nothing left to limit.
LEMMA ClampedAgain ==
    ASSUME NEW limit \in 1..MaxLimit
    PROVE  ClampedLimit(limit) = limit
  BY ReportAssumption, MinOfTwo DEF ClampedLimit

\* What the statement of a history finds: the first m of the entries with the
\* code, in some order.
LEMMA HistoryFound ==
    ASSUME ReportTypeInv, FindHistory
    PROVE  LET E == {e \in log : e.of.code = report.code}
           IN  /\ report \in HistoryReports
               /\ IsFiniteSet(E)
               /\ \E s \in Orders(E) :
                     \E m \in 0..Len(s) :
                        /\ m = (IF report.limit <= Len(s) THEN report.limit ELSE Len(s))
                        /\ s \in Seq(AuditLog)
                        /\ report'.entries = SubSeq(s, 1, m)
                        /\ report' \in HistoryReports
                        /\ Len(report'.entries) = m
                        /\ report'.limit = report.limit /\ report'.code = report.code
                        /\ report'.step = "done"
<1> DEFINE E == {e \in log : e.of.code = report.code}
<1>1. report \in HistoryReports
  BY ReportKinds DEF FindHistory, ReportTypeInv
<1>2. IsFiniteSet(E) /\ E \subseteq AuditLog
  BY PartOf DEF ReportTypeInv, ReportTypeOK, ArrivedInv
<1>3. PICK s \in Orders(E) :
         report' = [report EXCEPT !.entries = SubSeq(s, 1, Min({report.limit, Len(s)})),
                                  !.step = "done"]
  <2>1. ClampedLimit(report.limit) = report.limit
    BY <1>1, ClampedAgain DEF HistoryReports
  <2>2. QED
    BY <2>1 DEF FindHistory
<1> HIDE DEF E
<1>4. s \in Seq(E) /\ Len(s) \in Nat
  BY <1>2, ListOfSet DEF Orders
<1>5. s \in Seq(AuditLog)
  BY <1>2, <1>4
<1> DEFINE m == Min({report.limit, Len(s)})
<1>6. report.limit \in Nat
  BY <1>1, ReportAssumption DEF HistoryReports
<1>7. m = (IF report.limit <= Len(s) THEN report.limit ELSE Len(s))
  BY <1>4, <1>6, MinOfTwo
<1>8. m \in 0..Len(s) /\ m <= report.limit
  BY <1>4, <1>6, <1>7
<1>9. report' = [report EXCEPT !.entries = SubSeq(s, 1, m), !.step = "done"]
  BY <1>3
<1> HIDE DEF m
<1>10. SubSeq(s, 1, m) \in Seq(AuditLog) /\ Len(SubSeq(s, 1, m)) = m
  BY <1>5, <1>8
<1>11. /\ report' \in HistoryReports
       /\ report'.entries = SubSeq(s, 1, m)
       /\ report'.limit = report.limit /\ report'.code = report.code
       /\ report'.step = "done"
  BY <1>1, <1>9, <1>10 DEF HistoryReports
<1>12. QED
  BY <1>1, <1>2, <1>5, <1>7, <1>8, <1>10, <1>11 DEF E

LEMMA FindHistoryType ==
    ASSUME ReportTypeInv, FindHistory
    PROVE  ReportTypeInv'
<1>1. PICK s : \E m \in 0..Len(s) :
         /\ m = (IF report.limit <= Len(s) THEN report.limit ELSE Len(s))
         /\ s \in Seq(AuditLog) /\ report \in HistoryReports
         /\ report' \in HistoryReports
         /\ Len(report'.entries) = m /\ report'.limit = report.limit
  BY HistoryFound
<1>2. Len(s) \in Nat /\ report.limit \in Nat
  BY <1>1, ReportAssumption DEF HistoryReports
<1>3. report' \in HistoryReports /\ Len(report'.entries) <= report'.limit
  BY <1>1, <1>2
<1>4. settled' \subseteq log
  BY DEF FindHistory, ReportTypeInv, ReportTypeOK
<1>5. QED
  BY <1>3, <1>4, ReaderType DEF FindHistory, ReportShape

LEMMA AuditSummaryType ==
    ASSUME ReportTypeInv, NEW asked \in 0..MaxWindow + 1, AuditSummary(asked)
    PROVE  ReportTypeInv'
<1> DEFINE w == WindowOf(asked)
           r == [kind |-> "summary", step |-> "total", window |-> w,
                 since |-> clock - w, total |-> 0, transitions |-> 0, actors |-> 0,
                 actions |-> <<>>, entities |-> <<>>]
<1>1. w \in 1..MaxWindow
  BY ReportAssumption, MinOfTwo DEF WindowOf
<1>2. Ask(r)
  BY DEF AuditSummary
<1> HIDE DEF w
<1>3. clock - w \in -MaxWindow..MaxTime
  BY <1>1, ReportAssumption DEF ReportTypeInv, ReportTypeOK
<1>4. <<>> \in Figures(Actions) /\ <<>> \in Figures(Entities)
  BY NoFigures
<1>5. r \in SummaryReports
  BY <1>1, <1>3, <1>4, ReportAssumption DEF SummaryReports, SummarySteps
<1>6. QED
  BY <1>2, <1>5, AskType

\* What the statements of a summary count are parts of the log.
LEMMA RecentParts ==
    ASSUME ReportTypeInv
    PROVE  /\ IsFiniteSet(Recent)
           /\ Recent \subseteq AuditLog
           /\ Cardinality(Recent) \in 0..MaxEntries
           /\ \A a : /\ IsFiniteSet({e \in Recent : e.of.action = a})
                     /\ Cardinality({e \in Recent : e.of.action = a}) \in 0..MaxEntries
           /\ \A t : IsFiniteSet({e \in Recent : EntityOf[e.of.code] = t})
<1>1. IsFiniteSet(log) /\ Cardinality(log) \in 0..MaxEntries /\ MaxEntries \in Nat
  BY LogBounded, ReportAssumption DEF ReportTypeInv, ArrivedInv
<1>2. ASSUME NEW T, T \subseteq log
      PROVE  IsFiniteSet(T) /\ Cardinality(T) \in 0..MaxEntries
  BY <1>1, <1>2, PartOf
<1>3. Recent \subseteq log
  BY DEF Recent
<1>4. Recent \subseteq AuditLog
  BY <1>3 DEF ReportTypeInv, ReportTypeOK
<1>5. ASSUME NEW a
      PROVE  /\ IsFiniteSet({e \in Recent : e.of.action = a})
             /\ Cardinality({e \in Recent : e.of.action = a}) \in 0..MaxEntries
  <2>1. {e \in Recent : e.of.action = a} \subseteq log
    BY <1>3
  <2>2. QED
    BY <1>2, <2>1
<1>6. ASSUME NEW t PROVE IsFiniteSet({e \in Recent : EntityOf[e.of.code] = t})
  <2>1. {e \in Recent : EntityOf[e.of.code] = t} \subseteq log
    BY <1>3
  <2>2. QED
    BY <1>2, <2>1
<1>7. QED
  BY <1>2, <1>3, <1>4, <1>5, <1>6

\* There are no more actors than entries.
LEMMA ActorsCounted ==
    ASSUME ReportTypeInv
    PROVE  LET A == {e.of.actor : e \in Recent}
           IN  /\ Cardinality(A) \in Nat
               /\ Cardinality(A) <= Cardinality(Recent)
               /\ Recent # {} => Cardinality(A) > 0
<1> DEFINE A == {e.of.actor : e \in Recent}
           g == [e \in Recent |-> e.of.actor]
<1>1. IsFiniteSet(Recent)
  BY RecentParts
<1>2. g \in Surjection(Recent, A)
  BY DEF Surjection
<1> HIDE DEF g
<1>3. IsFiniteSet(A) /\ Cardinality(A) <= Cardinality(Recent)
  BY <1>1, <1>2, FS_Surjection
<1>4. Cardinality(A) \in Nat
  BY <1>3, FS_CardinalityType
<1>5. ASSUME Recent # {} PROVE Cardinality(A) > 0
  <2>1. PICK e : e \in Recent
    BY <1>5
  <2>2. e.of.actor \in A
    BY <2>1
  <2>3. Cardinality(A) \in Nat \ {0}
    BY <1>3, <2>2, SomeCounted
  <2>4. QED
    BY <2>3
<1>6. QED
  BY <1>3, <1>4, <1>5

LEMMA ByActionType ==
    ASSUME ReportTypeInv
    PROVE  ByAction \in Figures(Actions)
<1> DEFINE D == {e.of.action : e \in Recent}
<1>1. D \in SUBSET Actions
  BY RecentParts, ReportAssumption DEF AuditLog
<1>2. ASSUME NEW a \in D
      PROVE  Cardinality({e \in Recent : e.of.action = a}) \in Nat \ {0}
  <2>1. PICK e \in Recent : e.of.action = a
    OBVIOUS
  <2>2. IsFiniteSet({x \in Recent : x.of.action = a}) /\ e \in {x \in Recent : x.of.action = a}
    BY <2>1, RecentParts
  <2>3. QED
    BY <2>2, SomeCounted
<1>3. /\ DOMAIN ByAction = D /\ ByAction = [a \in D |-> ByAction[a]]
      /\ \A a \in D : ByAction[a] \in Nat \ {0}
  BY <1>2 DEF ByAction
<1>4. QED
  BY <1>1, <1>3, CountsAreFigures

LEMMA ByEntityType ==
    ASSUME ReportTypeInv
    PROVE  ByEntity \in Figures(Entities)
<1> DEFINE D == {EntityOf[e.of.code] : e \in Recent}
<1>1. D \in SUBSET Entities
  BY RecentParts, ReportAssumption DEF AuditLog, Entities
<1>2. ASSUME NEW t \in D
      PROVE  Cardinality({e \in Recent : EntityOf[e.of.code] = t}) \in Nat \ {0}
  <2>1. PICK e \in Recent : EntityOf[e.of.code] = t
    OBVIOUS
  <2>2. /\ IsFiniteSet({x \in Recent : EntityOf[x.of.code] = t})
        /\ e \in {x \in Recent : EntityOf[x.of.code] = t}
    BY <2>1, RecentParts
  <2>3. QED
    BY <2>2, SomeCounted
<1>3. /\ DOMAIN ByEntity = D /\ ByEntity = [t \in D |-> ByEntity[t]]
      /\ \A t \in D : ByEntity[t] \in Nat \ {0}
  BY <1>2 DEF ByEntity
<1>4. QED
  BY <1>1, <1>3, CountsAreFigures

LEMMA SummarizeAuditsType ==
    ASSUME ReportTypeInv, SummarizeAudits
    PROVE  ReportTypeInv'
<1>1. report \in SummaryReports
  BY ReportKinds DEF SummarizeAudits, ReportTypeInv
<1>2. /\ Cardinality(Recent) \in 0..MaxEntries
      /\ Cardinality({e \in Recent : e.of.action = "transition"}) \in 0..MaxEntries
      /\ Cardinality({e.of.actor : e \in Recent}) \in 0..MaxEntries
  <2>1. Cardinality(Recent) \in 0..MaxEntries
    BY RecentParts
  <2>2. Cardinality({e \in Recent : e.of.action = "transition"}) \in 0..MaxEntries
    BY RecentParts, Zenon
  <2> DEFINE A == {e.of.actor : e \in Recent}
  <2>3. Cardinality(A) \in Nat /\ Cardinality(A) <= Cardinality(Recent)
    BY ActorsCounted
  <2> HIDE DEF A
  <2>4. Cardinality(A) \in 0..MaxEntries
    BY <2>1, <2>3, ReportAssumption
  <2>5. QED
    BY <2>1, <2>2, <2>4 DEF A
<1>3. ByAction \in Figures(Actions) /\ ByEntity \in Figures(Entities)
  BY ByActionType, ByEntityType
<1>4. report' \in SummaryReports
  BY <1>1, <1>2, <1>3 DEF SummarizeAudits, SummaryReports, SummarySteps
<1>5. settled' \subseteq log
  BY DEF SummarizeAudits, ReportTypeInv, ReportTypeOK
<1>6. QED
  BY <1>4, <1>5, ReaderType DEF SummarizeAudits, ReportShape

LEMMA AppendType ==
    ASSUME ReportTypeInv, NEW of \in Recorded, NEW at \in 0..clock, AppendAudit(of, at)
    PROVE  ReportTypeInv'
<1> DEFINE n == Cardinality(log)
<1>1. n \in 0..MaxEntries /\ n < MaxEntries /\ MaxEntries \in Nat
  BY LogBounded, ReportAssumption DEF AppendAudit
<1>2. /\ log' \subseteq AuditLog /\ log \subseteq log' /\ IsFiniteSet(log')
      /\ Cardinality(log') = n + 1 /\ {e.id : e \in log'} = 1..Cardinality(log')
  BY AppendGrows DEF ReportTypeInv, ReportTypeOK
<1> HIDE DEF n
<1>3. ReportShape' /\ ReportType'
  <2>1. report' = report
    BY DEF AppendAudit
  <2>2. ReportShape'
    BY <2>1 DEF ReportShape, ReportTypeInv
  <2>3. QED
    BY <2>2, ShapeGivesTypeNext
<1>4. settled' \subseteq log'
  BY <1>2 DEF AppendAudit, ReportTypeInv, ReportTypeOK
<1>5. /\ arrived' \in [since : 0..MaxEntries, late : 0..MaxEntries]
      /\ arrived'.late <= arrived'.since
      /\ arrived'.since <= n + 1
  <2>1. /\ arrived \in [since : 0..MaxEntries, late : 0..MaxEntries]
        /\ arrived.late <= arrived.since /\ arrived.since <= n
    BY DEF ReportTypeInv, ReportTypeOK, ArrivedInv, n
  <2>2. \/ arrived' = arrived
        \/ arrived' = [since |-> arrived.since + 1, late |-> arrived.late + 1]
    BY DEF AppendAudit
  <2>3. QED
    BY <1>1, <2>1, <2>2
<1>6. clock' \in 0..MaxTime
  BY DEF AppendAudit, ReportTypeInv, ReportTypeOK
<1>7. QED
  BY <1>2, <1>3, <1>4, <1>5, <1>6 DEF ReportTypeInv, ReportTypeOK, ArrivedInv

LEMMA ReportTypeStep == ReportTypeInv /\ [ReportNext]_reportVars => ReportTypeInv'
<1> SUFFICES ASSUME ReportTypeInv, [ReportNext]_reportVars PROVE ReportTypeInv'
  OBVIOUS
<1>1. ASSUME NEW of \in Recorded, NEW at \in 0..clock, AppendAudit(of, at)
      PROVE  ReportTypeInv'
  BY <1>1, AppendType
<1>2. CASE Tick
  <2>1. ReportShape' /\ ReportType'
    BY <1>2, ShapeGivesTypeNext DEF Tick, ReportShape, ReportTypeInv
  <2>2. clock' \in 0..MaxTime
    BY <1>2, ReportAssumption DEF Tick, ReportTypeInv, ReportTypeOK
  <2>3. QED
    BY <1>2, <2>1, <2>2 DEF Tick, ReportTypeInv, ReportTypeOK, ArrivedInv
<1>3. ASSUME NEW asked \in AskedSizes, ListAudits(asked) PROVE ReportTypeInv'
  BY <1>3, ListAuditsType
<1>4. CASE CountAudits
  BY <1>4, CountAuditsType
<1>5. CASE FindAudits
  BY <1>5, FindAuditsType
<1>6. ASSUME NEW c \in Codes, NEW asked \in 0..MaxLimit + 1, EntityHistory(c, asked)
      PROVE  ReportTypeInv'
  BY <1>6, EntityHistoryType
<1>7. CASE FindHistory
  BY <1>7, FindHistoryType
<1>8. ASSUME NEW asked \in 0..MaxWindow + 1, AuditSummary(asked) PROVE ReportTypeInv'
  BY <1>8, AuditSummaryType
<1>9. CASE SummarizeAudits
  BY <1>9, SummarizeAuditsType
<1>10. CASE EndReport
  <2>1. /\ UNCHANGED <<log, clock>> /\ ReportShape' /\ settled' \subseteq log
        /\ arrived' = NothingArrived
    BY <1>10 DEF EndReport, ReportShape
  <2>2. QED
    BY <2>1, ReaderType
<1>11. CASE UNCHANGED reportVars
  <2>1. ReportShape' /\ ReportType'
    BY <1>11, ShapeGivesTypeNext DEF reportVars, ReportShape, ReportTypeInv
  <2>2. QED
    BY <1>11, <2>1 DEF reportVars, ReportTypeInv, ReportTypeOK, ArrivedInv
<1>12. QED
  BY <1>1, <1>2, <1>3, <1>4, <1>5, <1>6, <1>7, <1>8, <1>9, <1>10, <1>11 DEF ReportNext

LEMMA ReportTypeInit == ReportInit => ReportTypeInv
<1> SUFFICES ASSUME ReportInit PROVE ReportTypeInv
  OBVIOUS
<1>1. IsFiniteSet({}) /\ Cardinality({}) = 0
  BY FS_EmptySet
<1>2. ReportShape /\ ReportType
  BY ShapeGivesType DEF ReportInit, ReportShape
<1>3. {e.id : e \in log} = 1..Cardinality(log)
  <2>1. {e.id : e \in log} = {} /\ 1..0 = {}
    BY DEF ReportInit
  <2>2. QED
    BY <1>1, <2>1 DEF ReportInit
<1>4. arrived \in [since : 0..MaxEntries, late : 0..MaxEntries] /\ clock \in 0..MaxTime
  BY ReportAssumption DEF ReportInit, NothingArrived
<1>5. QED
  BY <1>1, <1>2, <1>3, <1>4
     DEF ReportInit, NothingArrived, ReportTypeInv, ReportTypeOK, ArrivedInv

LEMMA ReportTypeInvariant == ReportSpec => []ReportTypeInv
  BY ReportTypeInit, ReportTypeStep, PTL DEF ReportSpec

\* Every reachable state of the audit log and its reports is well typed, for
\* any entries, limits, windows and page sizes: no report is longer than its
\* limits (security.go:46-103), and the ids of the log are consecutive.
THEOREM ReportTypeCorrect == ReportSpec => []ReportTypeOK
<1>1. ReportTypeInv => ReportTypeOK
  BY DEF ReportTypeInv
<1>2. QED
  BY <1>1, ReportTypeInvariant, PTL

------------------------------------------------------------------------------
(***************************************************************************)
(* The history of a record: once found, its entries stay, and entries that *)
(* arrive later only take others out of the settled ones.                  *)
(***************************************************************************)

\* A step keeps the kind of the report it reads, starts one or ends one.
LEMMA KindsOfSteps ==
    ASSUME ReportTypeInv
    PROVE  /\ CountAudits \/ FindAudits => report.kind = "pages" /\ report'.kind = "pages"
           /\ FindHistory => report.kind = "history" /\ report'.kind = "history"
           /\ SummarizeAudits => report.kind = "summary" /\ report'.kind = "summary"
           /\ EndReport => report'.kind = "none"
           /\ \A asked \in AskedSizes : ListAudits(asked) => report'.kind = "pages"
           /\ \A c \in Codes, asked \in 0..MaxLimit + 1 : EntityHistory(c, asked) =>
                 report'.kind = "history" /\ report'.step = "find"
           /\ \A asked \in 0..MaxWindow + 1 : AuditSummary(asked) =>
                 report'.kind = "summary" /\ report'.step = "total"
<1> USE ReportKinds DEF ReportTypeInv
<1>1. CountAudits \/ FindAudits => report.kind = "pages" /\ report'.kind = "pages"
  BY DEF CountAudits, FindAudits, PagesReport
<1>2. FindHistory => report.kind = "history" /\ report'.kind = "history"
  BY DEF FindHistory, HistoryReports
<1>3. SummarizeAudits => report.kind = "summary" /\ report'.kind = "summary"
  BY DEF SummarizeAudits, SummaryReports
<1>4. EndReport => report'.kind = "none"
  BY DEF EndReport, NoReport
<1>5. \A asked \in AskedSizes : ListAudits(asked) => report'.kind = "pages"
  BY DEF ListAudits, Ask
<1>6. \A c \in Codes, asked \in 0..MaxLimit + 1 : EntityHistory(c, asked) =>
         report'.kind = "history" /\ report'.step = "find"
  BY DEF EntityHistory, Ask
<1>7. \A asked \in 0..MaxWindow + 1 : AuditSummary(asked) =>
         report'.kind = "summary" /\ report'.step = "total"
  BY DEF AuditSummary, Ask
<1>8. QED
  BY <1>1, <1>2, <1>3, <1>4, <1>5, <1>6, <1>7

LEMMA FindHistoryKeeps ==
    ASSUME ReportTypeInv, FindHistory
    PROVE  HistoryKeepsTheNewest'
<1> DEFINE E == {e \in log : e.of.code = report.code}
<1>1. IsFiniteSet(E)
  BY HistoryFound
<1>2. PICK s \in Orders(E) :
         \E m \in 0..Len(s) :
            /\ m = (IF report.limit <= Len(s) THEN report.limit ELSE Len(s))
            /\ s \in Seq(AuditLog)
            /\ report'.entries = SubSeq(s, 1, m)
            /\ Len(report'.entries) = m
            /\ report'.limit = report.limit /\ report'.code = report.code
  BY HistoryFound
<1>3. PICK m \in 0..Len(s) :
         /\ m = (IF report.limit <= Len(s) THEN report.limit ELSE Len(s))
         /\ s \in Seq(AuditLog)
         /\ report'.entries = SubSeq(s, 1, m)
         /\ Len(report'.entries) = m
         /\ report'.limit = report.limit /\ report'.code = report.code
  BY <1>2
<1>4. /\ DOMAIN report'.entries = 1..m
      /\ \A i \in 1..m : report'.entries[i] = s[i]
  BY <1>3
<1>5. settled' = settled /\ settled \subseteq log
  BY DEF FindHistory, ReportTypeInv, ReportTypeOK
<1>6. ASSUME NEW e \in settled', e.of.code = report'.code, e \notin ToSet(report'.entries)
      PROVE  /\ Len(report'.entries) = report'.limit
             /\ \A i \in DOMAIN report'.entries : report'.entries[i].at >= e.at
  <2>1. e \in E
    BY <1>3, <1>5, <1>6
  <2> HIDE DEF E
  <2>2. /\ s \in Bijection(1..Cardinality(E), E) /\ Len(s) = Cardinality(E)
        /\ Len(s) \in Nat
    BY <1>1, <1>2, ListOfSet DEF Orders
  <2>3. PICK p \in 1..Len(s) : s[p] = e
    BY <2>1, <2>2 DEF Bijection, Surjection
  <2>4. p > m
    <3>1. CASE p <= m
      <4>1. p \in 1..m
        BY <2>2, <2>3, <3>1
      <4>2. report'.entries[p] = e
        BY <1>4, <2>3, <4>1
      <4>3. e \in ToSet(report'.entries)
        BY <1>4, <4>1, <4>2 DEF ToSet
      <4>4. QED
        BY <1>6, <4>3
    <3>2. QED
      BY <2>2, <2>3, <3>1
  <2>5. m = report.limit
    BY <1>3, <2>2, <2>3, <2>4
  <2>6. NewestFirst(s) /\ DOMAIN s = 1..Len(s)
    BY <1>2, <1>3 DEF Orders
  <2>7. \A i \in 1..m : i \in 1..Len(s) /\ i < p
    BY <2>2, <2>3, <2>4
  <2>8. \A i \in 1..m : s[i].at >= e.at
    BY <2>3, <2>6, <2>7 DEF NewestFirst
  <2>9. QED
    BY <1>3, <1>4, <2>5, <2>8
<1>7. QED
  BY <1>6 DEF HistoryKeepsTheNewest

LEMMA HistoryStep ==
    ReportTypeInv /\ HistoryKeepsTheNewest /\ [ReportNext]_reportVars
        => HistoryKeepsTheNewest'
<1> SUFFICES ASSUME ReportTypeInv, HistoryKeepsTheNewest, [ReportNext]_reportVars
             PROVE  HistoryKeepsTheNewest'
  OBVIOUS
<1>1. ASSUME report' = report, settled' \subseteq settled
      PROVE  HistoryKeepsTheNewest'
  BY <1>1 DEF HistoryKeepsTheNewest
<1>2. ASSUME report'.kind # "history" \/ report'.step = "find"
      PROVE  HistoryKeepsTheNewest'
  BY <1>2 DEF HistoryKeepsTheNewest
<1>3. ASSUME NEW of \in Recorded, NEW at \in 0..clock, AppendAudit(of, at)
      PROVE  HistoryKeepsTheNewest'
  BY <1>1, <1>3 DEF AppendAudit
<1>4. CASE Tick
  BY <1>1, <1>4 DEF Tick
<1>5. ASSUME NEW asked \in AskedSizes, ListAudits(asked) PROVE HistoryKeepsTheNewest'
  BY <1>2, <1>5, KindsOfSteps
<1>6. CASE CountAudits \/ FindAudits
  BY <1>2, <1>6, KindsOfSteps
<1>7. ASSUME NEW c \in Codes, NEW asked \in 0..MaxLimit + 1, EntityHistory(c, asked)
      PROVE  HistoryKeepsTheNewest'
  BY <1>2, <1>7, KindsOfSteps
<1>8. CASE FindHistory
  BY <1>8, FindHistoryKeeps
<1>9. ASSUME NEW asked \in 0..MaxWindow + 1, AuditSummary(asked)
      PROVE  HistoryKeepsTheNewest'
  BY <1>2, <1>9, KindsOfSteps
<1>10. CASE SummarizeAudits
  BY <1>2, <1>10, KindsOfSteps
<1>11. CASE EndReport
  BY <1>2, <1>11, KindsOfSteps
<1>12. CASE UNCHANGED reportVars
  BY <1>1, <1>12 DEF reportVars
<1>13. QED
  BY <1>3, <1>4, <1>5, <1>6, <1>7, <1>8, <1>9, <1>10, <1>11, <1>12 DEF ReportNext

\* A history leaves out an entry only if it shows limit others that are as
\* recent (security.go:92-103), for any log and limits.
THEOREM HistoriesKeepTheNewest == ReportSpec => []HistoryKeepsTheNewest
<1>1. ReportInit => HistoryKeepsTheNewest
  BY DEF ReportInit, NoReport, HistoryKeepsTheNewest
<1>2. QED
  BY <1>1, HistoryStep, ReportTypeInvariant, PTL DEF ReportSpec

------------------------------------------------------------------------------
(***************************************************************************)
(* The summary: the entries of the window only become more, so a figure    *)
(* that was counted once is covered by whatever is counted later.          *)
(***************************************************************************)
Transitions == {e \in Recent : e.of.action = "transition"}

\* What the log has of the figures read so far.
FiguresCovered ==
    /\ report.total <= Cardinality(Recent)
    /\ report.transitions <= Cardinality(Transitions)
    /\ report.actors <= Cardinality(Recent)

\* What the breakdown by action has of the figures read before it.
ActionsCover ==
    /\ SumOver(report.actions) \in Nat
    /\ report.total <= SumOver(report.actions)
    /\ report.actors <= SumOver(report.actions)
    /\ report.transitions > 0 =>
          /\ "transition" \in DOMAIN report.actions
          /\ report.transitions <= report.actions["transition"]

SummaryInv ==
    report.kind = "summary" =>
        /\ FiguresCovered
        /\ report.step \in {"actions", "entities", "done"} =>
              (report.total > 0 => report.actors > 0)
        /\ report.step \in {"entities", "done"} =>
              ActionsCover /\ SumOver(report.actions) <= Cardinality(Recent)
        /\ report.step = "done" => SumOver(report.actions) <= SumOver(report.entities)

LEMMA SummaryInvGives == SummaryInv => SummaryAddsUp
  BY DEF SummaryInv, ActionsCover, SummaryAddsUp

LEMMA TransitionsCounted ==
    ASSUME ReportTypeInv
    PROVE  IsFiniteSet(Transitions) /\ Cardinality(Transitions) \in Nat
<1>1. Transitions \subseteq Recent
  BY DEF Transitions
<1>2. QED
  BY <1>1, PartOf, RecentParts

LEMMA ActionsAddUp ==
    ASSUME ReportTypeInv
    PROVE  /\ SumOver(ByAction) = Cardinality(Recent)
           /\ Transitions # {} => /\ "transition" \in DOMAIN ByAction
                                 /\ ByAction["transition"] = Cardinality(Transitions)
<1> DEFINE key == [e \in Recent |-> e.of.action]
           f   == ByAction
<1>1. DOMAIN f = {key[e] : e \in Recent}
  BY DEF ByAction
<1>2. ASSUME NEW a \in DOMAIN f
      PROVE  f[a] = Cardinality({e \in Recent : key[e] = a})
  <2>1. f[a] = Cardinality({e \in Recent : e.of.action = a})
    BY <1>2 DEF ByAction
  <2>2. {e \in Recent : e.of.action = a} = {e \in Recent : key[e] = a}
    OBVIOUS
  <2>3. QED
    BY <2>1, <2>2, Zenon
<1>3. IsFiniteSet(Recent)
  BY RecentParts
<1>4. ASSUME Transitions # {}
      PROVE  "transition" \in DOMAIN f /\ f["transition"] = Cardinality(Transitions)
  <2>1. "transition" \in DOMAIN f
    BY <1>4 DEF ByAction, Transitions
  <2>2. f["transition"] = Cardinality({e \in Recent : e.of.action = "transition"})
    BY <2>1 DEF ByAction
  <2>3. QED
    BY <2>1, <2>2 DEF Transitions
<1> HIDE DEF key, f
<1>5. \A a \in DOMAIN f : f[a] = Cardinality({e \in Recent : key[e] = a})
  BY <1>2
<1>6. SumOver(f) = Cardinality(Recent)
  BY <1>1, <1>3, <1>5, GroupsAddUp
<1>7. QED
  BY <1>4, <1>6 DEF f

LEMMA EntitiesAddUp ==
    ASSUME ReportTypeInv
    PROVE  SumOver(ByEntity) = Cardinality(Recent)
<1> DEFINE key == [e \in Recent |-> EntityOf[e.of.code]]
           f   == ByEntity
<1>1. DOMAIN f = {key[e] : e \in Recent}
  BY DEF ByEntity
<1>2. ASSUME NEW t \in DOMAIN f
      PROVE  f[t] = Cardinality({e \in Recent : key[e] = t})
  <2>1. f[t] = Cardinality({e \in Recent : EntityOf[e.of.code] = t})
    BY <1>2 DEF ByEntity
  <2>2. {e \in Recent : EntityOf[e.of.code] = t} = {e \in Recent : key[e] = t}
    OBVIOUS
  <2>3. QED
    BY <2>1, <2>2, Zenon
<1>3. IsFiniteSet(Recent)
  BY RecentParts
<1> HIDE DEF key, f
<1>4. \A t \in DOMAIN f : f[t] = Cardinality({e \in Recent : key[e] = t})
  BY <1>2
<1>5. SumOver(f) = Cardinality(Recent)
  BY <1>1, <1>3, <1>4, GroupsAddUp
<1>6. QED
  BY <1>5 DEF f

\* More entries cover the figures of the same report.
LEMMA SummaryCovered ==
    ASSUME ReportTypeInv, SummaryInv, report' = report,
           log \subseteq log', IsFiniteSet(log')
    PROVE  SummaryInv'
<1> SUFFICES ASSUME report.kind = "summary" PROVE SummaryInv'
  BY DEF SummaryInv
<1>1. report \in SummaryReports
  BY ReportKinds DEF ReportTypeInv
<1>2. Recent \subseteq Recent' /\ Transitions \subseteq Transitions'
  BY DEF Recent, InWindow, Transitions
<1>3. IsFiniteSet(Recent') /\ IsFiniteSet(Transitions')
  <2>1. Recent' \subseteq log' /\ Transitions' \subseteq log'
    BY DEF Recent, Transitions
  <2>2. QED
    BY <2>1, PartOf
<1>4. /\ Cardinality(Recent) <= Cardinality(Recent')
      /\ Cardinality(Transitions) <= Cardinality(Transitions')
      /\ Cardinality(Recent) \in Nat /\ Cardinality(Recent') \in Nat
      /\ Cardinality(Transitions) \in Nat /\ Cardinality(Transitions') \in Nat
  BY <1>2, <1>3, PartOf
<1>5. /\ report.total \in Nat /\ report.transitions \in Nat /\ report.actors \in Nat
  BY <1>1 DEF SummaryReports
<1>6. FiguresCovered'
  BY <1>4, <1>5 DEF SummaryInv, FiguresCovered
<1>7. ASSUME report.step \in {"entities", "done"}
      PROVE  ActionsCover' /\ SumOver(report'.actions) <= Cardinality(Recent')
  BY <1>4, <1>7 DEF SummaryInv, ActionsCover
<1>8. QED
  BY <1>6, <1>7 DEF SummaryInv

LEMMA SummarizeKeeps ==
    ASSUME ReportTypeInv, SummaryInv, SummarizeAudits
    PROVE  SummaryInv'
<1> DEFINE n == Cardinality(Recent)
           k == Cardinality(Transitions)
           A == {e.of.actor : e \in Recent}
<1>1. report \in SummaryReports /\ report.kind = "summary"
  BY ReportKinds DEF SummarizeAudits, ReportTypeInv
<1>2. log' = log /\ report'.since = report.since /\ report'.kind = "summary"
  BY <1>1 DEF SummarizeAudits, SummaryReports
<1>3. Cardinality(Recent') = n /\ Cardinality(Transitions') = k
  <2>1. Recent' = Recent /\ Transitions' = Transitions
    BY <1>2 DEF Recent, InWindow, Transitions
  <2>2. QED
    BY <2>1
<1>4. n \in Nat /\ k \in Nat
  BY RecentParts, TransitionsCounted
<1>5. /\ report.total \in Nat /\ report.transitions \in Nat /\ report.actors \in Nat
      /\ report.total <= n /\ report.transitions <= k /\ report.actors <= n
  BY <1>1 DEF SummaryReports, SummaryInv, FiguresCovered
<1>6. CASE report.step = "total"
  <2>1. /\ report'.step = "transitions" /\ report'.total = n
        /\ report'.transitions = report.transitions /\ report'.actors = report.actors
    BY <1>1, <1>6 DEF SummarizeAudits, SummaryReports
  <2> HIDE DEF n, k
  <2>2. FiguresCovered'
    BY <1>3, <1>4, <1>5, <2>1 DEF FiguresCovered
  <2>3. QED
    BY <2>1, <2>2 DEF SummaryInv
<1>7. CASE report.step = "transitions"
  <2>1. /\ report'.step = "actors" /\ report'.total = report.total
        /\ report'.transitions = k /\ report'.actors = report.actors
    BY <1>1, <1>7 DEF SummarizeAudits, SummaryReports, Transitions
  <2> HIDE DEF n, k
  <2>2. FiguresCovered'
    BY <1>3, <1>4, <1>5, <2>1 DEF FiguresCovered
  <2>3. QED
    BY <2>1, <2>2 DEF SummaryInv
<1>8. CASE report.step = "actors"
  <2>1. /\ report'.step = "actions" /\ report'.total = report.total
        /\ report'.transitions = report.transitions /\ report'.actors = Cardinality(A)
    BY <1>1, <1>8 DEF SummarizeAudits, SummaryReports
  <2>2. /\ Cardinality(A) \in Nat /\ Cardinality(A) <= n
        /\ Recent # {} => Cardinality(A) > 0
    BY ActorsCounted
  <2>3. n > 0 => Recent # {}
    BY FS_EmptySet
  <2> HIDE DEF n, k, A
  <2>4. FiguresCovered'
    BY <1>3, <1>4, <1>5, <2>1, <2>2 DEF FiguresCovered
  <2>5. report'.total > 0 => report'.actors > 0
    BY <1>4, <1>5, <2>1, <2>2, <2>3
  <2>6. QED
    BY <2>1, <2>4, <2>5 DEF SummaryInv
<1>9. CASE report.step = "actions"
  <2>1. /\ report'.step = "entities" /\ report'.total = report.total
        /\ report'.transitions = report.transitions /\ report'.actors = report.actors
        /\ report'.actions = ByAction
    BY <1>1, <1>9 DEF SummarizeAudits, SummaryReports
  <2>2. /\ SumOver(ByAction) = n
        /\ Transitions # {} => /\ "transition" \in DOMAIN ByAction
                              /\ ByAction["transition"] = k
    BY ActionsAddUp
  <2>3. k > 0 => Transitions # {}
    BY FS_EmptySet
  <2>4. report.total > 0 => report.actors > 0
    BY <1>1, <1>9 DEF SummaryInv
  <2> HIDE DEF n, k
  <2>5. FiguresCovered'
    BY <1>3, <1>4, <1>5, <2>1 DEF FiguresCovered
  <2>6. ActionsCover' /\ SumOver(report'.actions) <= Cardinality(Recent')
    BY <1>3, <1>4, <1>5, <2>1, <2>2, <2>3 DEF ActionsCover
  <2>7. QED
    BY <2>1, <2>4, <2>5, <2>6 DEF SummaryInv
<1>10. CASE report.step = "entities"
  <2>1. /\ report'.step = "done" /\ report'.total = report.total
        /\ report'.transitions = report.transitions /\ report'.actors = report.actors
        /\ report'.actions = report.actions /\ report'.entities = ByEntity
    BY <1>1, <1>10 DEF SummarizeAudits, SummaryReports
  <2>2. SumOver(ByEntity) = n
    BY EntitiesAddUp
  <2>3. /\ report.total > 0 => report.actors > 0
        /\ ActionsCover /\ SumOver(report.actions) <= n
    BY <1>1, <1>10 DEF SummaryInv
  <2> HIDE DEF n, k
  <2>4. FiguresCovered'
    BY <1>3, <1>5, <2>1 DEF FiguresCovered
  <2>5. ActionsCover' /\ SumOver(report'.actions) <= Cardinality(Recent')
    BY <1>3, <2>1, <2>3 DEF ActionsCover
  <2>6. SumOver(report'.actions) <= SumOver(report'.entities)
    BY <2>1, <2>2, <2>3
  <2>7. QED
    BY <2>1, <2>3, <2>4, <2>5, <2>6 DEF SummaryInv
<1>11. QED
  BY <1>6, <1>7, <1>8, <1>9, <1>10 DEF SummarizeAudits

LEMMA AuditSummaryKeeps ==
    ASSUME ReportTypeInv, NEW asked \in 0..MaxWindow + 1, AuditSummary(asked)
    PROVE  SummaryInv'
<1>1. /\ report'.step = "total" /\ report'.total = 0
      /\ report'.transitions = 0 /\ report'.actors = 0
  BY DEF AuditSummary, Ask
<1>2. log' = log
  BY DEF AuditSummary, Ask
<1>3. Recent' \subseteq log /\ Transitions' \subseteq log
  BY <1>2 DEF Recent, Transitions
<1>4. Cardinality(Recent') \in Nat /\ Cardinality(Transitions') \in Nat
  BY <1>3, PartOf DEF ReportTypeInv, ArrivedInv
<1>5. FiguresCovered'
  BY <1>1, <1>4 DEF FiguresCovered
<1>6. QED
  BY <1>1, <1>5 DEF SummaryInv

LEMMA SummaryStep ==
    ReportTypeInv /\ SummaryInv /\ [ReportNext]_reportVars => SummaryInv'
<1> SUFFICES ASSUME ReportTypeInv, SummaryInv, [ReportNext]_reportVars
             PROVE  SummaryInv'
  OBVIOUS
<1>1. ASSUME report'.kind # "summary" PROVE SummaryInv'
  BY <1>1 DEF SummaryInv
<1>2. ASSUME NEW of \in Recorded, NEW at \in 0..clock, AppendAudit(of, at)
      PROVE  SummaryInv'
  <2>1. report' = report /\ log \subseteq log' /\ IsFiniteSet(log')
    BY <1>2, AppendGrows DEF AppendAudit
  <2>2. QED
    BY <2>1, SummaryCovered
<1>3. CASE Tick \/ UNCHANGED reportVars
  <2>1. report' = report /\ log \subseteq log' /\ IsFiniteSet(log')
    BY <1>3 DEF Tick, reportVars, ReportTypeInv, ArrivedInv
  <2>2. QED
    BY <2>1, SummaryCovered
<1>4. ASSUME NEW asked \in AskedSizes, ListAudits(asked) PROVE SummaryInv'
  BY <1>1, <1>4, KindsOfSteps
<1>5. CASE CountAudits \/ FindAudits
  BY <1>1, <1>5, KindsOfSteps
<1>6. ASSUME NEW c \in Codes, NEW asked \in 0..MaxLimit + 1, EntityHistory(c, asked)
      PROVE  SummaryInv'
  BY <1>1, <1>6, KindsOfSteps
<1>7. CASE FindHistory
  BY <1>1, <1>7, KindsOfSteps
<1>8. ASSUME NEW asked \in 0..MaxWindow + 1, AuditSummary(asked) PROVE SummaryInv'
  BY <1>8, AuditSummaryKeeps
<1>9. CASE SummarizeAudits
  BY <1>9, SummarizeKeeps
<1>10. CASE EndReport
  BY <1>1, <1>10, KindsOfSteps
<1>11. QED
  BY <1>2, <1>3, <1>4, <1>5, <1>6, <1>7, <1>8, <1>9, <1>10 DEF ReportNext

\* The figures of a summary fit together (security.go:62-90) whatever the
\* services record between the statements, for any log and windows.
THEOREM SummariesAddUp == ReportSpec => []SummaryAddsUp
<1>1. ReportInit => SummaryInv
  BY DEF ReportInit, NoReport, SummaryInv
<1>2. QED
  BY <1>1, SummaryStep, SummaryInvGives, ReportTypeInvariant, PTL DEF ReportSpec

------------------------------------------------------------------------------
(***************************************************************************)
(* The pages of the audit log.  An entry whose time no other has is in     *)
(* every order the database may give at the same place.                    *)
(***************************************************************************)

\* The entries up to and including e, newest first.
UpTo(e) == {x \in log : x.at >= e.at}

EntryRank == [e \in log |-> Cardinality(UpTo(e))]

\* No entry shares the time of a settled one.
SettledInv ==
    /\ report = NoReport => settled = {}
    /\ \A e \in settled : \A x \in log : x.at = e.at => x = e

SettledRanked == Ranks(settled, EntryRank)

AuditPagesInv ==
    report.kind = "pages" =>
        PagesInv(report.pages, settled, EntryRank, Cardinality(log),
                 0, arrived.since, arrived.late)

LEMMA EntryTimes ==
    ASSUME ReportTypeInv
    PROVE  \A e \in log : e.at \in Int
<1>1. \A e \in AuditLog : e.at \in 0..MaxTime
  BY DEF AuditLog
<1>2. \A n \in 0..MaxTime : n \in Int
  BY ReportAssumption
<1>3. QED
  BY <1>1, <1>2 DEF ReportTypeInv, ReportTypeOK

LEMMA EntryRankType ==
    ASSUME ReportTypeInv, NEW e \in log
    PROVE  /\ IsFiniteSet(UpTo(e))
           /\ EntryRank[e] = Cardinality(UpTo(e)) /\ EntryRank[e] \in Nat \ {0}
<1>1. UpTo(e) \subseteq log /\ e \in UpTo(e)
  BY EntryTimes DEF UpTo
<1>2. IsFiniteSet(UpTo(e))
  BY <1>1, PartOf DEF ReportTypeInv, ArrivedInv
<1>3. Cardinality(UpTo(e)) \in Nat \ {0}
  BY <1>1, <1>2, SomeCounted
<1>4. EntryRank[e] = Cardinality(UpTo(e))
  BY DEF EntryRank
<1>5. QED
  BY <1>2, <1>3, <1>4

\* An entry that is older has a higher rank.
LEMMA OlderRanksHigher ==
    ASSUME ReportTypeInv, NEW e \in log, NEW f \in log, f.at < e.at
    PROVE  EntryRank[e] # EntryRank[f]
<1>1. UpTo(e) \subseteq UpTo(f) /\ f \in UpTo(f) /\ f \notin UpTo(e)
  BY EntryTimes DEF UpTo
<1>2. UpTo(e) # UpTo(f)
  BY <1>1
<1>3. Cardinality(UpTo(e)) # Cardinality(UpTo(f))
  BY <1>1, <1>2, EntryRankType, FS_Subset
<1>4. QED
  BY <1>3, EntryRankType

LEMMA SettledRanks == ReportTypeInv /\ SettledInv => SettledRanked
<1> SUFFICES ASSUME ReportTypeInv, SettledInv PROVE SettledRanked
  OBVIOUS
<1>1. settled \subseteq log /\ IsFiniteSet(log)
  BY DEF ReportTypeInv, ReportTypeOK, ArrivedInv
<1>2. IsFiniteSet(settled)
  BY <1>1, FS_Subset
<1>3. \A e \in settled : EntryRank[e] \in Nat \ {0}
  BY <1>1, EntryRankType
<1>4. ASSUME NEW e \in settled, NEW f \in settled, EntryRank[e] = EntryRank[f]
      PROVE  e = f
  <2>1. e.at \in Int /\ f.at \in Int
    BY <1>1, EntryTimes
  <2>2. ~(f.at < e.at) /\ ~(e.at < f.at)
    BY <1>1, <1>4, OlderRanksHigher
  <2>3. e.at = f.at
    BY <2>1, <2>2
  <2>4. QED
    BY <1>1, <2>3 DEF SettledInv
<1>5. QED
  BY <1>2, <1>3, <1>4 DEF SettledRanked, Ranks

LEMMA SettledRanksNext == ReportTypeInv' /\ SettledInv' => SettledRanked'
  BY SettledRanks, PTL

LEMMA SettledInPlace ==
    ASSUME ReportTypeInv, SettledInv, NEW l \in Orders(log), NEW e \in settled
    PROVE  \E p \in 1..Cardinality(log) : l[p] = e /\ EntryRank[e] = p
<1> DEFINE n == Cardinality(log)
<1>1. settled \subseteq log /\ IsFiniteSet(log)
  BY DEF ReportTypeInv, ReportTypeOK, ArrivedInv
<1>2. l \in SetToSeqs(log) /\ NewestFirst(l)
  BY DEF Orders
<1>3. /\ l \in Bijection(1..n, log) /\ Len(l) = n /\ n \in Nat
      /\ DOMAIN l = 1..n
  BY <1>1, <1>2, ListOfSet
<1>4. PICK p \in 1..n : l[p] = e
  BY <1>1, <1>3 DEF Bijection, Surjection
<1>5. \A i \in 1..n : l[i] \in log
  BY <1>3 DEF Bijection, Injection, Surjection
<1>6. \A i, j \in 1..n : i < j => l[i].at >= l[j].at
  BY <1>2, <1>3 DEF NewestFirst
<1> HIDE DEF n
<1>7. ASSUME NEW i \in 1..p PROVE l[i] \in UpTo(e)
  <2>1. i \in 1..n /\ (i < p \/ i = p)
    BY <1>3
  <2>2. l[i].at >= e.at
    BY <1>1, <1>4, <1>6, <2>1, EntryTimes
  <2>3. QED
    BY <1>5, <2>1, <2>2 DEF UpTo
<1>8. ASSUME NEW x \in UpTo(e) PROVE \E i \in 1..p : l[i] = x
  <2>1. x \in log /\ x.at >= e.at
    BY DEF UpTo
  <2>2. PICK j \in 1..n : l[j] = x
    BY <1>3, <2>1 DEF Bijection, Surjection
  <2>3. CASE j <= p
    BY <1>3, <2>2, <2>3
  <2>4. CASE p < j
    <3>1. e.at >= x.at
      BY <1>4, <1>6, <2>2, <2>4
    <3>2. x.at = e.at
      BY <1>1, <2>1, <3>1, EntryTimes
    <3>3. x = e
      BY <2>1, <3>2 DEF SettledInv
    <3>4. QED
      BY <1>3, <1>4, <3>3
  <2>5. QED
    BY <1>3, <2>3, <2>4
<1>9. UpTo(e) = {l[i] : i \in 1..p}
  BY <1>7, <1>8
<1>10. Cardinality({l[i] : i \in 1..p}) = p
  BY <1>1, <1>2, RankOfPlace DEF n
<1>11. EntryRank[e] = p
  BY <1>1, <1>9, <1>10, EntryRankType
<1>12. QED
  BY <1>4, <1>11 DEF n

\* An insert moves an entry down by at most one place.
LEMMA InsertMovesDown ==
    ASSUME ReportTypeInv, ReportTypeInv', NEW of \in Recorded, NEW at \in 0..clock,
           AppendAudit(of, at), NEW e \in log
    PROVE  EntryRank[e] <= EntryRank'[e] /\ EntryRank'[e] <= EntryRank[e] + 1
<1> DEFINE x == NewEntry(of, at)
           U == UpTo(e)
           V == {y \in log' : y.at >= e.at}
<1>1. log' = log \cup {x} /\ x \notin log /\ IsFiniteSet(log')
  BY AppendGrows
<1>2. EntryRank'[e] = Cardinality(V)
  BY <1>1 DEF EntryRank, UpTo
<1>3. EntryRank[e] = Cardinality(U) /\ IsFiniteSet(U)
  BY EntryRankType
<1>4. U \subseteq V /\ V \subseteq U \cup {x} /\ IsFiniteSet(V)
  BY <1>1, FS_Subset DEF UpTo
<1> HIDE DEF U, V, x
<1>5. Cardinality(U) \in Nat /\ Cardinality(V) \in Nat /\ Cardinality(U) <= Cardinality(V)
  BY <1>4, PartOf
<1>6. /\ IsFiniteSet(U \cup {x})
      /\ Cardinality(U \cup {x}) = Cardinality(U) \/ Cardinality(U \cup {x}) = Cardinality(U) + 1
  BY <1>3, FS_AddElement
<1>7. Cardinality(V) <= Cardinality(U \cup {x})
  BY <1>4, <1>6, PartOf
<1>8. QED
  BY <1>2, <1>3, <1>5, <1>6, <1>7

LEMMA SettledStep ==
    ReportTypeInv /\ SettledInv /\ [ReportNext]_reportVars => SettledInv'
<1> SUFFICES ASSUME ReportTypeInv, SettledInv, [ReportNext]_reportVars
             PROVE  SettledInv'
  OBVIOUS
<1> USE ReportKinds DEF ReportTypeInv
<1>1. ASSUME NEW of \in Recorded, NEW at \in 0..clock, AppendAudit(of, at)
      PROVE  SettledInv'
  <2> DEFINE x == NewEntry(of, at)
  <2>1. log' = log \cup {x} /\ x.at = at /\ report' = report
    BY <1>1 DEF AppendAudit, NewEntry
  <2>2. CASE report = NoReport
    BY <1>1, <2>1, <2>2 DEF AppendAudit, SettledInv
  <2>3. CASE report # NoReport
    BY <1>1, <2>1, <2>3 DEF AppendAudit, SettledInv
  <2>4. QED
    BY <2>2, <2>3
<1>2. ASSUME UNCHANGED <<log, settled>>, report' # NoReport PROVE SettledInv'
  BY <1>2 DEF SettledInv
<1>3. ASSUME NEW r, Ask(r), r # NoReport PROVE SettledInv'
  BY <1>3 DEF Ask, SettledInv
<1>4. ASSUME NEW asked \in AskedSizes, ListAudits(asked) PROVE SettledInv'
  BY <1>3, <1>4 DEF ListAudits, NoReport
<1>5. ASSUME NEW c \in Codes, NEW asked \in 0..MaxLimit + 1, EntityHistory(c, asked)
      PROVE  SettledInv'
  BY <1>3, <1>5 DEF EntityHistory, NoReport
<1>6. ASSUME NEW asked \in 0..MaxWindow + 1, AuditSummary(asked) PROVE SettledInv'
  BY <1>3, <1>6 DEF AuditSummary, NoReport
<1>7. CASE CountAudits \/ FindAudits \/ FindHistory \/ SummarizeAudits
  <2>1. report'.kind # "none"
    BY <1>7, KindsOfSteps
  <2>2. report' # NoReport
    BY <2>1 DEF NoReport
  <2>3. UNCHANGED <<log, settled>>
    BY <1>7 DEF CountAudits, FindAudits, FindHistory, SummarizeAudits
  <2>4. QED
    BY <1>2, <2>2, <2>3
<1>8. CASE EndReport
  BY <1>8 DEF EndReport, SettledInv
<1>9. CASE Tick \/ UNCHANGED reportVars
  BY <1>9 DEF Tick, reportVars, SettledInv
<1>10. QED
  BY <1>1, <1>4, <1>5, <1>6, <1>7, <1>8, <1>9 DEF ReportNext

LEMMA AppendKeepsPages ==
    ASSUME ReportTypeInv, ReportTypeInv', SettledInv, SettledInv', AuditPagesInv,
           NEW of \in Recorded, NEW at \in 0..clock, AppendAudit(of, at)
    PROVE  AuditPagesInv'
<1> SUFFICES ASSUME report'.kind = "pages" PROVE AuditPagesInv'
  BY DEF AuditPagesInv
<1>1. report' = report /\ report.kind = "pages" /\ report # NoReport
  BY DEF AppendAudit, NoReport
<1> DEFINE q == report.pages
<1>2. q \in PagesOf(AuditLog)
  BY <1>1, ReportKinds DEF ReportTypeInv, PagesReport
<1>3. /\ settled' \subseteq settled /\ settled \subseteq log
      /\ arrived' = [since |-> arrived.since + 1, late |-> arrived.late + 1]
  BY <1>1 DEF AppendAudit, ReportTypeInv, ReportTypeOK
<1>4. Ranks(settled, EntryRank) /\ Ranks(settled', EntryRank')
  BY SettledRanks, SettledRanksNext DEF SettledRanked
<1>5. \A e \in settled' : EntryRank[e] \in Nat
  BY <1>3, <1>4 DEF Ranks
<1>6. \A e \in settled' : EntryRank[e] <= EntryRank'[e] /\ EntryRank'[e] <= EntryRank[e] + 1
  BY <1>3, InsertMovesDown
<1>7. \A e \in settled' : EntryRank[e] - 0 <= EntryRank'[e] /\ EntryRank'[e] <= EntryRank[e] + 1
  BY <1>5, <1>6
<1>8. /\ Cardinality(log) \in Nat /\ Cardinality(log') \in Nat
      /\ Cardinality(log') = Cardinality(log) + 1
      /\ arrived.since \in Nat /\ arrived.late \in Nat
  BY AppendGrows, LogBounded, ReportAssumption DEF ReportTypeInv, ReportTypeOK
<1>9. PagesInv(q, settled, EntryRank, Cardinality(log), 0, arrived.since, arrived.late)
  BY <1>1 DEF AuditPagesInv
<1>10. q.page \in Nat \ {0} /\ q.size \in Nat \ {0} /\ q.total \in Nat
  BY <1>2, PagingAssumption DEF PagesOf
<1> HIDE DEF q
<1>11. PagesInv(q, settled', EntryRank', Cardinality(log'), 0 + 0,
                arrived.since + 1, arrived.late + 1)
  <2>1. Cardinality(log') <= Cardinality(log) + 1 /\ 0 \in {0, 1} /\ 1 \in {0, 1}
    BY <1>8
  <2> DEFINE W == settled
             V == settled'
             r == EntryRank
             t == EntryRank'
             n == Cardinality(log)
             m == Cardinality(log')
  <2>2. /\ Ranks(W, r) /\ Ranks(V, t) /\ V \subseteq W
        /\ \A e \in V : r[e] - 0 <= t[e] /\ t[e] <= r[e] + 1
        /\ n \in Nat /\ m \in Nat /\ m <= n + 1
        /\ PagesInv(q, W, r, n, 0, arrived.since, arrived.late)
    BY <1>3, <1>4, <1>7, <1>8, <1>9, <2>1
  <2> HIDE DEF W, V, r, t, n, m
  <2>3. PagesInv(q, V, t, m, 0 + 0, arrived.since + 1, arrived.late + 1)
    BY <1>8, <1>10, <2>1, <2>2, WritesKeep
  <2>4. QED
    BY <2>3 DEF V, t, m
<1>12. PagesInv(report'.pages, settled', EntryRank', Cardinality(log'), 0,
                arrived'.since, arrived'.late)
  BY <1>1, <1>3, <1>11 DEF q
<1>13. QED
  BY <1>12 DEF AuditPagesInv

LEMMA CountAuditsKeeps ==
    ASSUME ReportTypeInv, AuditPagesInv, CountAudits
    PROVE  AuditPagesInv'
<1>1. report \in PagesReport
  BY ReportKinds DEF CountAudits, ReportTypeInv
<1>2. PICK l \in Orders(log) : report' = [report EXCEPT !.pages = Counted(@, l)]
  BY DEF CountAudits
<1>3. Len(l) = Cardinality(log) /\ Len(l) \in Nat
  BY ListOfSet DEF Orders, ReportTypeInv, ArrivedInv
<1>4. /\ UNCHANGED <<log, settled>>
      /\ arrived' = [arrived EXCEPT !.late = 0]
      /\ PagesInv(report.pages, settled, EntryRank, Len(l), 0, arrived.since, arrived.late)
  BY <1>1, <1>3 DEF CountAudits, AuditPagesInv
<1>5. PagesInv(Counted(report.pages, l), settled, EntryRank, Len(l), 0, arrived.since, 0)
  BY <1>1, <1>3, <1>4, CountKeeps DEF PagesReport
<1>6. /\ report'.pages = Counted(report.pages, l)
      /\ arrived'.since = arrived.since /\ arrived'.late = 0
  BY <1>1, <1>2, <1>4 DEF PagesReport, ReportTypeInv, ReportTypeOK
<1>7. EntryRank' = EntryRank
  BY <1>4 DEF EntryRank, UpTo
<1>8. QED
  BY <1>3, <1>4, <1>5, <1>6, <1>7 DEF AuditPagesInv

LEMMA FindAuditsKeeps ==
    ASSUME ReportTypeInv, SettledInv, AuditPagesInv, FindAudits
    PROVE  AuditPagesInv'
<1>1. report \in PagesReport
  BY ReportKinds DEF FindAudits, ReportTypeInv
<1>2. PICK l \in Orders(log) : report' = [report EXCEPT !.pages = Found(@, l)]
  BY DEF FindAudits
<1>3. IsFiniteSet(log) /\ l \in SetToSeqs(log)
  BY DEF Orders, ReportTypeInv, ArrivedInv
<1>4. /\ UNCHANGED <<log, settled, arrived>> /\ report.pages.step = "find"
      /\ PagesInv(report.pages, settled, EntryRank, Cardinality(log), 0,
                  arrived.since, arrived.late)
  BY <1>1 DEF FindAudits, AuditPagesInv
<1>5. Ranks(settled, EntryRank)
  BY SettledRanks DEF SettledRanked
<1>6. \A e \in settled : \E p \in 1..Cardinality(log) : l[p] = e /\ EntryRank[e] = p
  BY SettledInPlace
<1>7. 0 \in Nat /\ arrived.since \in Nat /\ arrived.late \in Nat
  BY ReportAssumption DEF ReportTypeInv, ReportTypeOK
<1>8. PagesInv(Found(report.pages, l), settled, EntryRank, Cardinality(log), 0,
               arrived.since, arrived.late)
  <2>1. report.pages \in PagesOf(AuditLog)
    BY <1>1 DEF PagesReport
  <2>2. QED
    BY <1>3, <1>4, <1>5, <1>6, <1>7, <2>1, FindKeeps
<1>9. report'.pages = Found(report.pages, l)
  BY <1>1, <1>2 DEF PagesReport
<1>10. EntryRank' = EntryRank
  BY <1>4 DEF EntryRank, UpTo
<1>11. QED
  BY <1>4, <1>8, <1>9, <1>10 DEF AuditPagesInv

LEMMA ListAuditsKeeps ==
    ASSUME ReportTypeInv', SettledInv', NEW asked \in AskedSizes, ListAudits(asked)
    PROVE  AuditPagesInv'
<1> DEFINE b == BindPageSize(asked)
<1>1. b \in 1..MaxPageSize /\ NormalizedPageSize(b) = b
  BY BoundSizes
<1>2. report'.pages = FirstPage(b) /\ arrived' = NothingArrived
  BY <1>1 DEF ListAudits, Ask
<1> HIDE DEF b
<1>3. Ranks(settled', EntryRank')
  BY SettledRanksNext DEF SettledRanked
<1>4. 0 \in Nat
  OBVIOUS
<1> DEFINE W == settled'
           r == EntryRank'
           n == Cardinality(log')
<1>5. Ranks(W, r)
  BY <1>3
<1> HIDE DEF W, r, n
<1>6. PagesInv(FirstPage(b), W, r, n, 0, 0, 0)
  BY <1>1, <1>4, <1>5, FirstPageKeeps
<1>7. PagesInv(report'.pages, settled', EntryRank', Cardinality(log'), 0, 0, 0)
  BY <1>2, <1>6 DEF W, r, n
<1>8. arrived'.since = 0 /\ arrived'.late = 0
  BY <1>2 DEF NothingArrived
<1>9. QED
  BY <1>7, <1>8 DEF AuditPagesInv

\* The inductive invariant of the audit reports' pages.
ReportPagesInv == ReportTypeInv /\ SettledInv /\ AuditPagesInv

LEMMA ReportPagesStep == ReportPagesInv /\ [ReportNext]_reportVars => ReportPagesInv'
<1> SUFFICES ASSUME ReportTypeInv, SettledInv, AuditPagesInv, [ReportNext]_reportVars
             PROVE  ReportPagesInv'
  BY DEF ReportPagesInv
<1>1. ReportTypeInv' /\ SettledInv'
  BY ReportTypeStep, SettledStep
<1> SUFFICES AuditPagesInv'
  BY <1>1 DEF ReportPagesInv
<1>2. ASSUME NEW of \in Recorded, NEW at \in 0..clock, AppendAudit(of, at)
      PROVE  AuditPagesInv'
  BY <1>1, <1>2, AppendKeepsPages
<1>3. ASSUME UNCHANGED <<log, report, settled, arrived>> PROVE AuditPagesInv'
  <2>1. EntryRank' = EntryRank
    BY <1>3 DEF EntryRank, UpTo
  <2>2. QED
    BY <1>3, <2>1 DEF AuditPagesInv
<1>4. ASSUME report'.kind # "pages" PROVE AuditPagesInv'
  BY <1>4 DEF AuditPagesInv
<1>5. ASSUME NEW asked \in AskedSizes, ListAudits(asked) PROVE AuditPagesInv'
  BY <1>1, <1>5, ListAuditsKeeps
<1>6. CASE CountAudits
  BY <1>6, CountAuditsKeeps
<1>7. CASE FindAudits
  BY <1>7, FindAuditsKeeps
<1>8. ASSUME NEW c \in Codes, NEW asked \in 0..MaxLimit + 1, EntityHistory(c, asked)
      PROVE  AuditPagesInv'
  BY <1>4, <1>8, KindsOfSteps
<1>9. ASSUME NEW asked \in 0..MaxWindow + 1, AuditSummary(asked) PROVE AuditPagesInv'
  BY <1>4, <1>9, KindsOfSteps
<1>10. CASE FindHistory \/ SummarizeAudits \/ EndReport
  BY <1>4, <1>10, KindsOfSteps
<1>11. CASE Tick \/ UNCHANGED reportVars
  BY <1>3, <1>11 DEF Tick, reportVars
<1>12. QED
  BY <1>2, <1>5, <1>6, <1>7, <1>8, <1>9, <1>10, <1>11 DEF ReportNext

\* A client that asks for the pages of the audit log one after the other gets
\* at most as many of the entries of a time of their own twice as were
\* inserted since it began, and when its pages cover the total it was last
\* told, it has missed at most as many as were inserted since that was counted
\* (security.go:46-60; system.go, bindPage), for any log and page sizes.
THEOREM AuditPagesMissFewEntries == ReportSpec => []AuditPagesMissFew
<1>1. ReportInit => ReportPagesInv
  BY ReportTypeInit
     DEF ReportInit, ReportPagesInv, SettledInv, AuditPagesInv, NoReport
<1>2. ReportPagesInv => AuditPagesMissFew
  <2> SUFFICES ASSUME ReportTypeInv, AuditPagesInv PROVE AuditPagesMissFew
    BY DEF ReportPagesInv
  <2> SUFFICES ASSUME report.kind = "pages" PROVE AuditPagesMissFew
    BY DEF AuditPagesMissFew
  <2>1. arrived.late \in Nat /\ arrived.since \in Nat
    BY ReportAssumption DEF ReportTypeInv, ReportTypeOK
  <2>2. PagesInv(report.pages, settled, EntryRank, Cardinality(log), 0,
                 arrived.since, arrived.late)
    BY DEF AuditPagesInv
  <2>3. IsFiniteSet(settled)
    BY PartOf DEF ReportTypeInv, ReportTypeOK, ArrivedInv
  <2>4. Cardinality(settled \cap report.pages.twice) <= arrived.since
    BY <2>1, <2>2, <2>3, RepeatsBounded DEF PagesInv
  <2>5. AllRead(report.pages) =>
           Cardinality(settled \ report.pages.got) <= arrived.late
    BY <2>1, <2>2 DEF PagesInv
  <2>6. QED
    BY <2>4, <2>5 DEF AuditPagesMissFew
<1>3. QED
  BY <1>1, <1>2, ReportPagesStep, PTL DEF ReportSpec

------------------------------------------------------------------------------
(***************************************************************************)
(* The lists of records: types.                                            *)
(***************************************************************************)
ListReads ==
    [kind : {"list"}, table : Tables, want : SUBSET Statuses, pages : PagesOf(Codes)]

OverviewReads ==
    [kind : {"overview"}, done : 0..Len(OverviewOrder),
     counts : [Tables -> Figures(Statuses)]]

\* What is read as records: what ReadType says, and that there are no other
\* fields.
ReadShape ==
    \/ read = NotReading
    \/ read \in ListReads
    \/ /\ read \in OverviewReads
       /\ \A t \in Tables : read.counts[t] \in Figures(StatusesOf(t))

\* The rows and the order that the database keeps for them.
RowsInv ==
    /\ rows \in [Codes -> Statuses \cup {"absent", "deleted"}]
    /\ \A c \in Codes : rows[c] \in StatusesOf(TableOf[c]) \cup {"absent", "deleted"}
    /\ order \in Seq(Codes) /\ IsInjective(order) /\ ToSet(order) = LiveCodes
    /\ IsFiniteSet(LiveCodes)

WatchType ==
    [steady : SUBSET Codes, alive : SUBSET Codes, present : SUBSET Codes,
     left : Nat, moved : Nat, late : Nat]

ListTypeInv ==
    /\ RowsInv
    /\ writes \in 0..MaxWrites
    /\ ReadShape
    /\ watch \in WatchType

\* No graph names the marks of rows that are not there, and each leads from
\* the initial status and from every other to statuses of its own.
LEMMA Graphs ==
    /\ "absent" \notin Statuses /\ "deleted" \notin Statuses
    /\ \A t \in Tables :
          /\ StatusesOf(t) \subseteq Statuses
          /\ InitialStatus[t] \in StatusesOf(t)
          /\ \A s \in StatusesOf(t) : GraphOf[t][s] \subseteq StatusesOf(t)
<1>1. /\ StatusesOf("zones") = {"active", "dry", "wet", "locked"}
      /\ StatusesOf("readings") = {"fresh", "validated", "anomalous", "expired"}
      /\ StatusesOf("plans") = {"draft", "approved", "scheduled", "completed"}
      /\ StatusesOf("executions") = {"planned", "running", "succeeded", "failed"}
  BY DEF StatusesOf, GraphOf, GreenhouseZoneTransitions, SoilReadingTransitions,
         IrrigationPlanTransitions, ValveExecutionTransitions
<1>2. \A t \in Tables : StatusesOf(t) \subseteq Statuses
  BY DEF Statuses
<1>3. \A t \in Tables : "absent" \notin StatusesOf(t) /\ "deleted" \notin StatusesOf(t)
  BY <1>1 DEF Tables
<1>4. "absent" \notin Statuses /\ "deleted" \notin Statuses
  BY <1>3 DEF Statuses
<1>5. \A t \in Tables : InitialStatus[t] \in StatusesOf(t)
  BY <1>1 DEF Tables, InitialStatus
<1>6. \A s \in StatusesOf("zones") : GraphOf["zones"][s] \subseteq StatusesOf("zones")
  BY <1>1 DEF GraphOf, GreenhouseZoneTransitions
<1>7. \A s \in StatusesOf("readings") :
         GraphOf["readings"][s] \subseteq StatusesOf("readings")
  BY <1>1 DEF GraphOf, SoilReadingTransitions
<1>8. \A s \in StatusesOf("plans") : GraphOf["plans"][s] \subseteq StatusesOf("plans")
  BY <1>1 DEF GraphOf, IrrigationPlanTransitions
<1>9. \A s \in StatusesOf("executions") :
         GraphOf["executions"][s] \subseteq StatusesOf("executions")
  BY <1>1 DEF GraphOf, ValveExecutionTransitions
<1>10. QED
  BY <1>2, <1>4, <1>5, <1>6, <1>7, <1>8, <1>9 DEF Tables

LEMMA ReadShapeGivesType == ReadShape => ReadType
<1> SUFFICES ASSUME ReadShape PROVE ReadType
  OBVIOUS
<1>1. CASE read = NotReading
  BY <1>1 DEF ReadType
<1>2. CASE read \in ListReads
  BY <1>2 DEF ReadType, ListReads
<1>3. CASE /\ read \in OverviewReads
           /\ \A t \in Tables : read.counts[t] \in Figures(StatusesOf(t))
  <2>1. \A t \in Tables : Breakdown(read.counts[t], StatusesOf(t))
    BY <1>3, FiguresAreBreakdowns
  <2>2. read.kind = "overview" /\ read.done \in 0..Len(OverviewOrder)
    BY <1>3 DEF OverviewReads
  <2>3. QED
    BY <2>1, <2>2 DEF ReadType
<1>4. QED
  BY <1>1, <1>2, <1>3 DEF ReadShape

LEMMA ListTypeInvGives == ListTypeInv => ListTypeOK
  BY ReadShapeGivesType DEF ListTypeInv, ListTypeOK, RowsInv, WatchType

\* The statuses that a step of a service may write to c.
MayWrite(c, s) ==
    \/ c \in LiveCodes /\ s = "deleted"
    \/ rows[c] # "deleted" /\ s \in StatusesOf(TableOf[c])

LEMMA LiveStatus ==
    ASSUME RowsInv, NEW c \in Codes
    PROVE  c \in LiveCodes <=> rows[c] \in StatusesOf(TableOf[c])
<1>1. TableOf[c] \in Tables
  BY ListAssumption
<1>2. "absent" \notin StatusesOf(TableOf[c]) /\ "deleted" \notin StatusesOf(TableOf[c])
  BY <1>1, Graphs
<1>3. QED
  BY <1>2 DEF RowsInv, LiveCodes

LEMMA RowSteps ==
    ASSUME RowsInv, NEW c \in Codes,
           CreateRow(c) \/ UpdateRow(c) \/ MoveRow(c) \/ DeleteRow(c)
    PROVE  \E s : MayWrite(c, s) /\ Write(c, s)
<1>1. TableOf[c] \in Tables
  BY ListAssumption
<1>2. CASE CreateRow(c)
  BY <1>1, <1>2, Graphs DEF CreateRow, MayWrite
<1>3. c \in LiveCodes => rows[c] \in StatusesOf(TableOf[c]) /\ rows[c] # "deleted"
  BY LiveStatus DEF LiveCodes
<1>4. CASE UpdateRow(c)
  BY <1>3, <1>4 DEF UpdateRow, MayWrite
<1>5. CASE MoveRow(c)
  <2>1. PICK s \in GraphOf[TableOf[c]][rows[c]] : Write(c, s)
    BY <1>5 DEF MoveRow
  <2>2. s \in StatusesOf(TableOf[c])
    BY <1>1, <1>3, <1>5, Graphs DEF MoveRow
  <2>3. QED
    BY <1>3, <1>5, <2>1, <2>2 DEF MoveRow, MayWrite
<1>6. CASE DeleteRow(c)
  BY <1>6 DEF DeleteRow, MayWrite
<1>7. QED
  BY <1>2, <1>4, <1>5, <1>6

\* What a statement of a service does to the rows and to their order.
LEMMA RowWritten ==
    ASSUME RowsInv, NEW c \in Codes, NEW s, MayWrite(c, s), Write(c, s)
    PROVE  /\ RowsInv'
           /\ rows'[c] = s /\ \A d \in Codes \ {c} : rows'[d] = rows[d]
           /\ LiveCodes' = IF s = "deleted" THEN LiveCodes \ {c} ELSE LiveCodes \cup {c}
           /\ SameOrder(order, order', LiveCodes \ {c})
           /\ s # "deleted" /\ c \in LiveCodes =>
                 \A d \in LiveCodes \ {c} :
                    PlaceIn(order, c) <= PlaceIn(order, d)
                       => PlaceIn(order', c) <= PlaceIn(order', d)
<1>1. TableOf[c] \in Tables
  BY ListAssumption
<1>2. s \in Statuses \cup {"deleted"} /\ s \in StatusesOf(TableOf[c]) \cup {"deleted"}
  BY <1>1, Graphs DEF MayWrite
<1>3. rows' = [rows EXCEPT ![c] = s] /\ DOMAIN rows = Codes
  BY DEF Write, RowsInv
<1>4. rows'[c] = s /\ \A d \in Codes \ {c} : rows'[d] = rows[d]
  BY <1>3
<1>5. /\ rows' \in [Codes -> Statuses \cup {"absent", "deleted"}]
      /\ \A d \in Codes : rows'[d] \in StatusesOf(TableOf[d]) \cup {"absent", "deleted"}
  BY <1>2, <1>3, <1>4 DEF RowsInv
<1>6. LiveCodes' = IF s = "deleted" THEN LiveCodes \ {c} ELSE LiveCodes \cup {c}
  <2>1. s # "absent"
    BY <1>2, Graphs
  <2>2. QED
    BY <1>4, <2>1 DEF LiveCodes
<1>7. IsFiniteSet(LiveCodes')
  BY <1>6, FS_AddElement, FS_RemoveElement DEF RowsInv
<1>8. order \in Seq(Codes) /\ IsInjective(order) /\ ToSet(order) = LiveCodes
  BY DEF RowsInv
<1>9. CASE s = "deleted"
  <2>1. c \in ToSet(order) /\ order' = RemoveFirst(order, c)
    <3>1. "deleted" \notin StatusesOf(TableOf[c])
      BY <1>1, Graphs
    <3>2. QED
      BY <1>8, <1>9, <3>1 DEF MayWrite, Write
  <2>2. /\ order' \in Seq(Codes) /\ IsInjective(order')
        /\ ToSet(order') = ToSet(order) \ {c}
    BY <1>8, <2>1, Removed
  <2>3. SameOrder(order, order', ToSet(order) \ {c})
    BY <1>8, <2>1, RemovedOrder
  <2>4. QED
    BY <1>4, <1>5, <1>6, <1>7, <1>8, <1>9, <2>2, <2>3 DEF RowsInv
<1>10. CASE s # "deleted"
  <2>1. PICK i \in 1..(IF c \in LiveCodes THEN Place(c) ELSE Len(order) + 1) :
           order' = InsertAt(RemoveFirst(order, c), i, c)
    BY <1>10 DEF Write, MovedUp
  <2>2. Place(c) = PlaceIn(order, c)
    BY DEF Place, PlaceIn
  <2>3. /\ c \in ToSet(order) => i \in 1..PlaceIn(order, c)
        /\ c \notin ToSet(order) => i \in 1..Len(order) + 1
    BY <1>8, <2>1, <2>2
  <2>4. /\ order' \in Seq(Codes) /\ IsInjective(order')
        /\ ToSet(order') = ToSet(order) \cup {c}
        /\ SameOrder(order, order', ToSet(order) \ {c})
        /\ NotBehind(order, order', c)
    <3> DEFINE t == order'
    <3>1. t = InsertAt(RemoveFirst(order, c), i, c)
      BY <2>1
    <3> HIDE DEF t
    <3>2. WrittenIn(Codes, order, t, c)
      BY <1>8, <2>3, <3>1, Moved
    <3>3. QED
      BY <3>2 DEF t, WrittenIn
  <2>5. QED
    BY <1>4, <1>5, <1>6, <1>7, <1>8, <1>10, <2>4 DEF RowsInv, NotBehind
<1>11. QED
  BY <1>9, <1>10

\* Which of the kinds of read it is.
LEMMA ReadKinds ==
    ASSUME ReadShape
    PROVE  /\ read = NotReading => read.kind = "none"
           /\ read.kind = "list" => read \in ListReads
           /\ read.kind = "overview" =>
                 /\ read \in OverviewReads
                 /\ \A t \in Tables : read.counts[t] \in Figures(StatusesOf(t))
  BY DEF ReadShape, NotReading, ListReads, OverviewReads

\* Whether the list that is read has c before c is written, and whether it
\* has it then.
Was(c) == rows[c] \in Wanted(TableOf[c])

WillBe(c, s) == s \in Wanted(TableOf[c])

LEMMA WatchedType ==
    ASSUME watch \in WatchType, NEW c \in Codes, NEW s
    PROVE  /\ Watched(c, s) \in WatchType
           /\ read # NotReading =>
                 /\ Watched(c, s).steady = watch.steady \ {c}
                 /\ Watched(c, s).alive =
                       IF s = "deleted" THEN watch.alive \ {c} ELSE watch.alive
                 /\ Watched(c, s).present =
                       IF s = "deleted" THEN watch.present ELSE watch.present \cup {c}
                 /\ Watched(c, s).left =
                       IF Was(c) /\ ~WillBe(c, s) THEN watch.left + 1 ELSE watch.left
                 /\ Watched(c, s).moved =
                       IF WillBe(c, s) THEN watch.moved + 1 ELSE watch.moved
                 /\ Watched(c, s).late =
                       IF WillBe(c, s) THEN watch.late + 1 ELSE watch.late
<1> DEFINE a == IF s = "deleted" THEN watch.alive \ {c} ELSE watch.alive
           p == IF s = "deleted" THEN watch.present ELSE watch.present \cup {c}
           g == IF Was(c) /\ ~WillBe(c, s) THEN watch.left + 1 ELSE watch.left
           m == IF WillBe(c, s) THEN watch.moved + 1 ELSE watch.moved
           l == IF WillBe(c, s) THEN watch.late + 1 ELSE watch.late
<1>1. a \in SUBSET Codes /\ p \in SUBSET Codes /\ watch.steady \ {c} \in SUBSET Codes
  BY DEF WatchType
<1>2. watch.left \in Nat /\ watch.moved \in Nat /\ watch.late \in Nat
  BY DEF WatchType
<1>3. g \in Nat /\ m \in Nat /\ l \in Nat
  BY <1>2
<1>4. CASE read = NotReading
  BY <1>4 DEF Watched
<1>5. CASE read # NotReading
  <2>1. Watched(c, s) = [watch EXCEPT !.steady = @ \ {c}, !.alive = a, !.present = p,
                                      !.left = g, !.moved = m, !.late = l]
    BY <1>5 DEF Watched, Was, WillBe
  <2> HIDE DEF a, p, g, m, l
  <2>2. /\ Watched(c, s).steady = watch.steady \ {c} /\ Watched(c, s).alive = a
        /\ Watched(c, s).present = p /\ Watched(c, s).left = g
        /\ Watched(c, s).moved = m /\ Watched(c, s).late = l
    BY <2>1 DEF WatchType
  <2>3. Watched(c, s) \in WatchType
    BY <1>1, <1>3, <2>1 DEF WatchType
  <2>4. QED
    BY <2>2, <2>3 DEF a, p, g, m, l
<1>6. QED
  BY <1>4, <1>5

LEMMA WriteType ==
    ASSUME ListTypeInv, NEW c \in Codes, NEW s, MayWrite(c, s), Write(c, s)
    PROVE  ListTypeInv'
<1>1. RowsInv'
  BY RowWritten DEF ListTypeInv
<1>2. writes' \in 0..MaxWrites
  BY ListAssumption DEF Write, ListTypeInv
<1>3. ReadShape'
  BY DEF Write, ListTypeInv, ReadShape
<1>4. watch' \in WatchType
  <2>1. watch' = Watched(c, s) /\ watch \in WatchType
    BY DEF Write, ListTypeInv
  <2>2. Watched(c, s) \in WatchType
    BY <2>1, WatchedType
  <2>3. QED
    BY <2>1, <2>2
<1>5. QED
  BY <1>1, <1>2, <1>3, <1>4 DEF ListTypeInv

\* A step of the reader leaves the rows alone.
LEMMA ListReaderType ==
    ASSUME ListTypeInv, UNCHANGED <<rows, order, writes>>, ReadShape',
           watch' \in WatchType
    PROVE  ListTypeInv'
<1>1. LiveCodes' = LiveCodes
  BY DEF LiveCodes
<1>2. RowsInv'
  BY <1>1 DEF ListTypeInv, RowsInv
<1>3. QED
  BY <1>2 DEF ListTypeInv

LEMMA ListType ==
    ASSUME ListTypeInv, NEW t \in Tables, NEW want \in SUBSET Statuses,
           NEW asked \in AskedSizes, List(t, want, asked)
    PROVE  ListTypeInv'
<1> DEFINE b == BindPageSize(asked)
           f == FirstPage(b)
<1>1. read' = [kind |-> "list", table |-> t, want |-> want, pages |-> f]
  BY BoundSizes DEF List
<1>2. f \in PagesOf(Codes)
  BY BoundSizes, FirstPageType
<1> HIDE DEF f
<1>3. read' \in ListReads
  BY <1>1, <1>2 DEF ListReads
<1>4. watch' \in WatchType
  BY DEF List, NothingWatched, WatchType, LiveCodes
<1>5. QED
  BY <1>3, <1>4, ListReaderType DEF List, ReadShape

\* The list that is read has finitely many items.
LEMMA MatchingFinite ==
    ASSUME RowsInv
    PROVE  /\ Matching \subseteq LiveCodes /\ Matching \subseteq Codes
           /\ IsFiniteSet(Matching) /\ Cardinality(Matching) \in Nat
<1>1. Matching \subseteq LiveCodes /\ Matching \subseteq Codes
  BY DEF Matching, LiveCodes
<1>2. QED
  BY <1>1, PartOf DEF RowsInv

LEMMA CountPageType ==
    ASSUME ListTypeInv, CountPage
    PROVE  ListTypeInv'
<1>1. read \in ListReads
  BY ReadKinds DEF CountPage, ListTypeInv
<1>2. PICK l \in Listed : read' = [read EXCEPT !.pages = Counted(@, l)]
  BY DEF CountPage
<1>3. Len(l) \in Nat
  BY ListOfSet, MatchingFinite DEF Listed, ListTypeInv
<1>4. Counted(read.pages, l) \in PagesOf(Codes)
  BY <1>1, <1>3, CountedType DEF ListReads
<1>5. read' \in ListReads
  BY <1>1, <1>2, <1>4 DEF ListReads
<1>6. watch' \in WatchType
  BY DEF CountPage, ListTypeInv, WatchType
<1>7. QED
  BY <1>5, <1>6, ListReaderType DEF CountPage, ReadShape

LEMMA FindPageType ==
    ASSUME ListTypeInv, FindPage
    PROVE  ListTypeInv'
<1>1. read \in ListReads
  BY ReadKinds DEF FindPage, ListTypeInv
<1>2. PICK l \in Listed : read' = [read EXCEPT !.pages = Found(@, l)]
  BY DEF FindPage
<1>3. Found(read.pages, l) \in PagesOf(Codes)
  BY <1>1, FoundType, MatchingFinite DEF Listed, ListTypeInv, ListReads
<1>4. read' \in ListReads
  BY <1>1, <1>2, <1>3 DEF ListReads
<1>5. watch' \in WatchType
  BY DEF FindPage, ListTypeInv
<1>6. QED
  BY <1>4, <1>5, ListReaderType DEF FindPage, ReadShape

LEMMA OverviewType ==
    ASSUME ListTypeInv, Overview
    PROVE  ListTypeInv'
<1>1. \A t \in Tables : <<>> \in Figures(StatusesOf(t))
  BY NoFigures
<1>2. read' \in OverviewReads
  BY NoFigures DEF Overview, OverviewReads, OverviewOrder
<1>3. \A t \in Tables : read'.counts[t] \in Figures(StatusesOf(t))
  BY <1>1 DEF Overview
<1>4. watch' \in WatchType
  BY DEF Overview, NothingWatched, WatchType, LiveCodes
<1>5. QED
  BY <1>2, <1>3, <1>4, ListReaderType DEF Overview, ReadShape

\* The figures of a table, and the codes they count.
InTable(t) == {c \in LiveCodes : TableOf[c] = t}

Occurring(t) == {s \in StatusesOf(t) : CountIn(t, s) > 0}

TableCounts(t) == [s \in Occurring(t) |-> CountIn(t, s)]

LEMMA CountInType ==
    ASSUME RowsInv, NEW t, NEW s
    PROVE  CountIn(t, s) \in Nat
<1> DEFINE S == {c \in LiveCodes : TableOf[c] = t /\ rows[c] = s}
<1>1. S \subseteq LiveCodes
  OBVIOUS
<1> HIDE DEF S
<1>2. Cardinality(S) \in Nat
  BY <1>1, PartOf DEF RowsInv
<1>3. QED
  BY <1>2 DEF CountIn, S

LEMMA TableCountsType ==
    ASSUME RowsInv, NEW t \in Tables
    PROVE  TableCounts(t) \in Figures(StatusesOf(t)) \cap Figures(Statuses)
<1> DEFINE f == TableCounts(t)
           D == Occurring(t)
<1>1. D \subseteq StatusesOf(t) /\ D \subseteq Statuses
  BY Graphs DEF Occurring
<1>2. DOMAIN f = D /\ f = [s \in D |-> f[s]]
  BY DEF TableCounts
<1>3. \A s \in D : f[s] \in Nat \ {0}
  BY CountInType DEF TableCounts, Occurring
<1> HIDE DEF f, D
<1>4. QED
  BY <1>1, <1>2, <1>3, CountsAreFigures DEF f

\* A statement of the overview adds the figures of one table.
LEMMA TableCounted ==
    ASSUME ListTypeInv, CountNextTable
    PROVE  /\ read \in OverviewReads /\ read.done + 1 \in 1..Len(OverviewOrder)
           /\ OverviewOrder[read.done + 1] \in Tables
           /\ read' = [kind |-> "overview", done |-> read.done + 1,
                       counts |-> [read.counts EXCEPT
                          ![OverviewOrder[read.done + 1]] =
                              TableCounts(OverviewOrder[read.done + 1])]]
<1> DEFINE t == OverviewOrder[read.done + 1]
<1>1. read \in OverviewReads
  BY ReadKinds DEF CountNextTable, ListTypeInv
<1>2. read.done \in 0..4 /\ read.done < 4
  BY <1>1 DEF CountNextTable, OverviewReads, OverviewOrder
<1>3. read.done + 1 \in 1..Len(OverviewOrder) /\ t \in Tables
  BY <1>2 DEF OverviewOrder, Tables
<1> HIDE DEF t
<1>4. read' = [read EXCEPT !.counts[t] = TableCounts(t), !.done = @ + 1]
  BY DEF CountNextTable, CountByStatus, TableCounts, Occurring, t
<1>5. read' = [kind |-> "overview", done |-> read.done + 1,
               counts |-> [read.counts EXCEPT ![t] = TableCounts(t)]]
  BY <1>1, <1>3, <1>4 DEF OverviewReads
<1>6. QED
  BY <1>1, <1>3, <1>5 DEF t

LEMMA CountNextTableType ==
    ASSUME ListTypeInv, CountNextTable
    PROVE  ListTypeInv'
<1> DEFINE t == OverviewOrder[read.done + 1]
           f == TableCounts(t)
           C == [read.counts EXCEPT ![t] = f]
<1>1. /\ read \in OverviewReads /\ read.done + 1 \in 1..Len(OverviewOrder)
      /\ t \in Tables
      /\ read' = [kind |-> "overview", done |-> read.done + 1, counts |-> C]
  BY TableCounted
<1>2. \A x \in Tables : read.counts[x] \in Figures(StatusesOf(x))
  BY ReadKinds DEF CountNextTable, ListTypeInv
<1>3. f \in Figures(StatusesOf(t)) /\ f \in Figures(Statuses)
  BY <1>1, TableCountsType DEF ListTypeInv
<1> HIDE DEF t, f
<1>4. C \in [Tables -> Figures(Statuses)] /\ \A x \in Tables : C[x] \in Figures(StatusesOf(x))
  BY <1>1, <1>2, <1>3 DEF OverviewReads
<1> HIDE DEF C
<1>5. read.done + 1 \in 0..Len(OverviewOrder)
  BY <1>1 DEF OverviewOrder
<1>6. read' \in OverviewReads /\ read'.counts = C
  BY <1>1, <1>4, <1>5 DEF OverviewReads
<1>7. watch' \in WatchType
  BY DEF CountNextTable, ListTypeInv
<1>8. QED
  BY <1>4, <1>6, <1>7, ListReaderType DEF CountNextTable, ReadShape

LEMMA ListTypeStep == ListTypeInv /\ [ListNext]_listVars => ListTypeInv'
<1> SUFFICES ASSUME ListTypeInv, [ListNext]_listVars PROVE ListTypeInv'
  OBVIOUS
<1>1. ASSUME NEW c \in Codes,
             CreateRow(c) \/ UpdateRow(c) \/ MoveRow(c) \/ DeleteRow(c)
      PROVE  ListTypeInv'
  <2>1. PICK s : MayWrite(c, s) /\ Write(c, s)
    BY <1>1, RowSteps DEF ListTypeInv
  <2>2. QED
    BY <2>1, WriteType
<1>2. ASSUME NEW c \in Codes, NEW asked \in AskedSizes,
             NEW want \in {StatusesOf(TableOf[c])} \cup {{s} : s \in StatusesOf(TableOf[c])},
             List(TableOf[c], want, asked)
      PROVE  ListTypeInv'
  <2>1. TableOf[c] \in Tables
    BY ListAssumption
  <2>2. want \in SUBSET Statuses
    BY <2>1, Graphs
  <2>3. QED
    BY <1>2, <2>1, <2>2, ListType
<1>3. CASE CountPage
  BY <1>3, CountPageType
<1>4. CASE FindPage
  BY <1>4, FindPageType
<1>5. CASE Overview
  BY <1>5, OverviewType
<1>6. CASE CountNextTable
  BY <1>6, CountNextTableType
<1>7. CASE EndRead
  <2>1. watch' \in WatchType
    BY <1>7 DEF EndRead, NothingWatched, WatchType
  <2>2. QED
    BY <1>7, <2>1, ListReaderType DEF EndRead, ReadShape
<1>8. CASE UNCHANGED listVars
  BY <1>8, ListReaderType DEF listVars, ListTypeInv, ReadShape
<1>9. QED
  BY <1>1, <1>2, <1>3, <1>4, <1>5, <1>6, <1>7, <1>8 DEF ListNext

LEMMA ListTypeInit == ListInit => ListTypeInv
<1> SUFFICES ASSUME ListInit PROVE ListTypeInv
  OBVIOUS
<1> DEFINE L == {c \in Codes : Seeded[c] # "absent"}
<1>1. \A c \in Codes : Seeded[c] \in StatusesOf(TableOf[c]) \cup {"absent"}
  BY ListAssumption
<1>2. \A c \in Codes : Seeded[c] # "deleted"
  BY <1>1, Graphs, ListAssumption
<1>3. LiveCodes = L /\ IsFiniteSet(L) /\ L \subseteq Codes
  BY <1>2, ListAssumption DEF ListInit, LiveCodes
<1>4. order \in SetToSeqs(L)
  BY DEF ListInit
<1> HIDE DEF L
<1>5. order \in Seq(L) /\ order \in Bijection(1..Cardinality(L), L) /\ Len(order) = Cardinality(L)
  BY <1>3, <1>4, ListOfSet
<1>6. order \in Seq(Codes)
  BY <1>3, <1>5, SeqMonotonic
<1>7. IsInjective(order) /\ ToSet(order) = L
  BY <1>5 DEF Bijection, Injection, Surjection, IsInjective, ToSet
<1>8. RowsInv
  <2>1. rows \in [Codes -> Statuses \cup {"absent", "deleted"}]
    BY ListAssumption DEF ListInit
  <2>2. \A c \in Codes : rows[c] \in StatusesOf(TableOf[c]) \cup {"absent", "deleted"}
    BY <1>1 DEF ListInit
  <2>3. QED
    BY <1>3, <1>6, <1>7, <2>1, <2>2 DEF RowsInv
<1>9. watch \in WatchType /\ writes \in 0..MaxWrites /\ ReadShape
  BY ListAssumption DEF ListInit, NothingWatched, WatchType, ReadShape
<1>10. QED
  BY <1>8, <1>9 DEF ListTypeInv

LEMMA ListTypeInvariant == ListSpec => []ListTypeInv
  BY ListTypeInit, ListTypeStep, PTL DEF ListSpec

\* Every reachable state of the records and of what is read of them is well
\* typed: each live record has one place in the order (base.go:44), for any
\* codes, tables and page sizes.
THEOREM ListTypeCorrect == ListSpec => []ListTypeOK
  BY ListTypeInvGives, ListTypeInvariant, PTL

\* A step keeps the kind of the read, starts one or ends one.
LEMMA ReadKindsOfSteps ==
    ASSUME ReadShape
    PROVE  /\ CountPage \/ FindPage => read.kind = "list" /\ read'.kind = "list"
           /\ EndRead => read'.kind = "none"
           /\ Overview => read'.kind = "overview"
           /\ CountNextTable => read.kind = "overview" /\ read'.kind = "overview"
           /\ \A t, want, asked : List(t, want, asked) => read'.kind = "list"
<1> USE ReadKinds
<1>1. CountPage \/ FindPage => read.kind = "list" /\ read'.kind = "list"
  BY DEF CountPage, FindPage, ListReads
<1>2. EndRead => read'.kind = "none"
  BY DEF EndRead, NotReading
<1>3. Overview => read'.kind = "overview"
  BY DEF Overview
<1>4. CountNextTable => read.kind = "overview" /\ read'.kind = "overview"
  BY DEF CountNextTable, CountByStatus, OverviewReads
<1>5. \A t, want, asked : List(t, want, asked) => read'.kind = "list"
  BY DEF List
<1>6. QED
  BY <1>1, <1>2, <1>3, <1>4, <1>5

------------------------------------------------------------------------------
(***************************************************************************)
(* The overview: a statement counts each record of its table once, and     *)
(* later ones do not count in that table again.                            *)
(***************************************************************************)
OfTable(S, t) == {c \in S : TableOf[c] = t}

\* The figures of table t cover the records that stayed, and none that never
\* were.
CoverTable(t) ==
    /\ SumOver(read.counts[t]) \in Nat
    /\ Cardinality(OfTable(watch.alive, t)) <= SumOver(read.counts[t])
    /\ SumOver(read.counts[t]) <= Cardinality(OfTable(watch.present, t))

OverviewInv ==
    read.kind = "overview" =>
        /\ watch.alive \subseteq LiveCodes
        /\ LiveCodes \subseteq watch.present
        /\ IsFiniteSet(watch.present)
        /\ \A i \in 1..read.done : CoverTable(OverviewOrder[i])

\* The figures of a statement add up to the records of the table.
LEMMA TableAddsUp ==
    ASSUME RowsInv, NEW t \in Tables
    PROVE  SumOver(TableCounts(t)) = Cardinality(InTable(t))
<1> DEFINE S == InTable(t)
           f == TableCounts(t)
<1>1. S \subseteq LiveCodes /\ IsFiniteSet(S)
  BY PartOf DEF InTable, RowsInv
<1>2. ASSUME NEW k PROVE CountIn(t, k) = Cardinality({e \in S : rows[e] = k})
  <2>1. {c \in LiveCodes : TableOf[c] = t /\ rows[c] = k} = {e \in S : rows[e] = k}
    BY DEF InTable
  <2>2. QED
    BY <2>1 DEF CountIn
<1>3. \A e \in S : rows[e] \in StatusesOf(t)
  BY LiveStatus DEF InTable, LiveCodes
<1> HIDE DEF S
<1>4. Occurring(t) = {rows[e] : e \in S}
  <2>1. ASSUME NEW k \in Occurring(t) PROVE \E e \in S : rows[e] = k
    <3>1. SUFFICES ASSUME {e \in S : rows[e] = k} = {} PROVE FALSE
      OBVIOUS
    <3>2. CountIn(t, k) = Cardinality({})
      BY <1>2, <3>1
    <3>3. CountIn(t, k) = 0
      BY <3>2, FS_EmptySet
    <3>4. QED
      BY <3>3 DEF Occurring
  <2>2. ASSUME NEW e \in S PROVE rows[e] \in Occurring(t)
    <3> DEFINE E == {d \in S : rows[d] = rows[e]}
    <3>1. e \in E /\ E \subseteq S
      OBVIOUS
    <3>2. CountIn(t, rows[e]) = Cardinality(E)
      BY <1>2
    <3> HIDE DEF E
    <3>3. Cardinality(E) \in Nat \ {0}
      BY <1>1, <3>1, PartOf, SomeCounted
    <3>4. QED
      BY <1>3, <3>2, <3>3 DEF Occurring
  <2>3. QED
    BY <2>1, <2>2
<1>5. DOMAIN f = {rows[e] : e \in S}
  BY <1>4 DEF TableCounts
<1>6. \A k \in DOMAIN f : f[k] = Cardinality({e \in S : rows[e] = k})
  BY <1>2 DEF TableCounts
<1> HIDE DEF f
<1>7. SumOver(f) = Cardinality(S)
  BY <1>1, <1>5, <1>6, GroupsAddUp
<1>8. QED
  BY <1>7 DEF f, S

LEMMA WriteKeepsOverview ==
    ASSUME ListTypeInv, OverviewInv,
           NEW c \in Codes, NEW s, MayWrite(c, s), Write(c, s)
    PROVE  OverviewInv'
<1> SUFFICES ASSUME read'.kind = "overview" PROVE OverviewInv'
  BY DEF OverviewInv
<1>1. read' = read /\ read.kind = "overview" /\ read # NotReading
  BY DEF Write, NotReading
<1>2. /\ watch'.alive = IF s = "deleted" THEN watch.alive \ {c} ELSE watch.alive
      /\ watch'.present = IF s = "deleted" THEN watch.present ELSE watch.present \cup {c}
  BY <1>1, WatchedType DEF Write, ListTypeInv
<1>3. LiveCodes' = IF s = "deleted" THEN LiveCodes \ {c} ELSE LiveCodes \cup {c}
  BY RowWritten DEF ListTypeInv
<1>4. watch'.alive \subseteq LiveCodes' /\ LiveCodes' \subseteq watch'.present
  BY <1>1, <1>2, <1>3 DEF OverviewInv
<1>5. IsFiniteSet(watch'.present)
  BY <1>1, <1>2, FS_AddElement DEF OverviewInv
<1>6. watch'.alive \subseteq watch.alive /\ watch.present \subseteq watch'.present
  BY <1>2
<1>7. watch.alive \subseteq watch.present /\ IsFiniteSet(watch.present)
  BY <1>1 DEF OverviewInv
<1>8. ASSUME NEW t, CoverTable(t) PROVE CoverTable(t)'
  <2> DEFINE A == OfTable(watch.alive, t)
             B == OfTable(watch'.alive, t)
             P == OfTable(watch.present, t)
             Q == OfTable(watch'.present, t)
             n == SumOver(read.counts[t])
  <2>1. B \subseteq A /\ A \subseteq P /\ P \subseteq Q /\ Q \subseteq watch'.present
    BY <1>6, <1>7 DEF OfTable
  <2>2. n \in Nat /\ Cardinality(A) <= n /\ n <= Cardinality(P)
    BY <1>8 DEF CoverTable
  <2> HIDE DEF A, B, P, Q, n
  <2>3. IsFiniteSet(Q) /\ IsFiniteSet(P) /\ IsFiniteSet(A)
    BY <1>5, <2>1, FS_Subset
  <2>4. /\ Cardinality(B) \in Nat /\ Cardinality(A) \in Nat
        /\ Cardinality(B) <= Cardinality(A)
    BY <2>1, <2>3, PartOf
  <2>5. /\ Cardinality(P) \in Nat /\ Cardinality(Q) \in Nat
        /\ Cardinality(P) <= Cardinality(Q)
    BY <2>1, <2>3, PartOf
  <2>6. n \in Nat /\ Cardinality(B) <= n /\ n <= Cardinality(Q)
    BY <2>2, <2>4, <2>5
  <2>7. QED
    BY <1>1, <2>6 DEF CoverTable, B, Q, n, OfTable
<1>9. \A i \in 1..read.done : CoverTable(OverviewOrder[i])'
  BY <1>1, <1>8 DEF OverviewInv
<1>10. QED
  BY <1>1, <1>4, <1>5, <1>9 DEF OverviewInv

LEMMA CountNextTableKeeps ==
    ASSUME ListTypeInv, OverviewInv, CountNextTable
    PROVE  OverviewInv'
<1>0. PICK k \in 1..Len(OverviewOrder) : k = read.done + 1
  BY TableCounted
<1> DEFINE t == OverviewOrder[k]
           f == TableCounts(t)
<1>1. /\ read \in OverviewReads /\ t \in Tables
      /\ read' = [kind |-> "overview", done |-> k,
                  counts |-> [read.counts EXCEPT ![t] = f]]
  BY <1>0, TableCounted
<1>2. /\ read.kind = "overview" /\ UNCHANGED <<rows, order, watch>>
      /\ LiveCodes' = LiveCodes
  BY DEF CountNextTable, LiveCodes
<1>3. /\ watch.alive \subseteq LiveCodes /\ LiveCodes \subseteq watch.present
      /\ IsFiniteSet(watch.present)
      /\ \A i \in 1..read.done : CoverTable(OverviewOrder[i])
  BY <1>2 DEF OverviewInv
<1>4. read.done \in Nat /\ k = read.done + 1 /\ k \in 1..4
  BY <1>0, <1>1 DEF OverviewReads, OverviewOrder
<1>5. \A i \in 1..read.done : OverviewOrder[i] \in Tables /\ OverviewOrder[i] # t
  <2>1. \A i \in 1..read.done : i \in 1..4 /\ i # k
    BY <1>4
  <2>2. \A i, j \in 1..4 : i # j => OverviewOrder[i] # OverviewOrder[j]
    BY DEF OverviewOrder
  <2>3. \A i \in 1..4 : OverviewOrder[i] \in Tables
    BY DEF OverviewOrder, Tables
  <2>4. QED
    BY <1>4, <2>1, <2>2, <2>3
<1>6. SumOver(f) = Cardinality(InTable(t))
  BY <1>1, TableAddsUp DEF ListTypeInv
<1> HIDE DEF t, f
<1>7. /\ read'.kind = "overview" /\ read'.done = k /\ read'.counts[t] = f
      /\ \A x \in Tables : x # t => read'.counts[x] = read.counts[x]
  BY <1>1 DEF OverviewReads
<1>8. CoverTable(t)'
  <2> DEFINE A == OfTable(watch.alive, t)
             S == InTable(t)
             P == OfTable(watch.present, t)
  <2>1. A \subseteq S /\ S \subseteq P /\ P \subseteq watch.present
    BY <1>3 DEF OfTable, InTable
  <2> HIDE DEF A, S, P
  <2>2. IsFiniteSet(P) /\ IsFiniteSet(S)
    BY <1>3, <2>1, FS_Subset
  <2>3. /\ Cardinality(A) \in Nat /\ Cardinality(S) \in Nat
        /\ Cardinality(A) <= Cardinality(S)
    BY <2>1, <2>2, PartOf
  <2>4. Cardinality(S) <= Cardinality(P)
    BY <2>1, <2>2, PartOf
  <2>5. read'.counts[t] = f /\ SumOver(f) = Cardinality(S)
    BY <1>6, <1>7 DEF S
  <2>6. /\ SumOver(read'.counts[t]) \in Nat
        /\ Cardinality(A) <= SumOver(read'.counts[t])
        /\ SumOver(read'.counts[t]) <= Cardinality(P)
    BY <2>3, <2>4, <2>5
  <2>7. QED
    BY <1>2, <2>6 DEF CoverTable, A, P, OfTable
<1>9. \A x : x \in Tables /\ x # t /\ CoverTable(x) => CoverTable(x)'
  BY <1>2, <1>7 DEF CoverTable, OfTable
<1>10. ASSUME NEW i \in 1..read'.done PROVE CoverTable(OverviewOrder[i])'
  <2>1. i \in 1..read.done \/ i = k
    BY <1>4, <1>7
  <2>2. CASE i = k
    BY <1>8, <2>2 DEF t
  <2>3. CASE i \in 1..read.done
    BY <1>3, <1>5, <1>9, <2>3
  <2>4. QED
    BY <2>1, <2>2, <2>3
<1>11. QED
  BY <1>2, <1>3, <1>10 DEF OverviewInv

LEMMA OverviewStep == ListTypeInv /\ OverviewInv /\ [ListNext]_listVars => OverviewInv'
<1> SUFFICES ASSUME ListTypeInv, OverviewInv, [ListNext]_listVars PROVE OverviewInv'
  OBVIOUS
<1>0. ReadShape
  BY DEF ListTypeInv
<1>1. ASSUME NEW c \in Codes,
             CreateRow(c) \/ UpdateRow(c) \/ MoveRow(c) \/ DeleteRow(c)
      PROVE  OverviewInv'
  <2>1. PICK s : MayWrite(c, s) /\ Write(c, s)
    BY <1>1, RowSteps DEF ListTypeInv
  <2>2. QED
    BY <2>1, WriteKeepsOverview
<1>2. ASSUME read'.kind # "overview" PROVE OverviewInv'
  BY <1>2 DEF OverviewInv
<1>3. ASSUME NEW t, NEW want, NEW asked, List(t, want, asked) PROVE OverviewInv'
  BY <1>0, <1>2, <1>3, ReadKindsOfSteps
<1>4. CASE CountPage \/ FindPage \/ EndRead
  BY <1>0, <1>2, <1>4, ReadKindsOfSteps
<1>5. CASE Overview
  <2>1. /\ watch'.alive = LiveCodes /\ watch'.present = LiveCodes
        /\ LiveCodes' = LiveCodes /\ IsFiniteSet(LiveCodes)
    BY <1>5 DEF Overview, NothingWatched, LiveCodes, ListTypeInv, RowsInv
  <2>2. 1..read'.done = {}
    BY <1>5 DEF Overview
  <2>3. QED
    BY <2>1, <2>2 DEF OverviewInv
<1>6. CASE CountNextTable
  BY <1>6, CountNextTableKeeps
<1>7. CASE UNCHANGED listVars
  BY <1>7 DEF listVars, OverviewInv, CoverTable, LiveCodes, OfTable
<1>8. QED
  BY <1>1, <1>3, <1>4, <1>5, <1>6, <1>7 DEF ListNext

\* Of each table that it has counted, the overview counts a record at most
\* once, and only if it was there meanwhile, and it misses none that was there
\* all the while (base.go:83-102), for any records and however they change
\* their status.
THEOREM OverviewsCountOnce == ListSpec => []OverviewCountsOnce
<1>1. ListInit => OverviewInv
  BY DEF ListInit, NotReading, OverviewInv
<1>2. OverviewInv => OverviewCountsOnce
  BY DEF OverviewInv, OverviewCountsOnce, CoverTable, OfTable
<1>3. QED
  BY <1>1, <1>2, OverviewStep, ListTypeInvariant, PTL DEF ListSpec

------------------------------------------------------------------------------
(***************************************************************************)
(* The pages of a list.  The rank of a record is its place among those     *)
(* that the list has.                                                      *)
(***************************************************************************)
ListedUpTo(e) == {d \in Matching : Place(d) <= Place(e)}

ItemRank == [c \in Matching |-> Cardinality(ListedUpTo(c))]

MatchingRanked == Ranks(Matching, ItemRank)

ListPagesInv ==
    read.kind = "list" =>
        /\ watch.steady \subseteq Matching
        /\ PagesInv(read.pages, watch.steady, ItemRank, Cardinality(Matching),
                    watch.left, watch.moved, watch.late)

LEMMA LivePlaces ==
    ASSUME RowsInv
    PROVE  \A c \in LiveCodes :
              Place(c) = PlaceIn(order, c) /\ Place(c) \in Int /\ order[Place(c)] = c
<1>1. \A c \in LiveCodes :
         PlaceIn(order, c) \in DOMAIN order /\ order[PlaceIn(order, c)] = c
  BY InPlace DEF RowsInv
<1>2. DOMAIN order \subseteq Int
  BY DEF RowsInv
<1>3. \A c : Place(c) = PlaceIn(order, c)
  BY DEF Place, PlaceIn
<1>4. QED
  BY <1>1, <1>2, <1>3

LEMMA ItemRankType ==
    ASSUME RowsInv, NEW e \in Matching
    PROVE  /\ IsFiniteSet(ListedUpTo(e)) /\ e \in ListedUpTo(e)
           /\ ItemRank[e] = Cardinality(ListedUpTo(e)) /\ ItemRank[e] \in Nat \ {0}
<1>1. ListedUpTo(e) \subseteq Matching /\ e \in ListedUpTo(e)
  BY LivePlaces, MatchingFinite DEF ListedUpTo
<1>2. IsFiniteSet(ListedUpTo(e))
  BY <1>1, MatchingFinite, FS_Subset
<1>3. Cardinality(ListedUpTo(e)) \in Nat \ {0}
  BY <1>1, <1>2, SomeCounted
<1>4. ItemRank[e] = Cardinality(ListedUpTo(e))
  BY DEF ItemRank
<1>5. QED
  BY <1>1, <1>2, <1>3, <1>4

LEMMA LaterRanksHigher ==
    ASSUME RowsInv, NEW e \in Matching, NEW f \in Matching, Place(e) < Place(f)
    PROVE  ItemRank[e] # ItemRank[f]
<1>1. /\ ListedUpTo(e) \subseteq ListedUpTo(f)
      /\ f \in ListedUpTo(f) /\ f \notin ListedUpTo(e)
  BY LivePlaces, MatchingFinite DEF ListedUpTo
<1>2. ListedUpTo(e) # ListedUpTo(f)
  BY <1>1
<1>3. Cardinality(ListedUpTo(e)) # Cardinality(ListedUpTo(f))
  BY <1>1, <1>2, ItemRankType, FS_Subset
<1>4. QED
  BY <1>3, ItemRankType

LEMMA RanksOfMatching == RowsInv => MatchingRanked
<1> SUFFICES ASSUME RowsInv PROVE MatchingRanked
  OBVIOUS
<1>1. IsFiniteSet(Matching) /\ Matching \subseteq LiveCodes
  BY MatchingFinite
<1>2. \A e \in Matching : ItemRank[e] \in Nat \ {0}
  BY ItemRankType
<1>3. ASSUME NEW e \in Matching, NEW f \in Matching, ItemRank[e] = ItemRank[f]
      PROVE  e = f
  <2>1. ~(Place(e) < Place(f)) /\ ~(Place(f) < Place(e))
    BY <1>3, LaterRanksHigher
  <2>2. /\ Place(e) \in Int /\ Place(f) \in Int
        /\ order[Place(e)] = e /\ order[Place(f)] = f
    BY <1>1, LivePlaces
  <2>3. Place(e) = Place(f)
    BY <2>1, <2>2
  <2>4. QED
    BY <2>2, <2>3
<1>4. QED
  BY <1>1, <1>2, <1>3 DEF MatchingRanked, Ranks

LEMMA RanksOfMatchingNext == RowsInv' => MatchingRanked'
  BY RanksOfMatching, PTL

LEMMA RanksOfPart ==
    ASSUME NEW W, NEW r, Ranks(W, r), NEW V, V \subseteq W
    PROVE  Ranks(V, r)
  BY FS_Subset DEF Ranks

\* A record is in the list at its rank.
LEMMA ListedInPlace ==
    ASSUME RowsInv, NEW l \in Listed, NEW e \in Matching
    PROVE  \E p \in 1..Cardinality(Matching) : l[p] = e /\ ItemRank[e] = p
<1> DEFINE n == Cardinality(Matching)
<1>1. IsFiniteSet(Matching) /\ Matching \subseteq LiveCodes
  BY MatchingFinite
<1>2. l \in SetToSeqs(Matching) /\ \A i, j \in DOMAIN l : i < j => Place(l[i]) < Place(l[j])
  BY DEF Listed
<1>3. /\ l \in Bijection(1..n, Matching) /\ Len(l) = n /\ n \in Nat
      /\ DOMAIN l = 1..n
  BY <1>1, <1>2, ListOfSet
<1>4. PICK p \in 1..n : l[p] = e
  BY <1>3 DEF Bijection, Surjection
<1>5. \A i \in 1..n : l[i] \in Matching
  BY <1>3 DEF Bijection, Injection, Surjection
<1>6. \A i, j \in 1..n : i < j => Place(l[i]) < Place(l[j])
  BY <1>2, <1>3
<1>7. \A d \in Matching : Place(d) \in Int
  BY <1>1, LivePlaces
<1> HIDE DEF n
<1>8. ASSUME NEW i \in 1..p PROVE l[i] \in ListedUpTo(e)
  <2>1. i \in 1..n /\ (i < p \/ i = p)
    BY <1>3
  <2>2. Place(l[i]) <= Place(e)
    BY <1>4, <1>5, <1>6, <1>7, <2>1
  <2>3. QED
    BY <1>5, <2>1, <2>2 DEF ListedUpTo
<1>9. ASSUME NEW d \in ListedUpTo(e) PROVE \E i \in 1..p : l[i] = d
  <2>1. d \in Matching /\ Place(d) <= Place(e)
    BY DEF ListedUpTo
  <2>2. PICK j \in 1..n : l[j] = d
    BY <1>3, <2>1 DEF Bijection, Surjection
  <2>3. j <= p
    <3>1. ~(p < j)
      BY <1>4, <1>6, <1>7, <2>1, <2>2
    <3>2. QED
      BY <1>3, <3>1
  <2>4. QED
    BY <1>3, <2>2, <2>3
<1>10. ListedUpTo(e) = {l[i] : i \in 1..p}
  BY <1>8, <1>9
<1>11. Cardinality({l[i] : i \in 1..p}) = p
  BY <1>1, <1>2, RankOfPlace DEF n
<1>12. ItemRank[e] = p
  BY <1>10, <1>11, ItemRankType
<1>13. QED
  BY <1>4, <1>12 DEF n

\* Sets that differ in c at most.
LEMMA DifferInOne ==
    ASSUME NEW S, IsFiniteSet(S), NEW T, NEW c, T \ {c} = S \ {c},
           NEW gone \in {0, 1}, NEW come \in {0, 1},
           c \in T => come = 1, c \in S /\ c \notin T => gone = 1
    PROVE  /\ IsFiniteSet(T)
           /\ Cardinality(S) \in Nat /\ Cardinality(T) \in Nat
           /\ Cardinality(S) - gone <= Cardinality(T)
           /\ Cardinality(T) <= Cardinality(S) + come
<1> DEFINE R == S \ {c}
<1>1. IsFiniteSet(R) /\ c \notin R
  BY FS_Subset
<1>2. IsFiniteSet(R \cup {c}) /\ Cardinality(R \cup {c}) = Cardinality(R) + 1
  BY <1>1, FS_AddElement
<1>3. Cardinality(R) \in Nat
  BY <1>1, FS_CardinalityType
<1>4. /\ S = IF c \in S THEN R \cup {c} ELSE R
      /\ T = IF c \in T THEN R \cup {c} ELSE R
  OBVIOUS
<1> HIDE DEF R
<1>5. /\ Cardinality(S) = IF c \in S THEN Cardinality(R) + 1 ELSE Cardinality(R)
      /\ Cardinality(T) = IF c \in T THEN Cardinality(R) + 1 ELSE Cardinality(R)
      /\ IsFiniteSet(T)
  BY <1>1, <1>2, <1>4
<1>6. QED
  BY <1>3, <1>5

\* How a write of c changes the list that is read: it takes c in or out.
LEMMA ListWritten ==
    ASSUME ListTypeInv, read.kind = "list",
           NEW c \in Codes, NEW s, MayWrite(c, s), Write(c, s)
    PROVE  /\ Matching' \ {c} = Matching \ {c}
           /\ c \in Matching <=> Was(c)
           /\ c \in Matching' <=> WillBe(c, s)
<1>1. read' = read /\ read \in ListReads
  BY ReadKinds DEF Write, ListTypeInv
<1>2. read.want \subseteq Statuses /\ read.kind = "list"
  BY <1>1 DEF ListReads
<1>3. "absent" \notin read.want /\ "deleted" \notin read.want
  BY <1>2, Graphs
<1>4. /\ rows'[c] = s /\ \A d \in Codes \ {c} : rows'[d] = rows[d]
      /\ LiveCodes' = IF s = "deleted" THEN LiveCodes \ {c} ELSE LiveCodes \cup {c}
  BY RowWritten DEF ListTypeInv
<1>5. Matching' = {d \in LiveCodes' : TableOf[d] = read.table /\ rows'[d] \in read.want}
  BY <1>1 DEF Matching
<1>6. Matching' \ {c} = Matching \ {c}
  BY <1>4, <1>5 DEF Matching, LiveCodes
<1>7. c \in Matching <=> Was(c)
  BY <1>2, <1>3 DEF Matching, LiveCodes, Was, Wanted
<1>8. c \in Matching' <=> WillBe(c, s)
  <2>1. c \in LiveCodes' <=> s # "deleted"
    BY <1>4
  <2>2. WillBe(c, s) <=> TableOf[c] = read.table /\ s \in read.want
    BY <1>2 DEF WillBe, Wanted
  <2>3. QED
    BY <1>3, <1>4, <1>5, <2>1, <2>2
<1>9. QED
  BY <1>6, <1>7, <1>8

\* A write of c changes the rank of another record by c only: it falls when c
\* leaves the list, and rises when c is written above it.
LEMMA RankWritten ==
    ASSUME ListTypeInv, read.kind = "list",
           NEW c \in Codes, NEW s, MayWrite(c, s), Write(c, s),
           NEW gone \in {0, 1}, NEW come \in {0, 1},
           WillBe(c, s) => come = 1, Was(c) /\ ~WillBe(c, s) => gone = 1,
           NEW e \in Matching \ {c}
    PROVE  ItemRank[e] - gone <= ItemRank'[e] /\ ItemRank'[e] <= ItemRank[e] + come
<1>1. /\ Matching' \ {c} = Matching \ {c}
      /\ c \in Matching <=> Was(c)
      /\ c \in Matching' <=> WillBe(c, s)
  BY ListWritten
<1>2. /\ RowsInv /\ RowsInv' /\ SameOrder(order, order', LiveCodes \ {c})
      /\ s # "deleted" /\ c \in LiveCodes =>
            \A d \in LiveCodes \ {c} :
               PlaceIn(order, c) <= PlaceIn(order, d)
                  => PlaceIn(order', c) <= PlaceIn(order', d)
  BY RowWritten DEF ListTypeInv
<1>3. Matching \subseteq LiveCodes /\ IsFiniteSet(Matching)
  BY <1>2, MatchingFinite
<1>4. \A d : Place(d) = PlaceIn(order, d) /\ Place(d)' = PlaceIn(order', d)
  BY DEF Place, PlaceIn
<1> DEFINE S == {d \in Matching : PlaceIn(order, d) <= PlaceIn(order, e)}
           T == {d \in Matching' : PlaceIn(order', d) <= PlaceIn(order', e)}
<1>5. ListedUpTo(e) = S
  BY <1>4 DEF ListedUpTo
<1>6. ItemRank'[e] = Cardinality(T)
  <2>1. e \in Matching'
    BY <1>1
  <2>2. ItemRank'[e] = Cardinality({d \in Matching' : Place(d)' <= Place(e)'})
    BY <2>1 DEF ItemRank, ListedUpTo
  <2>3. {d \in Matching' : Place(d)' <= Place(e)'} = T
    BY <1>4
  <2>4. QED
    BY <2>2, <2>3
<1>7. ItemRank[e] = Cardinality(S) /\ IsFiniteSet(S)
  BY <1>2, <1>5, ItemRankType
<1>8. T \ {c} = S \ {c}
  <2>1. \A d \in Matching \ {c} :
           PlaceIn(order', d) <= PlaceIn(order', e) <=> PlaceIn(order, d) <= PlaceIn(order, e)
    BY <1>2, <1>3 DEF SameOrder
  <2>2. QED
    BY <1>1, <2>1
<1>9. c \in T => come = 1
  BY <1>1
<1>10. c \in S /\ c \notin T => gone = 1
  <2> SUFFICES ASSUME c \in S, c \notin T, WillBe(c, s) PROVE FALSE
    BY <1>1
  <2>1. c \in Matching /\ c \in Matching' /\ PlaceIn(order, c) <= PlaceIn(order, e)
    BY <1>1
  <2>2. s # "deleted"
    <3>1. rows'[c] = s /\ rows'[c] # "deleted"
      BY <2>1, RowWritten DEF ListTypeInv, Matching, LiveCodes
    <3>2. QED
      BY <3>1
  <2>3. PlaceIn(order', c) <= PlaceIn(order', e)
    BY <1>2, <1>3, <2>1, <2>2
  <2>4. QED
    BY <2>1, <2>3
<1> HIDE DEF S, T
<1>11. /\ Cardinality(S) - gone <= Cardinality(T)
       /\ Cardinality(T) <= Cardinality(S) + come
  BY <1>7, <1>8, <1>9, <1>10, DifferInOne
<1>12. QED
  BY <1>6, <1>7, <1>11

LEMMA WriteKeepsPages ==
    ASSUME ListTypeInv, ListPagesInv,
           NEW c \in Codes, NEW s, MayWrite(c, s), Write(c, s)
    PROVE  ListPagesInv'
<1> SUFFICES ASSUME read'.kind = "list" PROVE ListPagesInv'
  BY DEF ListPagesInv
<1>1. read' = read /\ read.kind = "list" /\ read # NotReading
  BY DEF Write, NotReading
<1>2. read \in ListReads
  BY <1>1, ReadKinds DEF ListTypeInv
<1> DEFINE q    == read.pages
           gone == IF Was(c) /\ ~WillBe(c, s) THEN 1 ELSE 0
           come == IF WillBe(c, s) THEN 1 ELSE 0
           W == watch.steady
           V == watch'.steady
           r == ItemRank
           t == ItemRank'
           n == Cardinality(Matching)
           m == Cardinality(Matching')
<1>3. /\ gone \in {0, 1} /\ come \in {0, 1}
      /\ WillBe(c, s) => come = 1
      /\ Was(c) /\ ~WillBe(c, s) => gone = 1
  OBVIOUS
<1>4. /\ watch.left \in Nat /\ watch.moved \in Nat /\ watch.late \in Nat
      /\ watch \in WatchType
  BY DEF ListTypeInv, WatchType
<1>5. /\ V = W \ {c}
      /\ watch'.left = watch.left + gone /\ watch'.moved = watch.moved + come
      /\ watch'.late = watch.late + come
  <2>1. watch' = Watched(c, s)
    BY DEF Write
  <2>2. /\ Watched(c, s).steady = watch.steady \ {c}
        /\ Watched(c, s).left =
              IF Was(c) /\ ~WillBe(c, s) THEN watch.left + 1 ELSE watch.left
        /\ Watched(c, s).moved = IF WillBe(c, s) THEN watch.moved + 1 ELSE watch.moved
        /\ Watched(c, s).late = IF WillBe(c, s) THEN watch.late + 1 ELSE watch.late
    BY <1>1, <1>4, WatchedType
  <2>3. QED
    BY <1>4, <2>1, <2>2
<1>6. /\ W \subseteq Matching /\ PagesInv(q, W, r, n, watch.left, watch.moved, watch.late)
  BY <1>1 DEF ListPagesInv
<1>7. /\ Matching' \ {c} = Matching \ {c}
      /\ c \in Matching <=> Was(c)
      /\ c \in Matching' <=> WillBe(c, s)
  BY <1>1, ListWritten
<1>8. V \subseteq Matching' /\ V \subseteq W
  BY <1>5, <1>6, <1>7
<1>9. RowsInv /\ RowsInv'
  BY RowWritten DEF ListTypeInv
<1>10. Ranks(W, r) /\ Ranks(V, t)
  <2>1. Ranks(Matching, ItemRank) /\ Ranks(Matching', ItemRank')
    BY <1>9, RanksOfMatching, RanksOfMatchingNext DEF MatchingRanked
  <2> DEFINE M == Matching'
  <2>2. Ranks(M, t) /\ V \subseteq M
    BY <1>8, <2>1
  <2> HIDE DEF M, t, V
  <2>3. Ranks(V, t)
    BY <2>2, RanksOfPart
  <2>4. Ranks(W, r)
    BY <1>6, <2>1, RanksOfPart
  <2>5. QED
    BY <2>3, <2>4
<1> HIDE DEF gone, come
<1>11. \A e \in V : r[e] - gone <= t[e] /\ t[e] <= r[e] + come
  BY <1>1, <1>3, <1>5, <1>6, RankWritten
<1>12. n \in Nat /\ m \in Nat /\ m <= n + come
  <2> DEFINE S == Matching
             T == Matching'
  <2>1. /\ T \ {c} = S \ {c} /\ IsFiniteSet(S)
        /\ c \in T => come = 1
        /\ c \in S /\ c \notin T => gone = 1
    BY <1>3, <1>7, <1>9, MatchingFinite
  <2> HIDE DEF S, T
  <2>2. Cardinality(S) \in Nat /\ Cardinality(T) \in Nat
        /\ Cardinality(T) <= Cardinality(S) + come
    BY <1>3, <2>1, DifferInOne
  <2>3. QED
    BY <2>2 DEF S, T
<1>13. q.page \in Nat \ {0} /\ q.size \in Nat \ {0} /\ q.total \in Nat
  BY <1>2, PagingAssumption DEF ListReads, PagesOf
<1> HIDE DEF q, W, V, r, t, n, m
<1>14. PagesInv(q, V, t, m, watch.left + gone, watch.moved + come, watch.late + come)
  BY <1>3, <1>4, <1>6, <1>8, <1>10, <1>11, <1>12, <1>13, WritesKeep
<1>15. PagesInv(q, V, t, m, watch'.left, watch'.moved, watch'.late)
  BY <1>5, <1>14
<1>16. QED
  BY <1>1, <1>8, <1>15 DEF ListPagesInv, q, V, t, m

\* The list that is read does not change when its pages do.
LEMMA MatchingStays ==
    ASSUME UNCHANGED <<rows, order>>, read'.table = read.table, read'.want = read.want
    PROVE  Matching' = Matching /\ ItemRank' = ItemRank
<1>1. LiveCodes' = LiveCodes
  BY DEF LiveCodes
<1>2. Matching' = Matching
  BY <1>1 DEF Matching
<1>3. QED
  BY <1>2 DEF ItemRank, ListedUpTo, Place

LEMMA CountPageKeeps ==
    ASSUME ListTypeInv, ListPagesInv, CountPage
    PROVE  ListPagesInv'
<1>1. read \in ListReads /\ read.kind = "list"
  BY ReadKinds DEF CountPage, ListTypeInv
<1>2. PICK l \in Listed : read' = [read EXCEPT !.pages = Counted(@, l)]
  BY DEF CountPage
<1>3. Len(l) = Cardinality(Matching) /\ Len(l) \in Nat
  BY ListOfSet, MatchingFinite DEF Listed, ListTypeInv
<1>4. /\ UNCHANGED <<rows, order>>
      /\ watch' = [watch EXCEPT !.late = 0]
      /\ watch.steady \subseteq Matching
      /\ PagesInv(read.pages, watch.steady, ItemRank, Len(l),
                  watch.left, watch.moved, watch.late)
  BY <1>1, <1>3 DEF CountPage, ListPagesInv
<1>5. read.pages \in PagesOf(Codes)
  BY <1>1 DEF ListReads
<1>6. PagesInv(Counted(read.pages, l), watch.steady, ItemRank, Len(l),
               watch.left, watch.moved, 0)
  BY <1>3, <1>4, <1>5, CountKeeps
<1>7. /\ read'.pages = Counted(read.pages, l)
      /\ read'.table = read.table /\ read'.want = read.want
  BY <1>1, <1>2 DEF ListReads
<1>8. /\ watch'.steady = watch.steady /\ watch'.left = watch.left
      /\ watch'.moved = watch.moved /\ watch'.late = 0
  BY <1>4 DEF ListTypeInv, WatchType
<1>9. Matching' = Matching /\ ItemRank' = ItemRank
  BY <1>4, <1>7, MatchingStays
<1>10. QED
  BY <1>3, <1>4, <1>6, <1>7, <1>8, <1>9 DEF ListPagesInv

LEMMA FindPageKeeps ==
    ASSUME ListTypeInv, ListPagesInv, FindPage
    PROVE  ListPagesInv'
<1>1. read \in ListReads /\ read.kind = "list"
  BY ReadKinds DEF FindPage, ListTypeInv
<1>2. PICK l \in Listed : read' = [read EXCEPT !.pages = Found(@, l)]
  BY DEF FindPage
<1>3. RowsInv /\ IsFiniteSet(Matching) /\ l \in SetToSeqs(Matching)
  BY MatchingFinite DEF Listed, ListTypeInv
<1>4. /\ UNCHANGED <<rows, order, watch>> /\ read.pages.step = "find"
      /\ watch.steady \subseteq Matching
      /\ PagesInv(read.pages, watch.steady, ItemRank, Cardinality(Matching),
                  watch.left, watch.moved, watch.late)
  BY <1>1 DEF FindPage, ListPagesInv
<1>5. read.pages \in PagesOf(Codes)
  BY <1>1 DEF ListReads
<1>6. Ranks(watch.steady, ItemRank)
  BY <1>3, <1>4, RanksOfMatching, RanksOfPart DEF MatchingRanked
<1>7. \A e \in watch.steady :
         \E p \in 1..Cardinality(Matching) : l[p] = e /\ ItemRank[e] = p
  BY <1>3, <1>4, ListedInPlace
<1>8. watch.left \in Nat /\ watch.moved \in Nat /\ watch.late \in Nat
  BY DEF ListTypeInv, WatchType
<1>9. PagesInv(Found(read.pages, l), watch.steady, ItemRank, Cardinality(Matching),
               watch.left, watch.moved, watch.late)
  BY <1>3, <1>4, <1>5, <1>6, <1>7, <1>8, FindKeeps
<1>10. /\ read'.pages = Found(read.pages, l)
       /\ read'.table = read.table /\ read'.want = read.want
  BY <1>1, <1>2 DEF ListReads
<1>11. Matching' = Matching /\ ItemRank' = ItemRank
  BY <1>4, <1>10, MatchingStays
<1>12. QED
  BY <1>4, <1>9, <1>10, <1>11 DEF ListPagesInv

LEMMA ListKeeps ==
    ASSUME ListTypeInv', NEW t \in Tables, NEW want \in SUBSET Statuses,
           NEW asked \in AskedSizes, List(t, want, asked)
    PROVE  ListPagesInv'
<1> DEFINE b == BindPageSize(asked)
           W == watch'.steady
           r == ItemRank'
           n == Cardinality(Matching')
<1>1. b \in 1..MaxPageSize /\ NormalizedPageSize(b) = b
  BY BoundSizes
<1>2. read' = [kind |-> "list", table |-> t, want |-> want, pages |-> FirstPage(b)]
  BY <1>1 DEF List
<1>3. /\ watch'.steady = {c \in LiveCodes : TableOf[c] = t /\ rows[c] \in want}
      /\ watch'.left = 0 /\ watch'.moved = 0 /\ watch'.late = 0
  BY DEF List, NothingWatched
<1>4. LiveCodes' = LiveCodes /\ rows' = rows
  BY DEF List, LiveCodes
<1>5. W = Matching'
  BY <1>2, <1>3, <1>4 DEF Matching
<1>6. RowsInv'
  BY DEF ListTypeInv
<1>7. Ranks(Matching', ItemRank')
  BY <1>6, RanksOfMatchingNext DEF MatchingRanked
<1>8. Ranks(W, r)
  BY <1>5, <1>7
<1> HIDE DEF b, W, r, n
<1>9. PagesInv(FirstPage(b), W, r, n, 0, 0, 0)
  BY <1>1, <1>8, FirstPageKeeps, 0 \in Nat
<1>10. QED
  BY <1>2, <1>3, <1>5, <1>9 DEF ListPagesInv, W, r, n

LEMMA ListPagesStep ==
    ListTypeInv /\ ListPagesInv /\ [ListNext]_listVars => ListPagesInv'
<1> SUFFICES ASSUME ListTypeInv, ListPagesInv, [ListNext]_listVars PROVE ListPagesInv'
  OBVIOUS
<1>1. ReadShape /\ ListTypeInv'
  BY ListTypeStep DEF ListTypeInv
<1>2. ASSUME NEW c \in Codes,
             CreateRow(c) \/ UpdateRow(c) \/ MoveRow(c) \/ DeleteRow(c)
      PROVE  ListPagesInv'
  <2>1. PICK s : MayWrite(c, s) /\ Write(c, s)
    BY <1>2, RowSteps DEF ListTypeInv
  <2>2. QED
    BY <2>1, WriteKeepsPages
<1>3. ASSUME NEW c \in Codes, NEW asked \in AskedSizes,
             NEW want \in {StatusesOf(TableOf[c])} \cup {{s} : s \in StatusesOf(TableOf[c])},
             List(TableOf[c], want, asked)
      PROVE  ListPagesInv'
  <2>1. TableOf[c] \in Tables
    BY ListAssumption
  <2>2. want \in SUBSET Statuses
    BY <2>1, Graphs
  <2>3. QED
    BY <1>1, <1>3, <2>1, <2>2, ListKeeps
<1>4. CASE CountPage
  BY <1>4, CountPageKeeps
<1>5. CASE FindPage
  BY <1>5, FindPageKeeps
<1>6. CASE Overview \/ CountNextTable \/ EndRead
  <2>1. read'.kind # "list"
    BY <1>1, <1>6, ReadKindsOfSteps
  <2>2. QED
    BY <2>1 DEF ListPagesInv
<1>7. CASE UNCHANGED listVars
  <2>1. Matching' = Matching /\ ItemRank' = ItemRank
    BY <1>7, MatchingStays DEF listVars
  <2>2. QED
    BY <1>7, <2>1 DEF listVars, ListPagesInv
<1>8. QED
  BY <1>2, <1>3, <1>4, <1>5, <1>6, <1>7 DEF ListNext

\* A client that asks for the pages of a list one after the other gets at
\* most as many of the records that were in it all along twice as moved up
\* meanwhile, and when its pages cover the total it was last told, it has
\* missed at most as many as left the list meanwhile or moved up in it since
\* that was counted (base.go:38-46), for any records, writes, filters and page
\* sizes.
THEOREM ListPagesMissAndRepeatFew == ListSpec => []PagesMissAndRepeatFew
<1>1. ListInit => ListPagesInv
  BY DEF ListInit, NotReading, ListPagesInv
<1>2. ListTypeInv /\ ListPagesInv => PagesMissAndRepeatFew
  <2> SUFFICES ASSUME ListTypeInv, ListPagesInv, read.kind = "list"
               PROVE  PagesMissAndRepeatFew
    BY DEF PagesMissAndRepeatFew
  <2>1. watch.left \in Nat /\ watch.moved \in Nat /\ watch.late \in Nat
    BY DEF ListTypeInv, WatchType
  <2>2. /\ watch.steady \subseteq Matching
        /\ PagesInv(read.pages, watch.steady, ItemRank, Cardinality(Matching),
                    watch.left, watch.moved, watch.late)
    BY DEF ListPagesInv
  <2>3. IsFiniteSet(watch.steady)
    BY <2>2, MatchingFinite, PartOf DEF ListTypeInv
  <2>4. Cardinality(watch.steady \cap read.pages.twice) <= watch.moved
    BY <2>1, <2>2, <2>3, RepeatsBounded DEF PagesInv
  <2>5. AllRead(read.pages) =>
           Cardinality(watch.steady \ read.pages.got) <= watch.left + watch.late
    BY <2>2 DEF PagesInv
  <2>6. QED
    BY <2>4, <2>5 DEF PagesMissAndRepeatFew
<1>3. QED
  BY <1>1, <1>2, ListPagesStep, ListTypeInvariant, PTL DEF ListSpec
===============================================================================
