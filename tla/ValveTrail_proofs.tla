-------------------------- MODULE ValveTrail_proofs ---------------------------
(***************************************************************************)
(* Proofs about the audit trail of ValveExecution.                         *)
(*                                                                         *)
(* An entry is in the trail from the moment its write is stored: it is     *)
(* recorded, or its handler is about to record it.  What the properties    *)
(* say of recorded entries is inductive when it is said of all of these,   *)
(* since a step adds to them only the entry of the write it makes; the row *)
(* of the record is what ties the new entry to the older ones.             *)
(***************************************************************************)
EXTENDS ValveExecution_proofs

\* The audit row a job will lead to.
EntryOf(j) ==
    [code   |-> j.code,
     write  |-> IF j.op = "delete" THEN 0 ELSE j.item.version,
     action |-> j.op,
     actor  |-> j.actor,
     before |-> IF j.op = "create" THEN "" ELSE j.read.status,
     after  |-> IF j.op = "delete" THEN "deleted" ELSE j.item.status]

LEMMA AuditEntryIsOfJob ==
    ASSUME NEW h \in Handlers
    PROVE  AuditEntry(h) = EntryOf(job[h])
  BY DEF AuditEntry, EntryOf

InTrail(a) ==
    \/ \E i \in DOMAIN audits : audits[i] = a
    \/ \E h \in Handlers : pc[h] = "stored" /\ EntryOf(job[h]) = a

\* Every entry of the trail is an audit row.
LEMMA TrailType ==
    ASSUME TypeInv, NEW a, InTrail(a)
    PROVE  a \in AuditLog
  BY AuditEntryType, AuditEntryIsOfJob DEF InTrail, TypeInv, TypeOK

\* What a list has after one more element.
LEMMA AppendHas ==
    ASSUME NEW S, NEW s \in Seq(S), NEW e \in S
    PROVE  /\ DOMAIN Append(s, e) = 1..Len(s) + 1
           /\ DOMAIN s = 1..Len(s)
           /\ Len(s) \in Nat
           /\ \A i \in 1..Len(s) : Append(s, e)[i] = s[i]
           /\ Append(s, e)[Len(s) + 1] = e
  OBVIOUS

\* A step that ends or changes the work of h leaves the other handlers alone.
Others(h) == \A g \in Handlers \ {h} : pc'[g] = pc[g] /\ job'[g] = job[g]

LEMMA BeginSteps ==
    ASSUME TypeOK, NEW h \in Handlers, Begin(h)
    PROVE  /\ UNCHANGED <<table, audits>>
           /\ pc[h] = "idle"
           /\ pc'[h] = "prepared"
           /\ Others(h)
  BY BeginPrepares DEF Prepare, TypeOK, Others

\* What each of the other steps of a handler does to it and to the log.
LEMMA EndingSteps ==
    ASSUME TypeOK, NEW h \in Handlers,
           Conflict(h) \/ StoreFails(h) \/ Reply(h)
    PROVE  /\ UNCHANGED audits
           /\ pc[h] # "stored"
           /\ pc'[h] = "idle"
           /\ Others(h)
  BY DEF Conflict, StoreFails, Reply, Finish, TypeOK, Others

LEMMA StoreSteps ==
    ASSUME TypeOK, NEW h \in Handlers, Store(h)
    PROVE  /\ UNCHANGED <<audits, job>>
           /\ pc[h] = "prepared"
           /\ pc'[h] = "stored"
           /\ Others(h)
  BY DEF Store, TypeOK, Others

LEMMA RecordingSteps ==
    ASSUME TypeOK, NEW h \in Handlers, RecordAudit(h) \/ AuditFails(h)
    PROVE  /\ UNCHANGED table
           /\ pc[h] = "stored"
           /\ pc'[h] \in {"replying", "idle"}
           /\ audits' \in {audits, Append(audits, EntryOf(job[h]))}
           /\ RecordAudit(h) => audits' = Append(audits, EntryOf(job[h]))
           /\ Others(h)
  BY AuditEntryIsOfJob DEF RecordAudit, AuditFails, Finish, TypeOK, Others

(***************************************************************************)
(* What a step adds to the trail, and, without faults, what it keeps.      *)
(***************************************************************************)
LEMMA TrailGrows ==
    ASSUME TypeInv, [Next]_vars, NEW a, InTrail(a)'
    PROVE  \/ InTrail(a)
           \/ \E h \in Handlers : Store(h) /\ a = EntryOf(job[h])
<1>0. TypeOK
  BY DEF TypeInv
<1>1. CASE UNCHANGED vars
  BY <1>1 DEF vars, serviceVars, InTrail
<1>2. CASE Crash
  BY <1>2 DEF Crash, InTrail
<1>3. ASSUME NEW h \in Handlers, UNCHANGED audits, pc'[h] # "stored", Others(h)
      PROVE  InTrail(a)
  BY <1>3 DEF InTrail, Others
<1>4. ASSUME NEW h \in Handlers, Begin(h)
      PROVE  InTrail(a)
  <2>1. UNCHANGED audits /\ pc'[h] # "stored" /\ Others(h)
    BY <1>0, <1>4, BeginSteps
  <2> QED
    BY <2>1, <1>3
<1>5. ASSUME NEW h \in Handlers, Conflict(h) \/ StoreFails(h) \/ Reply(h)
      PROVE  InTrail(a)
  <2>1. UNCHANGED audits /\ pc'[h] # "stored" /\ Others(h)
    BY <1>0, <1>5, EndingSteps
  <2> QED
    BY <2>1, <1>3
<1>6. ASSUME NEW h \in Handlers, Store(h)
      PROVE  InTrail(a) \/ a = EntryOf(job[h])
  BY <1>0, <1>6, StoreSteps DEF InTrail, Others
<1>7. ASSUME NEW h \in Handlers, RecordAudit(h) \/ AuditFails(h)
      PROVE  InTrail(a)
  <2>1. /\ pc[h] = "stored" /\ pc'[h] # "stored" /\ Others(h)
        /\ audits' \in {audits, Append(audits, EntryOf(job[h]))}
    BY <1>0, <1>7, RecordingSteps
  <2>2. audits \in Seq(AuditLog) /\ EntryOf(job[h]) \in AuditLog
    BY <2>1, AuditEntryType, AuditEntryIsOfJob DEF TypeInv, TypeOK
  <2>3. CASE \E i \in DOMAIN audits' : audits'[i] = a
    <3>1. \/ \E i \in DOMAIN audits : audits[i] = a
          \/ EntryOf(job[h]) = a
      <4> DEFINE e == EntryOf(job[h])
      <4>1. e \in AuditLog /\ audits' \in {audits, Append(audits, e)}
        BY <2>1, <2>2
      <4> HIDE DEF e
      <4>2. (\E i \in DOMAIN audits : audits[i] = a) \/ e = a
        BY <2>2, <2>3, <4>1, AppendHas
      <4> QED
        BY <4>2 DEF e
    <3> QED
      BY <2>1, <3>1 DEF InTrail
  <2>4. CASE \E g \in Handlers : pc'[g] = "stored" /\ EntryOf(job'[g]) = a
    BY <2>1, <2>4 DEF InTrail, Others
  <2> QED
    BY <2>3, <2>4 DEF InTrail
<1> QED
  BY <1>1, <1>2, <1>4, <1>5, <1>6, <1>7 DEF Next, Step

LEMMA TrailStays ==
    ASSUME Faults = {}, TypeInv, [Next]_vars, NEW a, InTrail(a)
    PROVE  InTrail(a)'
<1>0. TypeOK
  BY DEF TypeInv
<1>1. CASE UNCHANGED vars
  BY <1>1 DEF vars, serviceVars, InTrail
<1>2. ~Crash
  BY DEF Crash
<1>3. ASSUME NEW h \in Handlers, UNCHANGED audits, pc[h] # "stored", Others(h)
      PROVE  InTrail(a)'
  BY <1>3 DEF InTrail, Others
<1>4. ASSUME NEW h \in Handlers, Begin(h)
      PROVE  InTrail(a)'
  <2>1. UNCHANGED audits /\ pc[h] # "stored" /\ Others(h)
    BY <1>0, <1>4, BeginSteps
  <2> QED
    BY <2>1, <1>3
<1>5. ASSUME NEW h \in Handlers, Conflict(h) \/ StoreFails(h) \/ Reply(h)
      PROVE  InTrail(a)'
  <2>1. UNCHANGED audits /\ pc[h] # "stored" /\ Others(h)
    BY <1>0, <1>5, EndingSteps
  <2> QED
    BY <2>1, <1>3
<1>6. ASSUME NEW h \in Handlers, Store(h)
      PROVE  InTrail(a)'
  <2>1. UNCHANGED audits /\ pc[h] # "stored" /\ Others(h)
    BY <1>0, <1>6, StoreSteps
  <2> QED
    BY <2>1, <1>3
<1>7. ASSUME NEW h \in Handlers, RecordAudit(h) \/ AuditFails(h)
      PROVE  InTrail(a)'
  <2>1. /\ pc[h] = "stored" /\ Others(h)
        /\ audits' = Append(audits, EntryOf(job[h]))
    BY <1>0, <1>7, RecordingSteps DEF AuditFails
  <2>2. audits \in Seq(AuditLog) /\ EntryOf(job[h]) \in AuditLog
    BY <2>1, AuditEntryType, AuditEntryIsOfJob DEF TypeInv, TypeOK
  <2> DEFINE e == EntryOf(job[h])
  <2>3. e \in AuditLog /\ audits' = Append(audits, e)
    BY <2>1, <2>2
  <2> HIDE DEF e
  <2>4. CASE (\E i \in DOMAIN audits : audits[i] = a) \/ e = a
    <3>1. \E i \in DOMAIN audits' : audits'[i] = a
      BY <2>2, <2>3, <2>4, AppendHas
    <3> QED
      BY <3>1 DEF InTrail
  <2>5. ASSUME NEW g \in Handlers \ {h}, pc[g] = "stored", EntryOf(job[g]) = a
        PROVE  InTrail(a)'
    BY <2>1, <2>5 DEF InTrail, Others
  <2> QED
    BY <2>4, <2>5 DEF InTrail, e
<1> QED
  BY <1>1, <1>2, <1>4, <1>5, <1>6, <1>7 DEF Next, Step

------------------------------------------------------------------------------
(***************************************************************************)
(* What the entry of a write and the row it wrote have to do with each     *)
(* other.                                                                  *)
(***************************************************************************)

\* What a write does to the row, by kind of operation.
Inserts(j, row, new) ==
    j.op = "create" /\ row = NoRow /\ new = j.item /\ j.item.version = 1

Replaces(j, row, new) ==
    /\ j.op \in Versioned
    /\ row \in ValveRow /\ ~row.deleted
    /\ new = j.item
    /\ j.item.version = row.version + 1

Marks(j, row, new) ==
    /\ j.op = "delete"
    /\ row \in ValveRow /\ ~row.deleted
    /\ new = [row EXCEPT !.deleted = TRUE]

LEMMA StoreEffect ==
    ASSUME TypeInv, NEW h \in Handlers, Store(h)
    PROVE  LET c == job[h].code
           IN  \/ Inserts(job[h], table[c], table'[c])
               \/ Replaces(job[h], table[c], table'[c])
               \/ Marks(job[h], table[c], table'[c])
<1>1. /\ job[h] \in Job /\ Computed(job[h])
      /\ table \in [Codes -> ValveRow \cup {NoRow}]
      /\ StoreHits(h) /\ table' = Stored(h)
  BY ExecutionAssumption DEF TypeInv, TypeOK, Jobs, Store
<1>2. job[h].code \in Codes /\ table[job[h].code] \in ValveRow \cup {NoRow}
  BY <1>1 DEF Job
<1>3. CASE job[h].op = "create"
  <2>1. table[job[h].code] = NoRow /\ table'[job[h].code] = job[h].item
    BY <1>1, <1>2, <1>3 DEF StoreHits, Stored, Versioned
  <2>2. job[h].item.version = 1
    <3>1. PICK d \in Data : job[h].item = NewRow("planned", d)
      BY <1>1, <1>3, Zenon DEF Computed
    <3>2. NewRow("planned", d).version = 1
      BY DEF NewRow
    <3> QED
      BY <3>1, <3>2
  <2> QED
    BY <1>3, <2>1, <2>2 DEF Inserts
<1>4. CASE job[h].op = "delete"
  <2>1. Live(table[job[h].code])
    BY <1>1, <1>4 DEF StoreHits, Versioned
  <2>2. table'[job[h].code] = [table[job[h].code] EXCEPT !.deleted = TRUE]
    BY <1>1, <1>2, <1>4 DEF Stored
  <2> QED
    BY <1>2, <1>4, <2>1, <2>2 DEF Marks, Live
<1>5. CASE job[h].op \in Versioned
  <2>1. /\ Live(table[job[h].code])
        /\ table[job[h].code].version = job[h].item.version - 1
    BY <1>1, <1>5 DEF StoreHits, Versioned
  <2>2. table'[job[h].code] = job[h].item
    BY <1>1, <1>2, <1>5 DEF Stored, Versioned
  <2>3. table[job[h].code] \in ValveRow
    BY <1>2, <2>1 DEF Live
  <2>4. job[h].item.version \in Nat /\ table[job[h].code].version \in Nat
    BY <1>1, <2>3 DEF Job, ValveRow
  <2>5. job[h].item.version = table[job[h].code].version + 1
    BY <2>1, <2>4
  <2> QED
    BY <1>5, <2>1, <2>2, <2>3, <2>5 DEF Replaces, Live
<1> QED
  BY <1>1, <1>3, <1>4, <1>5 DEF Job, Operations

\* A row stays, becomes its next version, or is marked as deleted.
LEMMA RowsAdvance ==
    ASSUME TypeInv, [Next]_vars, NEW c \in Codes, table[c] # NoRow
    PROVE  \/ table'[c] = table[c]
           \/ /\ ~table[c].deleted
              /\ table'[c] = [table[c] EXCEPT !.deleted = TRUE]
           \/ /\ ~table[c].deleted
              /\ ~table'[c].deleted
              /\ table'[c].version = table[c].version + 1
<1>1. CASE table' = table
  BY <1>1
<1>2. CASE table' # table
  BY <1>2, TableChange, StoredAdvances
<1> QED
  BY <1>1, <1>2

\* What an entry says has been done to the row.
Written(a, row) ==
    /\ row \in ValveRow
    /\ IF a.write = 0 THEN row.deleted ELSE a.write <= row.version

LEMMA WrittenStays ==
    ASSUME TypeInv, [Next]_vars, NEW a \in AuditLog, Written(a, table[a.code])
    PROVE  Written(a, table'[a.code])
<1>1. /\ a.code \in Codes /\ a.write \in Nat
      /\ table[a.code] \in ValveRow /\ table[a.code] # NoRow
  BY ValveRecordsAssumption DEF AuditLog, Written
<1>2. TypeInv'
  BY NextTypeInv
<1>3. table'[a.code] \in ValveRow
  <2>1. table'[a.code] \in ValveRow \cup {NoRow}
    BY <1>1, <1>2 DEF TypeInv, TypeOK
  <2>2. table'[a.code] # NoRow
    <3>1. CASE table' = table
      BY <1>1, <3>1
    <3>2. CASE table' # table
      <4>1. PICK h \in Handlers :
              pc[h] = "prepared" /\ StoreHits(h) /\ table' = Stored(h)
        BY <3>2, TableChange
      <4>2. job[h] \in Job /\ job[h].item # NoRow
        BY <4>1, ValveRecordsAssumption DEF TypeInv, TypeOK, Job
      <4>3. [table[a.code] EXCEPT !.deleted = TRUE] \in ValveRow
        BY <1>1 DEF ValveRow
      <4> QED
        BY <1>1, <4>1, <4>2, <4>3, ValveRecordsAssumption DEF Stored, TypeInv, TypeOK
    <3> QED
      BY <3>1, <3>2
  <2> QED
    BY <2>1, <2>2
<1>4. table[a.code].version \in Nat
  BY <1>1 DEF ValveRow
<1>5. CASE table'[a.code] = table[a.code]
  BY <1>5
<1>6. CASE table'[a.code] = [table[a.code] EXCEPT !.deleted = TRUE]
  <2>1. table'[a.code].version = table[a.code].version /\ table'[a.code].deleted
    BY <1>1, <1>6 DEF ValveRow
  <2> QED
    BY <1>3, <2>1 DEF Written
<1>7. CASE /\ ~table[a.code].deleted
           /\ table'[a.code].version = table[a.code].version + 1
  BY <1>1, <1>3, <1>4, <1>7 DEF Written
<1> QED
  BY <1>1, <1>5, <1>6, <1>7, RowsAdvance

\* The entry of a write says of the row what is true of it, and no entry
\* says as much before.
LEMMA StoreIsWritten ==
    ASSUME TypeInv, [Next]_vars, NEW h \in Handlers, Store(h)
    PROVE  Written(EntryOf(job[h]), table'[job[h].code])
<1>1. job[h] \in Job
  BY DEF TypeInv, TypeOK, Store
<1>2. job[h].item \in ValveRow /\ job[h].item.version \in Nat \ {0}
  BY <1>1 DEF Job, ValveRow
<1>3. /\ EntryOf(job[h]).write = IF job[h].op = "delete" THEN 0 ELSE job[h].item.version
  BY DEF EntryOf
<1>4. CASE Marks(job[h], table[job[h].code], table'[job[h].code])
  BY <1>3, <1>4 DEF Marks, Written, ValveRow
<1>5. CASE \/ Inserts(job[h], table[job[h].code], table'[job[h].code])
           \/ Replaces(job[h], table[job[h].code], table'[job[h].code])
  <2>1. table'[job[h].code] = job[h].item /\ job[h].op # "delete"
    BY <1>5 DEF Inserts, Replaces, Versioned
  <2> QED
    BY <1>2, <1>3, <2>1 DEF Written
<1> QED
  BY <1>4, <1>5, StoreEffect

LEMMA StoreIsNew ==
    ASSUME TypeInv, NEW h \in Handlers, Store(h),
           NEW a \in AuditLog, Written(a, table[a.code]), a.code = job[h].code
    PROVE  a.write # EntryOf(job[h]).write
<1>1. job[h] \in Job /\ table[a.code] \in ValveRow /\ table[a.code] # NoRow
  BY ValveRecordsAssumption DEF TypeInv, TypeOK, Store, Written
<1>2. /\ job[h].item.version \in Nat \ {0}
      /\ table[a.code].version \in Nat
      /\ a.write \in Nat
  BY <1>1 DEF Job, ValveRow, AuditLog
<1>3. EntryOf(job[h]).write = IF job[h].op = "delete" THEN 0 ELSE job[h].item.version
  BY DEF EntryOf
<1>4. CASE Marks(job[h], table[job[h].code], table'[job[h].code])
  BY <1>3, <1>4 DEF Marks, Written
<1>5. CASE Replaces(job[h], table[job[h].code], table'[job[h].code])
  BY <1>2, <1>3, <1>5 DEF Replaces, Written, Versioned
<1>6. ~Inserts(job[h], table[job[h].code], table'[job[h].code])
  BY <1>1 DEF Inserts
<1> QED
  BY <1>4, <1>5, <1>6, StoreEffect

------------------------------------------------------------------------------
(***************************************************************************)
(* Nothing is audited that was not written, and nothing twice.             *)
(***************************************************************************)
SameWrite(a, b) == a.code = b.code /\ a.write = b.write

RowsBearTrail ==
    \A a \in AuditLog : InTrail(a) => Written(a, table[a.code])

Distinct ==
    /\ \A i, j \in DOMAIN audits : i # j => ~SameWrite(audits[i], audits[j])
    /\ \A i \in DOMAIN audits, h \in Handlers :
          pc[h] = "stored" => ~SameWrite(audits[i], EntryOf(job[h]))
    /\ \A g, h \in Handlers :
          g # h /\ pc[g] = "stored" /\ pc[h] = "stored" =>
              ~SameWrite(EntryOf(job[g]), EntryOf(job[h]))

PhantomInv == TypeInv /\ RowsBearTrail /\ Distinct

LEMMA EntryCode ==
    ASSUME NEW j
    PROVE  EntryOf(j).code = j.code
  BY DEF EntryOf

LEMMA NextRowsBearTrail ==
    ASSUME TypeInv, RowsBearTrail, [Next]_vars
    PROVE  RowsBearTrail'
<1> SUFFICES ASSUME NEW a \in AuditLog, InTrail(a)'
             PROVE  Written(a, table'[a.code])
  BY DEF RowsBearTrail
<1>1. CASE InTrail(a)
  BY <1>1, WrittenStays DEF RowsBearTrail
<1>2. ASSUME NEW h \in Handlers, Store(h), a = EntryOf(job[h])
      PROVE  Written(a, table'[a.code])
  BY <1>2, StoreIsWritten, EntryCode
<1> QED
  BY <1>1, <1>2, TrailGrows

\* The entry of a write is one the trail does not have yet.
LEMMA StoreIsDistinct ==
    ASSUME TypeInv, RowsBearTrail, NEW h \in Handlers, Store(h),
           NEW a, InTrail(a)
    PROVE  ~SameWrite(a, EntryOf(job[h])) /\ ~SameWrite(EntryOf(job[h]), a)
<1>1. a \in AuditLog /\ Written(a, table[a.code])
  BY TrailType DEF RowsBearTrail
<1> QED
  BY <1>1, StoreIsNew, EntryCode DEF SameWrite

LEMMA NextDistinct ==
    ASSUME PhantomInv, [Next]_vars
    PROVE  Distinct'
<1>0. TypeInv /\ TypeOK /\ RowsBearTrail /\ Distinct
  BY DEF PhantomInv, TypeInv
<1>1. CASE UNCHANGED vars
  BY <1>0, <1>1 DEF vars, serviceVars, Distinct
<1>2. CASE Crash
  BY <1>0, <1>2 DEF Crash, Distinct
<1>3. ASSUME NEW h \in Handlers, UNCHANGED audits, pc'[h] # "stored", Others(h)
      PROVE  Distinct'
  BY <1>0, <1>3 DEF Distinct, Others
<1>4. ASSUME NEW h \in Handlers, Begin(h)
      PROVE  Distinct'
  <2>1. UNCHANGED audits /\ pc'[h] # "stored" /\ Others(h)
    BY <1>0, <1>4, BeginSteps
  <2> QED
    BY <2>1, <1>3
<1>5. ASSUME NEW h \in Handlers, Conflict(h) \/ StoreFails(h) \/ Reply(h)
      PROVE  Distinct'
  <2>1. UNCHANGED audits /\ pc'[h] # "stored" /\ Others(h)
    BY <1>0, <1>5, EndingSteps
  <2> QED
    BY <2>1, <1>3
<1>6. ASSUME NEW h \in Handlers, Store(h)
      PROVE  Distinct'
  <2>1. UNCHANGED <<audits, job>> /\ Others(h)
    BY <1>0, <1>6, StoreSteps
  <2>2. ASSUME NEW i \in DOMAIN audits
        PROVE  ~SameWrite(audits[i], EntryOf(job[h]))
    <3>1. InTrail(audits[i])
      BY DEF InTrail
    <3> QED
      BY <1>0, <1>6, <3>1, StoreIsDistinct
  <2>3. ASSUME NEW g \in Handlers, pc[g] = "stored"
        PROVE  /\ ~SameWrite(EntryOf(job[g]), EntryOf(job[h]))
               /\ ~SameWrite(EntryOf(job[h]), EntryOf(job[g]))
    <3>1. InTrail(EntryOf(job[g]))
      BY <2>3 DEF InTrail
    <3> QED
      BY <1>0, <1>6, <3>1, StoreIsDistinct
  <2> QED
    BY <1>0, <2>1, <2>2, <2>3 DEF Distinct, Others
<1>7. ASSUME NEW h \in Handlers, RecordAudit(h) \/ AuditFails(h)
      PROVE  Distinct'
  <2> DEFINE e == EntryOf(job[h])
  <2>1. /\ pc[h] = "stored" /\ pc'[h] # "stored" /\ Others(h)
        /\ audits' \in {audits, Append(audits, e)}
    BY <1>0, <1>7, RecordingSteps
  <2>2. audits \in Seq(AuditLog) /\ e \in AuditLog
    BY <1>0, <2>1, AuditEntryType, AuditEntryIsOfJob DEF TypeInv, TypeOK
  <2>3. CASE audits' = audits
    BY <1>0, <2>1, <2>3 DEF Distinct, Others
  <2>4. CASE audits' = Append(audits, e)
    <3>1. ASSUME NEW i \in DOMAIN audits
          PROVE  ~SameWrite(audits[i], e) /\ ~SameWrite(e, audits[i])
      BY <1>0, <2>1 DEF Distinct, SameWrite
    <3>2. ASSUME NEW g \in Handlers, pc'[g] = "stored"
          PROVE  /\ pc[g] = "stored" /\ job'[g] = job[g]
                 /\ ~SameWrite(e, EntryOf(job'[g]))
      <4>1. g # h /\ pc[g] = "stored" /\ job'[g] = job[g]
        BY <2>1, <3>2 DEF Others
      <4> QED
        BY <1>0, <2>1, <4>1 DEF Distinct
    <3> HIDE DEF e
    <3>3. /\ DOMAIN audits' = 1..Len(audits) + 1
          /\ DOMAIN audits = 1..Len(audits)
          /\ Len(audits) \in Nat
          /\ \A i \in 1..Len(audits) : audits'[i] = audits[i]
          /\ audits'[Len(audits) + 1] = e
      BY <2>2, <2>4, AppendHas
    <3>4. \A i \in DOMAIN audits' :
             \/ i \in DOMAIN audits /\ audits'[i] = audits[i]
             \/ i = Len(audits) + 1 /\ audits'[i] = e
      BY <3>3
    <3>5. \A i, j \in DOMAIN audits' : i # j => ~SameWrite(audits'[i], audits'[j])
      BY <1>0, <3>1, <3>4 DEF Distinct
    <3>6. \A i \in DOMAIN audits', g \in Handlers :
             pc'[g] = "stored" => ~SameWrite(audits'[i], EntryOf(job'[g]))
      BY <1>0, <3>2, <3>4 DEF Distinct
    <3>7. \A f, g \in Handlers :
             f # g /\ pc'[f] = "stored" /\ pc'[g] = "stored" =>
                ~SameWrite(EntryOf(job'[f]), EntryOf(job'[g]))
      BY <1>0, <3>2 DEF Distinct
    <3> QED
      BY <3>5, <3>6, <3>7 DEF Distinct
  <2> QED
    BY <2>1, <2>3, <2>4
<1> QED
  BY <1>1, <1>2, <1>4, <1>5, <1>6, <1>7 DEF Next, Step

LEMMA InitTrail ==
    ASSUME Init
    PROVE  DOMAIN audits = {} /\ \A a : ~InTrail(a)
<1>1. DOMAIN audits = {}
  BY DEF Init
<1> QED
  BY <1>1 DEF Init, InTrail

LEMMA PhantomInvariant == Spec => []PhantomInv
<1>1. Init => PhantomInv
  BY InitTypeInv, InitTrail DEF Init, PhantomInv, RowsBearTrail, Distinct
<1>2. PhantomInv /\ [Next]_vars => PhantomInv'
  BY NextTypeInv, NextRowsBearTrail, NextDistinct DEF PhantomInv
<1> QED
  BY <1>1, <1>2, PTL DEF Spec

\* Whatever fails and whatever versions clients send, nothing is in the audit
\* log that was not written, and nothing twice (the calls of Audit follow the
\* write, lines 62, 90, 113, 141, 178, 192).
THEOREM NothingIsInvented == Spec => []NoPhantomAudit
<1>1. PhantomInv => NoPhantomAudit
  <2> SUFFICES ASSUME PhantomInv, NEW i \in DOMAIN audits
               PROVE  LET a == audits[i]
                          row == table[a.code]
                      IN  /\ row # NoRow
                          /\ IF a.write = 0 THEN row.deleted ELSE a.write <= row.version
                          /\ \A j \in DOMAIN audits \ {i} :
                                <<audits[j].code, audits[j].write>> # <<a.code, a.write>>
    BY DEF NoPhantomAudit
  <2>1. InTrail(audits[i])
    BY DEF InTrail
  <2>2. Written(audits[i], table[audits[i].code])
    BY <2>1, TrailType DEF PhantomInv, RowsBearTrail
  <2> QED
    BY <2>2, ValveRecordsAssumption DEF PhantomInv, Distinct, SameWrite, Written
<1> QED
  BY <1>1, PhantomInvariant, PTL

------------------------------------------------------------------------------
(***************************************************************************)
(* The trail is a walk, when clients send versions they have read: the     *)
(* entry of the latest write ends in the status the row has, and the next  *)
(* write starts from the row as it is.                                     *)
(***************************************************************************)
EndsIn(a, row) ==
    a.write > 0 /\ a.write = row.version => a.after = row.status

Follows(a, b) ==
    a.code = b.code /\ a.write > 0 /\ b.write = a.write + 1 => b.before = a.after

WalkInv ==
    /\ FreshInv
    /\ RowsBearTrail
    /\ \A a \in AuditLog : InTrail(a) => EndsIn(a, table[a.code])
    /\ \A a, b \in AuditLog : InTrail(a) /\ InTrail(b) => Follows(a, b)

\* Two handlers do not write in one step.
LEMMA OneStores ==
    ASSUME TypeOK, NEW g \in Handlers, NEW h \in Handlers, Store(g), Store(h)
    PROVE  g = h
  BY DEF Store, TypeOK

\* What the entry of a write that is not a delete says.
LEMMA StoredEntry ==
    ASSUME FreshInv, NEW h \in Handlers, Store(h)
    PROVE  LET row == table[job[h].code]
               e == EntryOf(job[h])
           IN  \/ e.write = 0
               \/ /\ e.write \in Nat \ {0}
                  /\ table'[job[h].code].version = e.write
                  /\ table'[job[h].code].status = e.after
                  /\ \/ row = NoRow
                     \/ /\ row \in ValveRow
                        /\ e.write = row.version + 1
                        /\ e.before = row.status
<1>1. TypeInv /\ job[h] \in Job /\ pc[h] = "prepared" /\ StoreHits(h)
  BY DEF FreshInv, TypeInv, TypeOK, Store
<1>2. job[h].item \in ValveRow /\ job[h].item.version \in Nat \ {0}
  BY <1>1 DEF Job, ValveRow
<1>3. CASE Marks(job[h], table[job[h].code], table'[job[h].code])
  BY <1>3 DEF Marks, EntryOf
<1>4. CASE Inserts(job[h], table[job[h].code], table'[job[h].code])
  BY <1>2, <1>4 DEF Inserts, EntryOf
<1>5. CASE Replaces(job[h], table[job[h].code], table'[job[h].code])
  <2>1. table[job[h].code] = job[h].read
    BY <1>1, <1>5, FreshHit DEF Replaces
  <2> QED
    BY <1>2, <1>5, <2>1 DEF Replaces, EntryOf, Versioned
<1> QED
  BY <1>1, <1>3, <1>4, <1>5, StoreEffect

LEMMA NextEndsIn ==
    ASSUME WalkInv, [Next]_vars, NEW a \in AuditLog, InTrail(a)'
    PROVE  EndsIn(a, table'[a.code])
<1>0. TypeInv /\ a.code \in Codes /\ a.write \in Nat
  BY DEF WalkInv, FreshInv, AuditLog
<1>1. CASE InTrail(a)
  <2>1. Written(a, table[a.code]) /\ EndsIn(a, table[a.code])
    BY <1>1 DEF WalkInv, RowsBearTrail
  <2>2. /\ table[a.code] \in ValveRow /\ table[a.code] # NoRow
        /\ table[a.code].version \in Nat
    BY <2>1, ValveRecordsAssumption DEF Written, ValveRow
  <2>3. CASE table'[a.code] = table[a.code]
    BY <2>1, <2>3
  <2>4. CASE table'[a.code] = [table[a.code] EXCEPT !.deleted = TRUE]
    <3>1. /\ table'[a.code].version = table[a.code].version
          /\ table'[a.code].status = table[a.code].status
      BY <2>2, <2>4 DEF ValveRow
    <3> QED
      BY <2>1, <3>1 DEF EndsIn
  <2>5. CASE table'[a.code].version = table[a.code].version + 1
    BY <1>0, <2>1, <2>2, <2>5 DEF EndsIn, Written
  <2> QED
    BY <1>0, <2>2, <2>3, <2>4, <2>5, RowsAdvance
<1>2. ASSUME NEW h \in Handlers, Store(h), a = EntryOf(job[h])
      PROVE  EndsIn(a, table'[a.code])
  <2>1. FreshInv /\ a.code = job[h].code
    BY <1>2, EntryCode DEF WalkInv
  <2> QED
    BY <1>0, <1>2, <2>1, StoredEntry DEF EndsIn
<1> QED
  BY <1>0, <1>1, <1>2, TrailGrows

LEMMA NextFollows ==
    ASSUME WalkInv, [Next]_vars, NEW a \in AuditLog, NEW b \in AuditLog,
           InTrail(a)', InTrail(b)'
    PROVE  Follows(a, b)
<1>0. /\ FreshInv /\ TypeInv /\ TypeOK
      /\ a.write \in Nat /\ b.write \in Nat
  BY DEF WalkInv, FreshInv, TypeInv, AuditLog
<1> SUFFICES ASSUME a.code = b.code, a.write > 0, b.write = a.write + 1
             PROVE  b.before = a.after
  BY DEF Follows
<1>1. CASE InTrail(a) /\ InTrail(b)
  BY <1>1 DEF WalkInv, Follows
<1>2. ASSUME NEW h \in Handlers, Store(h), b = EntryOf(job[h]), InTrail(a)
      PROVE  b.before = a.after
  <2>1. Written(a, table[a.code]) /\ EndsIn(a, table[a.code])
    BY <1>2 DEF WalkInv, RowsBearTrail
  <2>2. /\ table[a.code] \in ValveRow /\ table[a.code] # NoRow
        /\ table[a.code].version \in Nat
    BY <2>1, ValveRecordsAssumption DEF Written, ValveRow
  <2>3. a.code = job[h].code
    BY <1>2, EntryCode
  <2>4. b.write = table[a.code].version + 1 /\ b.before = table[a.code].status
    BY <1>0, <1>2, <2>2, <2>3, StoredEntry
  <2> QED
    BY <1>0, <2>1, <2>2, <2>4 DEF EndsIn
<1>3. ASSUME NEW h \in Handlers, Store(h), a = EntryOf(job[h]), InTrail(b)
      PROVE  FALSE
  <2>1. Written(b, table[b.code])
    BY <1>3 DEF WalkInv, RowsBearTrail
  <2>2. /\ table[b.code] \in ValveRow /\ table[b.code] # NoRow
        /\ table[b.code].version \in Nat
    BY <2>1, ValveRecordsAssumption DEF Written, ValveRow
  <2>3. b.code = job[h].code
    BY <1>3, EntryCode
  <2>4. a.write = table[b.code].version + 1
    BY <1>0, <1>3, <2>2, <2>3, StoredEntry
  <2> QED
    BY <1>0, <2>1, <2>2, <2>4 DEF Written
<1>4. ASSUME NEW g \in Handlers, NEW h \in Handlers, Store(g), Store(h),
             a = EntryOf(job[g]), b = EntryOf(job[h])
      PROVE  FALSE
  <2>1. a = b
    BY <1>0, <1>4, OneStores
  <2> QED
    BY <1>0, <2>1
<1> QED
  BY <1>0, <1>1, <1>2, <1>3, <1>4, TrailGrows

LEMMA WalkInvariant ==
    ASSUME Predicted = {}
    PROVE  Spec => []WalkInv
<1>1. Init => WalkInv
  <2>1. Init => FreshInv
    BY InitTypeInv DEF Init, FreshInv
  <2> QED
    BY <2>1, InitTrail DEF WalkInv, RowsBearTrail
<1>2. WalkInv /\ [Next]_vars => WalkInv'
  <2> SUFFICES ASSUME WalkInv, [Next]_vars PROVE WalkInv'
    OBVIOUS
  <2>1. FreshInv' /\ RowsBearTrail'
    BY NextFreshInv, NextRowsBearTrail DEF WalkInv, FreshInv
  <2> QED
    BY <2>1, NextEndsIn, NextFollows DEF WalkInv
<1> QED
  BY <1>1, <1>2, PTL DEF Spec

\* When clients send versions they have read, each entry of a record starts
\* in the status the one before it ended in, whatever fails and in whatever
\* order they were recorded.
THEOREM TrailWalks ==
    ASSUME Predicted = {}
    PROVE  Spec => []TrailIsAWalk
<1>1. WalkInv => TrailIsAWalk
  <2> SUFFICES ASSUME WalkInv, NEW i \in DOMAIN audits, NEW j \in DOMAIN audits
               PROVE  Follows(audits[i], audits[j])
    BY DEF TrailIsAWalk, Follows
  <2>1. InTrail(audits[i]) /\ InTrail(audits[j])
    BY DEF InTrail
  <2> QED
    BY <2>1, TrailType DEF WalkInv, FreshInv
<1> QED
  BY <1>1, WalkInvariant, PTL

------------------------------------------------------------------------------
(***************************************************************************)
(* The trail has every write, when nothing fails.                          *)
(***************************************************************************)
Noted(c, w) == \E a \in AuditLog : InTrail(a) /\ a.code = c /\ a.write = w

AllNoted(c) ==
    /\ Seeded[c] = "absent"
    /\ table[c] # NoRow
    => /\ \A v \in 1..table[c].version : Noted(c, v)
       /\ table[c].deleted => Noted(c, 0)

CompleteInv == TypeInv /\ \A c \in Codes : AllNoted(c)

LEMMA NotedStays ==
    ASSUME Faults = {}, TypeInv, [Next]_vars, NEW c, NEW w, Noted(c, w)
    PROVE  Noted(c, w)'
<1>1. PICK a \in AuditLog : InTrail(a) /\ a.code = c /\ a.write = w
  BY DEF Noted
<1>2. InTrail(a)'
  BY <1>1, TrailStays
<1> QED
  BY <1>1, <1>2 DEF Noted

LEMMA EntryType ==
    ASSUME NEW j \in Job, Computed(j)
    PROVE  EntryOf(j) \in AuditLog
<1>1. /\ j.code \in Codes
      /\ j.op \in Operations
      /\ j.actor \in Users
      /\ j.item.version \in Nat
      /\ j.item.status \in ExecutionStates
      /\ j.op # "create" => j.read.status \in ExecutionStates
  BY DEF Job, ValveRow, Computed
<1> QED
  BY <1>1 DEF EntryOf, AuditLog

\* A write leaves its handler about to record it.
LEMMA StoreIsNoted ==
    ASSUME TypeInv, NEW h \in Handlers, Store(h),
           NEW c, NEW w, c = job[h].code, w = EntryOf(job[h]).write
    PROVE  Noted(c, w)'
<1>1. /\ UNCHANGED job /\ pc'[h] = "stored"
      /\ job[h] \in Job /\ Computed(job[h])
  BY StoreSteps, ExecutionAssumption DEF TypeInv, TypeOK, Jobs, Store
<1>2. PICK e \in AuditLog : e = EntryOf(job[h])
  BY <1>1, EntryType
<1>3. InTrail(e)'
  BY <1>1, <1>2 DEF InTrail
<1>4. e.code = job[h].code
  BY <1>2, EntryCode
<1> QED
  BY <1>1, <1>2, <1>3, <1>4 DEF Noted

LEMMA NextAllNoted ==
    ASSUME Faults = {}, CompleteInv, [Next]_vars, NEW c \in Codes
    PROVE  AllNoted(c)'
<1>0. TypeInv /\ AllNoted(c)
  BY DEF CompleteInv
<1>1. CASE table'[c] = table[c]
  BY <1>0, <1>1, NotedStays DEF AllNoted
<1>2. CASE table'[c] # table[c]
  <2>1. PICK h \in Handlers : Store(h)
    <3>1. ~(\E h \in Handlers : Begin(h) \/ RecordAudit(h) \/ AuditFails(h))
      BY <1>0, <1>2, BeginSteps, RecordingSteps DEF TypeInv
    <3> QED
      BY <1>2, <3>1 DEF Next, Step, Conflict, StoreFails, Reply, Crash, vars,
                        serviceVars
  <2>2. /\ job[h] \in Job /\ table' = Stored(h)
        /\ table \in [Codes -> ValveRow \cup {NoRow}]
    BY <1>0, <2>1 DEF TypeInv, TypeOK, Store
  <2>3. c = job[h].code
    BY <1>2, <2>2 DEF Stored
  <2>4. PICK w : w = EntryOf(job[h]).write
    OBVIOUS
  <2>5. Noted(c, w)'
    BY <1>0, <2>1, <2>3, <2>4, StoreIsNoted
  <2>6. CASE Inserts(job[h], table[c], table'[c])
    <3>1. w = 1 /\ table'[c].version = 1
      BY <2>4, <2>6 DEF Inserts, EntryOf
    <3>2. ~table'[c].deleted
      <4>1. Computed(job[h]) /\ job[h].op = "create"
        BY <1>0, <2>2, <2>6, ExecutionAssumption DEF TypeInv, Jobs, Inserts
      <4>2. PICK d \in Data : job[h].item = NewRow("planned", d)
        BY <4>1, Zenon DEF Computed
      <4>3. ~job[h].item.deleted
        BY <4>2 DEF NewRow
      <4> QED
        BY <2>6, <4>3 DEF Inserts
    <3>3. \A v \in 1..table'[c].version : v = w
      BY <3>1
    <3> QED
      BY <2>5, <3>2, <3>3 DEF AllNoted
  <2>7. CASE Marks(job[h], table[c], table'[c])
    <3>1. /\ w = 0
          /\ table'[c].version = table[c].version
          /\ table[c] # NoRow
      BY <2>4, <2>7, ValveRecordsAssumption DEF Marks, EntryOf, ValveRow
    <3>2. Noted(c, 0)'
      BY <2>5, <3>1
    <3>3. ASSUME Seeded[c] = "absent"
          PROVE  \A v \in 1..table'[c].version : Noted(c, v)'
      BY <1>0, <3>1, <3>3, NotedStays DEF AllNoted
    <3> QED
      BY <3>2, <3>3 DEF AllNoted
  <2>8. CASE Replaces(job[h], table[c], table'[c])
    <3>1. /\ w = table[c].version + 1
          /\ table'[c].version = table[c].version + 1
          /\ table[c] # NoRow /\ table[c].version \in Nat
      BY <2>4, <2>8, ValveRecordsAssumption DEF Replaces, EntryOf, ValveRow, Versioned
    <3>2. ~table'[c].deleted
      <4>1. /\ pc[h] = "prepared" /\ StoreHits(h)
            /\ ~table[c].deleted /\ table[c].version # table'[c].version
        BY <2>1, <2>8, <3>1 DEF Store, Replaces
      <4> QED
        BY <1>0, <1>2, <2>2, <3>1, <4>1, StoredAdvances DEF ValveRow, Replaces
    <3>3. \A v \in 1..table'[c].version : v \in 1..table[c].version \/ v = w
      BY <3>1
    <3>4. ASSUME Seeded[c] = "absent"
          PROVE  \A v \in 1..table'[c].version : Noted(c, v)'
      <4>1. \A v \in 1..table[c].version : Noted(c, v)'
        BY <1>0, <3>1, <3>4, NotedStays DEF AllNoted
      <4> QED
        BY <2>5, <3>3, <4>1
    <3> QED
      BY <3>2, <3>4 DEF AllNoted
  <2> QED
    BY <1>0, <2>1, <2>3, <2>6, <2>7, <2>8, StoreEffect
<1> QED
  BY <1>1, <1>2

LEMMA InitAllNoted ==
    ASSUME Init, NEW c \in Codes
    PROVE  AllNoted(c)
  BY DEF Init, AllNoted

\* Without faults every write of a record that the API created is in the
\* audit log, or its handler is about to record it, for any number of
\* handlers and whatever versions clients send (README.md:44).
THEOREM TrailHasEveryWrite ==
    ASSUME Faults = {}
    PROVE  Spec => []TrailComplete
<1>1. Init => CompleteInv
  BY InitTypeInv, InitAllNoted DEF CompleteInv
<1>2. CompleteInv /\ [Next]_vars => CompleteInv'
  BY NextTypeInv, NextAllNoted DEF CompleteInv
<1>3. CompleteInv => TrailComplete
  <2>1. ASSUME NEW c, NEW w, Noted(c, w)
        PROVE  Audited(c, w) \/ Auditing(c, w)
    BY <2>1, AuditEntryIsOfJob DEF Noted, InTrail, Audited, Auditing
  <2> QED
    BY <2>1 DEF CompleteInv, AllNoted, TrailComplete
<1> QED
  BY <1>1, <1>2, <1>3, PTL DEF Spec

------------------------------------------------------------------------------
(***************************************************************************)
(* A successful answer to a status change has its entry.                   *)
(***************************************************************************)
Answering(h) == pc[h] = "replying" /\ job[h].op \notin {"create", "update"}

SuccessInv ==
    /\ TypeInv
    /\ \A h \in Handlers :
          Answering(h) => \E i \in DOMAIN audits : SameWrite(audits[i], EntryOf(job[h]))

\* The log only grows.
LEMMA LogGrows ==
    ASSUME TypeInv, [Next]_vars
    PROVE  \A i \in DOMAIN audits : i \in DOMAIN audits' /\ audits'[i] = audits[i]
<1>0. TypeOK
  BY DEF TypeInv
<1>1. ASSUME NEW h \in Handlers, RecordAudit(h) \/ AuditFails(h)
      PROVE  \A i \in DOMAIN audits : i \in DOMAIN audits' /\ audits'[i] = audits[i]
  <2>1. /\ pc[h] = "stored"
        /\ audits' \in {audits, Append(audits, EntryOf(job[h]))}
    BY <1>0, <1>1, RecordingSteps
  <2>2. PICK e \in AuditLog : e = EntryOf(job[h])
    BY <2>1, AuditEntryType, AuditEntryIsOfJob DEF TypeInv
  <2>3. audits \in Seq(AuditLog) /\ audits' \in {audits, Append(audits, e)}
    BY <1>0, <2>1, <2>2 DEF TypeOK
  <2> QED
    BY <2>3, AppendHas
<1>2. ASSUME NEW h \in Handlers, Begin(h)
      PROVE  audits' = audits
  BY <1>0, <1>2, BeginSteps
<1> QED
  BY <1>1, <1>2
     DEF Next, Step, Store, Conflict, StoreFails, Reply, Crash, vars, serviceVars

LEMMA NextSuccess ==
    ASSUME SuccessInv, [Next]_vars, NEW h \in Handlers, Answering(h)'
    PROVE  \E i \in DOMAIN audits' : SameWrite(audits'[i], EntryOf(job'[h]))
<1>0. TypeInv /\ TypeOK
  BY DEF SuccessInv, TypeInv
<1>1. CASE Answering(h) /\ job'[h] = job[h]
  BY <1>1, <1>0, LogGrows DEF SuccessInv
<1>2. CASE RecordAudit(h)
  <2>1. /\ pc[h] = "stored" /\ job' = job
        /\ audits' = Append(audits, EntryOf(job[h]))
    BY <1>0, <1>2, RecordingSteps DEF RecordAudit
  <2>2. PICK e \in AuditLog : e = EntryOf(job[h])
    BY <1>0, <2>1, AuditEntryType, AuditEntryIsOfJob DEF TypeInv
  <2>3. audits \in Seq(AuditLog) /\ audits' = Append(audits, e)
    BY <1>0, <2>1, <2>2 DEF TypeOK
  <2>4. Len(audits) + 1 \in DOMAIN audits' /\ audits'[Len(audits) + 1] = e
    BY <2>3, AppendHas
  <2> QED
    BY <2>1, <2>2, <2>4 DEF SameWrite
<1>3. pc'[h] = "replying" /\ job'[h].op \notin {"create", "update"}
  BY DEF Answering
<1>4. CASE ~RecordAudit(h)
  <2>1. ASSUME NEW g \in Handlers, Begin(g) \/ Step(g)
        PROVE  pc'[h] = pc[h] /\ job'[h] = job[h]
    <3>1. CASE g = h
      <4>1. ~Begin(h) /\ ~Store(h) /\ ~Conflict(h) /\ ~StoreFails(h) /\ ~Reply(h)
        BY <1>0, <1>3, BeginSteps, StoreSteps, EndingSteps
      <4>2. ~AuditFails(h)
        BY <1>0, <1>3 DEF AuditFails, Finish, TypeOK
      <4> QED
        BY <1>4, <2>1, <3>1, <4>1, <4>2 DEF Step
    <3>2. CASE g # h
      <4>1. Others(g)
        BY <1>0, <2>1, BeginSteps, StoreSteps, EndingSteps, RecordingSteps DEF Step
      <4> QED
        BY <3>2, <4>1 DEF Others
    <3> QED
      BY <3>1, <3>2
  <2>2. ~Crash
    BY <1>3 DEF Crash
  <2>3. pc'[h] = pc[h] /\ job'[h] = job[h]
    BY <2>1, <2>2 DEF Next, vars, serviceVars
  <2> QED
    BY <1>1, <1>3, <2>3 DEF Answering
<1> QED
  BY <1>2, <1>4

\* A change of status, a control step or a delete that is answered with
\* success has its audit entry, whatever fails (lines 113, 141, 178, 192).
THEOREM SuccessHasItsEntry == Spec => []SuccessIsAudited
<1>1. Init => SuccessInv
  BY InitTypeInv DEF Init, SuccessInv, Answering
<1>2. SuccessInv /\ [Next]_vars => SuccessInv'
  BY NextTypeInv, NextSuccess DEF SuccessInv
<1>3. SuccessInv => SuccessIsAudited
  BY AuditEntryIsOfJob DEF SuccessInv, SuccessIsAudited, Answering, Audited, SameWrite
<1> QED
  BY <1>1, <1>2, <1>3, PTL DEF Spec
===============================================================================
