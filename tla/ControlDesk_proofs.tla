------------------------- MODULE ControlDesk_proofs --------------------------
(***************************************************************************)
(* Proofs about ControlDesk for every value of its constants: any codes,   *)
(* accounts, roles and searches, and any number of calls under way.        *)
(***************************************************************************)
EXTENDS ControlDesk, TLAPS

(***************************************************************************)
(* Facts about the table that the service keeps.                           *)
(***************************************************************************)

\* The row of a new record is a row.
LEMMA NewRowType ==
    ASSUME NEW s \in ExecutionStates, NEW d \in Data
    PROVE  NewRow(s, d) \in ValveRow
  BY DEF NewRow, ValveRow

\* The graph of an execution does not leave its statuses.
LEMMA GraphStays ==
    ASSUME NEW s \in ExecutionStates
    PROVE  ValveExecutionTransitions[s] \subseteq ExecutionStates
  BY DEF ValveExecutionTransitions, ExecutionStates

LEMMA PutType ==
    ASSUME table \in Listing, NEW c \in Codes, NEW row \in ValveRow, Put(c, row)
    PROVE  table' \in Listing /\ table'[c] \in ValveRow
  BY DEF Put, Listing

\* How a step of the service changes the row of a record: it adds one to the
\* version of a live row, marks it deleted, or is the first row of its code.
Succeeds(row, next) ==
    \/ row = NoRow
    \/ /\ Live(row)
       /\ next.version = row.version + 1
    \/ /\ Live(row)
       /\ next = [row EXCEPT !.deleted = TRUE]

LEMMA StepOfOne ==
    ASSUME table \in Listing, NEW c \in Codes, Operation(c)
    PROVE  \E row \in ValveRow : Put(c, row) /\ Succeeds(table[c], row)
<1>1. CASE Create(c)
  BY <1>1, NewRowType DEF Create, Succeeds, ExecutionStates
<1>2. CASE Edit(c)
  <2>1. PICK d \in Data : Put(c, [table[c] EXCEPT !.data = d, !.version = @ + 1])
    BY <1>2 DEF Edit
  <2>2. table[c] \in ValveRow /\ Live(table[c])
    BY <1>2 DEF Edit, Live, Listing
  <2> DEFINE row == [table[c] EXCEPT !.data = d, !.version = @ + 1]
  <2>3. table[c].version + 1 \in Nat \ {0}
    BY <2>2 DEF ValveRow
  <2>4. row \in ValveRow
    BY <2>3, <2>2 DEF ValveRow
  <2>5. row.version = table[c].version + 1
    BY <2>2 DEF ValveRow
  <2>6. Put(c, row)
    BY <2>1
  <2> HIDE DEF row
  <2> QED
    BY <2>2, <2>4, <2>5, <2>6 DEF Succeeds
<1>3. ASSUME NEW s \in ExecutionStates, Move(c, s)
      PROVE  \E row \in ValveRow : Put(c, row) /\ Succeeds(table[c], row)
  <2>1. Put(c, [table[c] EXCEPT !.status = s, !.version = @ + 1])
    BY <1>3 DEF Move
  <2>2. table[c] \in ValveRow /\ Live(table[c])
    BY <1>3 DEF Move, MayMove, Live, Listing
  <2> DEFINE row == [table[c] EXCEPT !.status = s, !.version = @ + 1]
  <2>4. table[c].version + 1 \in Nat \ {0}
    BY <2>2 DEF ValveRow
  <2>5. row \in ValveRow
    BY <2>4, <2>2 DEF ValveRow
  <2>6. row.version = table[c].version + 1
    BY <2>2 DEF ValveRow
  <2>7. Put(c, row)
    BY <2>1
  <2> HIDE DEF row
  <2> QED
    BY <2>2, <2>5, <2>6, <2>7 DEF Succeeds
<1>4. ASSUME NEW u \in Users, AskForStart(c, u)
      PROVE  \E row \in ValveRow : Put(c, row) /\ Succeeds(table[c], row)
  <2>1. Put(c, [table[c] EXCEPT !.requestedBy = u, !.version = @ + 1])
    BY <1>4 DEF AskForStart
  <2>2. table[c] \in ValveRow /\ Live(table[c])
    BY <1>4 DEF AskForStart, MayAsk, Live, Listing
  <2> DEFINE row == [table[c] EXCEPT !.requestedBy = u, !.version = @ + 1]
  <2>3. table[c].version + 1 \in Nat \ {0}
    BY <2>2 DEF ValveRow
  <2>4. row \in ValveRow
    BY <2>3, <2>2 DEF ValveRow
  <2>5. row.version = table[c].version + 1
    BY <2>2 DEF ValveRow
  <2>6. Put(c, row)
    BY <2>1
  <2> HIDE DEF row
  <2> QED
    BY <2>2, <2>4, <2>5, <2>6 DEF Succeeds
<1>5. ASSUME NEW u \in Users, ConfirmStart(c, u)
      PROVE  \E row \in ValveRow : Put(c, row) /\ Succeeds(table[c], row)
  <2>1. Put(c, [table[c] EXCEPT !.status = "running", !.confirmedBy = u,
                                !.version = @ + 1])
    BY <1>5 DEF ConfirmStart
  <2>2. table[c] \in ValveRow /\ Live(table[c])
    BY <1>5 DEF ConfirmStart, MayConfirm, Live, Listing
  <2> DEFINE row == [table[c] EXCEPT !.status = "running", !.confirmedBy = u,
                                   !.version = @ + 1]
  <2>3. table[c].version + 1 \in Nat \ {0}
    BY <2>2 DEF ValveRow
  <2>4. row \in ValveRow
    BY <2>3, <2>2 DEF ValveRow, ExecutionStates
  <2>5. row.version = table[c].version + 1
    BY <2>2 DEF ValveRow
  <2>6. Put(c, row)
    BY <2>1
  <2> HIDE DEF row
  <2> QED
    BY <2>2, <2>4, <2>5, <2>6 DEF Succeeds
<1>6. CASE Remove(c)
  <2>1. table[c] \in ValveRow /\ Live(table[c])
    BY <1>6 DEF Remove, Live, Listing
  <2>2. [table[c] EXCEPT !.deleted = TRUE] \in ValveRow
    BY <2>1 DEF ValveRow
  <2> QED
    BY <1>6, <2>1, <2>2 DEF Remove, Succeeds
<1> QED
  BY <1>1, <1>2, <1>3, <1>4, <1>5, <1>6 DEF Operation

\* A command that the service performs is one of its steps.
LEMMA PerformedIsAStep ==
    ASSUME table \in Listing, NEW call, call.shown.code \in Codes, Performs(call)
    PROVE  Operation(call.shown.code)
<1> DEFINE c == call.shown.code
           u == call.token
<1>1. CASE call.op = "transition" /\ Move(c, call.to)
  <2>1. table[c] \in ValveRow /\ call.to \in ValveExecutionTransitions[table[c].status]
    BY <1>1 DEF Move, MayMove, Live, Listing
  <2>2. call.to \in ExecutionStates
    BY <2>1, GraphStays DEF ValveRow
  <2> QED
    BY <1>1, <2>2 DEF Operation
<1>2. CASE AskForStart(c, u) \/ ConfirmStart(c, u)
  <2>1. u \in Users
    BY <1>2 DEF AskForStart, MayAsk, ConfirmStart, MayConfirm, Callers
  <2> QED
    BY <1>2, <2>1 DEF Operation
<1> QED
  BY <1>1, <1>2 DEF Performs

LEMMA ControlStepType ==
    ASSUME table \in Listing, ControlNext
    PROVE  table' \in Listing
  BY StepOfOne, PutType DEF ControlNext

LEMMA PerformedType ==
    ASSUME table \in Listing, NEW call, call.shown.code \in Codes, Performs(call)
    PROVE  table' \in Listing
  BY PerformedIsAStep, StepOfOne, PutType

(***************************************************************************)
(* Calls.  What a call is depends on its operation: a login has the        *)
(* account that signs in, a command the record it was given for, an answer *)
(* what was asked for.                                                     *)
(***************************************************************************)
CallOK(call) ==
    /\ call \in Call
    /\ call.op = "login" => call.account \in Users
    /\ call.op = "create" => call.shown = NoItem
    /\ call.op \in Commands =>
          call.shown \in Item /\ call.expected = call.shown.row.version
    /\ call.after # "" => call.op = "load"
    /\ call.phase = "written" => call.op \in Commands
    /\ call.phase = "done" /\ call.op = "load" => call.result \in Listing
    /\ call.phase = "done" /\ call.op \in Commands => call.result \in Item

\* A call that its page waits for is a call of the page that is shown.
CallsOK ==
    /\ calls \in [Slots -> Call \cup {NoCall}]
    /\ \A s \in Slots :
          calls[s] # NoCall => CallOK(calls[s]) /\ (calls[s].open => PageShown)

DeskInv == TypeOK /\ CallsOK

LEMMA SentOK ==
    ASSUME NEW op \in {"login", "load", "create"}, NEW u \in Users \cup {NoUser},
           op = "login" => u \in Users, NEW t \in Users \cup {NoUser}
    PROVE  CallOK(Sent(op, u, t)) /\ ~Sent(op, u, t).open
  BY DEF Sent, CallOK, Call, Commands

LEMMA LoginOK ==
    ASSUME NEW u \in Users
    PROVE  CallOK(Login(u)) /\ ~Login(u).open
  BY SentOK DEF Login

LEMMA LoadOK ==
    ASSUME NEW t \in Users \cup {NoUser}, NEW after \in {"", "transition", "control"},
           NEW open \in BOOLEAN
    PROVE  CallOK(Load(t, after, open)) /\ Load(t, after, open).open = open
  BY DEF Load, Sent, CallOK, Call, Commands

LEMMA CommandOK ==
    ASSUME TypeOK, NEW op \in Commands, NEW item \in Item,
           NEW to \in ExecutionStates \cup {""}
    PROVE  CallOK(Command(op, item, to))
<1>1. item.row.version \in Nat
  BY DEF Item, ValveRow
<1> QED
  BY <1>1 DEF TypeOK, Command, Sent, CallOK, Call, Commands

AnsweredCall(call, phase, result) ==
    [call EXCEPT !.phase = phase, !.result = result, !.token = NoUser]

\* What becomes of a call that the service takes up.
Served == {"written", "done", "failed"}

ClosedCall(call) == [call EXCEPT !.open = FALSE]

\* What a call is for, which no answer and no closed page changes.
SamePurpose(call, other) ==
    /\ other.op = call.op
    /\ other.account = call.account
    /\ other.shown = call.shown
    /\ other.expected = call.expected
    /\ other.to = call.to
    /\ other.after = call.after

LEMMA AnsweredCallType ==
    ASSUME NEW call \in Call, NEW phase \in Served,
           NEW result \in Listing \cup Item \cup {NoItem}
    PROVE  /\ AnsweredCall(call, phase, result) \in Call
           /\ AnsweredCall(call, phase, result).open = call.open
           /\ AnsweredCall(call, phase, result).phase = phase
           /\ AnsweredCall(call, phase, result).result = result
           /\ SamePurpose(call, AnsweredCall(call, phase, result))
<1> DEFINE Fields == {"op", "account", "token", "shown", "expected", "to", "after",
                      "open", "phase", "result"}
           a == AnsweredCall(call, phase, result)
<1>1. DOMAIN call = Fields /\ call = [f \in Fields |-> call[f]]
  BY DEF Call
<1>2. phase \in {"sent", "written", "done", "failed"}
  BY DEF Served
<1>3. /\ a.phase = phase /\ a.result = result /\ a.token = NoUser
      /\ a.open = call.open
      /\ SamePurpose(call, a)
  BY <1>1 DEF AnsweredCall, SamePurpose
<1>4. a \in Call
  BY <1>2 DEF AnsweredCall, Call
<1> QED
  BY <1>3, <1>4

LEMMA ClosedCallType ==
    ASSUME NEW call \in Call
    PROVE  /\ ClosedCall(call) \in Call
           /\ ~ClosedCall(call).open
           /\ ClosedCall(call).phase = call.phase
           /\ ClosedCall(call).result = call.result
           /\ SamePurpose(call, ClosedCall(call))
  BY DEF ClosedCall, SamePurpose, Call

LEMMA AnsweredOK ==
    ASSUME NEW call, CallOK(call), NEW phase \in Served,
           NEW result \in Listing \cup Item \cup {NoItem},
           phase = "written" => call.op \in Commands,
           phase = "done" /\ call.op = "load" => result \in Listing,
           phase = "done" /\ call.op \in Commands => result \in Item
    PROVE  CallOK(AnsweredCall(call, phase, result))
<1>1. call \in Call
  BY DEF CallOK
<1> DEFINE a == AnsweredCall(call, phase, result)
<1>2. a \in Call /\ a.phase = phase /\ a.result = result /\ SamePurpose(call, a)
  BY <1>1, AnsweredCallType
<1> HIDE DEF a
<1>3. CallOK(a)
  BY <1>2 DEF CallOK, SamePurpose
<1> QED
  BY <1>3 DEF a

LEMMA ClosedOK ==
    ASSUME NEW call, CallOK(call)
    PROVE  CallOK(ClosedCall(call)) /\ ~ClosedCall(call).open
<1>1. call \in Call
  BY DEF CallOK
<1> QED
  BY <1>1, ClosedCallType DEF CallOK, SamePurpose

\* A step that gives one slot a call, or frees it, keeps the calls in order.
LEMMA PutCall ==
    ASSUME CallsOK, NEW s \in Slots, NEW call,
           calls' = [calls EXCEPT ![s] = call],
           call = NoCall \/ (CallOK(call) /\ (call.open => PageShown')),
           PageShown => PageShown'
    PROVE  CallsOK'
<1>1. call \in Call \cup {NoCall}
  BY DEF CallOK
<1>2. calls' \in [Slots -> Call \cup {NoCall}]
  BY <1>1 DEF CallsOK
<1>3. ASSUME NEW r \in Slots, calls'[r] # NoCall
      PROVE  CallOK(calls'[r]) /\ (calls'[r].open => PageShown')
  BY <1>3 DEF CallsOK
<1> QED
  BY <1>2, <1>3 DEF CallsOK

LEMMA SameCalls ==
    ASSUME CallsOK, UNCHANGED calls, PageShown => PageShown'
    PROVE  CallsOK'
  BY DEF CallsOK

\* When the page closes, no call that is under way finds it again.
LEMMA AbandonedOK ==
    ASSUME CallsOK, NEW s \in Slots, NEW call, CallOK(call), ~call.open,
           calls' = [Abandoned EXCEPT ![s] = call]
    PROVE  CallsOK'
<1>1. ASSUME NEW r \in Slots
      PROVE  /\ calls'[r] \in Call \cup {NoCall}
             /\ calls'[r] # NoCall => CallOK(calls'[r]) /\ ~calls'[r].open
  <2>1. CASE r = s
    BY <2>1 DEF Abandoned, CallOK
  <2>2. CASE r # s /\ calls[r] = NoCall
    BY <2>2 DEF Abandoned
  <2>3. CASE r # s /\ calls[r] # NoCall
    <3>1. calls'[r] = ClosedCall(calls[r])
      BY <2>3 DEF Abandoned, ClosedCall
    <3>2. CallOK(calls[r])
      BY <2>3 DEF CallsOK
    <3> QED
      BY <3>1, <3>2, ClosedOK DEF CallOK
  <2> QED
    BY <2>1, <2>2, <2>3
<1>2. calls' \in [Slots -> Call \cup {NoCall}]
  BY <1>1 DEF Abandoned
<1> QED
  BY <1>1, <1>2 DEF CallsOK

(***************************************************************************)
(* The type of the state.                                                  *)
(***************************************************************************)
LEMMA MatchingType ==
    ASSUME table \in Listing, NEW codes
    PROVE  Matching(codes) \in Listing
  BY DEF Matching, Listing

LEMMA InitType == Init => DeskInv
<1> SUFFICES ASSUME Init PROVE DeskInv
  OBVIOUS
<1>1. table \in Listing
  <2>1. PICK d \in Data :
           table = [c \in Codes |-> IF Seeded[c] = "absent"
                                    THEN NoRow ELSE NewRow(Seeded[c], d)]
    BY DEF Init, ControlInit
  <2>2. ASSUME NEW c \in Codes PROVE table[c] \in ValveRow \cup {NoRow}
    BY <2>1, NewRowType, DeskAssumption
  <2> QED
    BY <2>1, <2>2 DEF Listing
<1>2. items \in Listing
  BY DEF Init, Listing
<1>3. PICK s \in Slots :
          \/ /\ stored = NoUser /\ session = NoUser
             /\ signingIn = TRUE /\ loading = FALSE
             /\ calls = [r \in Slots |-> IF r = s THEN Login(Admin) ELSE NoCall]
          \/ /\ stored \in Users /\ session = stored
             /\ signingIn = FALSE /\ loading = TRUE
             /\ calls = [r \in Slots |-> IF r = s THEN Load(stored, "", FALSE) ELSE NoCall]
  BY DEF Init
<1>4. PICK call : /\ calls = [r \in Slots |-> IF r = s THEN call ELSE NoCall]
                  /\ CallOK(call) /\ ~call.open
  BY <1>3, LoginOK, LoadOK, DeskAssumption
<1>5. CallsOK
  BY <1>4 DEF CallsOK, CallOK
<1> QED
  BY <1>1, <1>2, <1>3, <1>5 DEF Init, DeskInv, TypeOK, CallsOK

LEMMA AnsweredType ==
    ASSUME DeskInv, NEW s \in Slots, calls[s] # NoCall, PageShown' = PageShown,
           NEW phase \in Served,
           NEW result \in Listing \cup Item \cup {NoItem},
           phase = "written" => calls[s].op \in Commands,
           phase = "done" /\ calls[s].op = "load" => result \in Listing,
           phase = "done" /\ calls[s].op \in Commands => result \in Item,
           Answered(s, phase, result)
    PROVE  CallsOK'
<1>1. CallOK(calls[s]) /\ (calls[s].open => PageShown)
  BY DEF DeskInv, CallsOK
<1>2. calls' = [calls EXCEPT ![s] = AnsweredCall(calls[s], phase, result)]
  BY DEF Answered, AnsweredCall
<1>3. CallOK(AnsweredCall(calls[s], phase, result))
  BY <1>1, AnsweredOK
<1>4. AnsweredCall(calls[s], phase, result).open = calls[s].open
  BY <1>1, AnsweredCallType DEF CallOK
<1> QED
  BY <1>1, <1>2, <1>3, <1>4, PutCall DEF DeskInv

LEMMA ServeType ==
    ASSUME DeskInv, NEW s \in Slots, Serve(s)
    PROVE  DeskInv'
<1>1. CallOK(calls[s]) /\ (calls[s].open => PageShown)
  BY DEF Serve, DeskInv, CallsOK
<1>2. table \in Listing
  BY DEF DeskInv, TypeOK
<1>3. PageShown' = PageShown
  BY DEF Serve, PageShown, session_vars
<1>4. ASSUME NEW phase \in Served,
             NEW result \in Listing \cup Item \cup {NoItem},
             phase = "written" => calls[s].op \in Commands,
             phase = "done" /\ calls[s].op = "load" => result \in Listing,
             phase = "done" /\ calls[s].op \in Commands => result \in Item,
             Answered(s, phase, result)
      PROVE  CallsOK'
  BY <1>3, <1>4, AnsweredType DEF Serve
<1>5. table' \in Listing /\ CallsOK'
  <2>1. CASE calls[s].op = "login"
    BY <2>1, <1>2, <1>4 DEF Serve, Commands, Served
  <2>2. CASE calls[s].op = "load"
    <3>1. PICK codes : Answered(s, "done", Matching(codes)) /\ UNCHANGED table
      BY <2>2 DEF Serve, Commands
    <3>2. Matching(codes) \in Listing
      BY <1>2, MatchingType
    <3> QED
      BY <2>2, <3>1, <3>2, <1>2, <1>4 DEF Commands, Served
  <2>3. CASE calls[s].op = "create"
    <3>1. PICK c \in Codes, phase \in {"done", "failed"} :
             Create(c) /\ Answered(s, phase, NoItem)
      BY <2>3 DEF Serve, Commands
    <3>2. table' \in Listing
      <4>1. Operation(c)
        BY <3>1 DEF Operation
      <4> QED
        BY <4>1, <1>2, StepOfOne, PutType
    <3> QED
      BY <2>3, <3>1, <3>2, <1>4 DEF Commands, Served
  <2>4. CASE calls[s].op \in Commands
    <3>1. Performs(calls[s])
      BY <2>4 DEF Serve, Commands
    <3>2. calls[s].shown.code \in Codes
      BY <1>1, <2>4 DEF CallOK, Item
    <3>3. table' \in Listing
      BY <1>2, <3>1, <3>2, PerformedType
    <3>4. Answered(s, "written", NoItem)
      BY <2>4 DEF Serve, Commands
    <3> QED
      BY <2>4, <3>3, <3>4, <1>4 DEF Served
  <2> QED
    BY <2>1, <2>2, <2>3, <2>4, <1>1 DEF Serve
<1> QED
  BY <1>3, <1>5 DEF Serve, session_vars, page_vars, DeskInv, TypeOK, CallsOK

\* The record that a command answers.
LEMMA ReadBackItem ==
    ASSUME DeskInv, NEW s \in Slots, ReadBack(s)
    PROVE  \E item \in Item :
              /\ Answered(s, "done", item)
              /\ item.row = table[item.code] /\ ~item.row.deleted
              /\ calls[s].op \in Commands
<1>1. CallOK(calls[s]) /\ calls[s].phase = "written"
  BY DEF ReadBack, DeskInv, CallsOK
<1>2. calls[s].op \in Commands /\ calls[s].shown.code \in Codes
  BY <1>1 DEF CallOK, Item
<1>3. table[calls[s].shown.code] \in ValveRow
  BY <1>2 DEF ReadBack, Live, DeskInv, TypeOK, Listing
<1> DEFINE item == [code |-> calls[s].shown.code, row |-> table[calls[s].shown.code]]
<1>4. item \in Item /\ item.row = table[item.code] /\ ~item.row.deleted
  BY <1>2, <1>3 DEF Item, ReadBack, Live
<1>5. Answered(s, "done", item)
  BY DEF ReadBack
<1> QED
  BY <1>2, <1>4, <1>5

LEMMA FailType ==
    ASSUME DeskInv, NEW s \in Slots, ReadBack(s) \/ Fail(s)
    PROVE  DeskInv'
<1>1. PageShown' = PageShown
  BY DEF ReadBack, Fail, PageShown, session_vars
<1>2. CallsOK'
  <2>1. CASE ReadBack(s)
    <3>1. PICK item \in Item : Answered(s, "done", item) /\ calls[s].op \in Commands
      BY <2>1, ReadBackItem
    <3> QED
      BY <2>1, <3>1, <1>1, AnsweredType DEF ReadBack, Served, Commands
  <2>2. CASE Fail(s)
    BY <2>2, <1>1, AnsweredType DEF Fail, Served
  <2> QED
    BY <2>1, <2>2
<1> QED
  BY <1>1, <1>2 DEF ReadBack, Fail, session_vars, page_vars, DeskInv, TypeOK, CallsOK

LEMMA ElsewhereType ==
    ASSUME DeskInv, Elsewhere \/ OtherTabSigns
    PROVE  DeskInv'
<1>1. PageShown' = PageShown
  BY DEF Elsewhere, OtherTabSigns, PageShown, session_vars
<1>2. CallsOK'
  BY <1>1, SameCalls DEF DeskInv, Elsewhere, OtherTabSigns
<1>3. table' \in Listing
  BY ControlStepType DEF DeskInv, TypeOK, Elsewhere, OtherTabSigns
<1>4. stored' \in Users \cup {NoUser}
  BY DeskAssumption DEF DeskInv, TypeOK, Elsewhere, OtherTabSigns, session_vars
<1> QED
  BY <1>1, <1>2, <1>3, <1>4
  DEF Elsewhere, OtherTabSigns, session_vars, page_vars, DeskInv, TypeOK, CallsOK

\* What closes the page: another account signs in, or the user leaves.
LEMMA LeaveType ==
    ASSUME DeskInv, NEW s \in Slots, SwitchAccount(s) \/ Logout(s) \/ Revisit(s)
    PROVE  DeskInv'
<1>1. CallsOK'
  <2>1. CASE SwitchAccount(s)
    <3>1. PICK u \in Users : calls' = [Abandoned EXCEPT ![s] = Login(u)]
      BY <2>1, DeskAssumption DEF SwitchAccount
    <3> QED
      BY <3>1, LoginOK, AbandonedOK DEF DeskInv
  <2>2. CASE Logout(s)
    BY <2>2, LoginOK, AbandonedOK, DeskAssumption DEF DeskInv, Logout
  <2>3. CASE Revisit(s)
    <3>1. CallOK(Load(stored, "", FALSE)) /\ ~Load(stored, "", FALSE).open
      BY LoadOK DEF DeskInv, TypeOK
    <3> QED
      BY <2>3, <3>1, AbandonedOK DEF DeskInv, Revisit
  <2> QED
    BY <2>1, <2>2, <2>3
<1>2. TypeOK'
  <2>1. calls' \in [Slots -> Call \cup {NoCall}]
    BY <1>1 DEF CallsOK
  <2> QED
    BY <2>1 DEF DeskInv, TypeOK, SwitchAccount, Logout, Revisit, ClosePage,
                session_vars, PageShown
<1> QED
  BY <1>1, <1>2 DEF DeskInv

\* The steps of the user that send nothing.
LEMMA PageType ==
    ASSUME DeskInv, Advance \/ CancelAdvance \/ Inspect \/ CloseDrawer \/ Acknowledge
    PROVE  DeskInv'
<1>1. PageShown /\ PageShown'
  BY DEF Advance, CancelAdvance, Inspect, CloseDrawer, Acknowledge, Free, PageShown,
         session_vars
<1>2. CallsOK'
  BY <1>1, SameCalls
  DEF DeskInv, Advance, CancelAdvance, Inspect, CloseDrawer, Acknowledge
<1>3. ASSUME NEW c \in Codes, items[c] # NoRow
      PROVE  [code |-> c, row |-> items[c]] \in Item
  BY <1>3 DEF DeskInv, TypeOK, Listing, Item
<1>4. TypeOK'
  <2>1. CASE Advance
    <3>1. PICK c \in Codes :
             /\ items[c] # NoRow
             /\ \E to \in MayAdvance(items[c]) :
                   pending' = [item |-> [code |-> c, row |-> items[c]], to |-> to]
      BY <2>1 DEF Advance
    <3>2. PICK to \in MayAdvance(items[c]) :
             pending' = [item |-> [code |-> c, row |-> items[c]], to |-> to]
      BY <3>1
    <3>3. to \in ExecutionStates
      BY DEF MayAdvance, NextStatus, Statuses, ExecutionStates
    <3>4. pending' \in [item : Item, to : ExecutionStates]
      BY <3>1, <3>2, <3>3, <1>3
    <3> QED
      BY <2>1, <3>4, <1>1 DEF DeskInv, TypeOK, Advance, session_vars
  <2>2. CASE Inspect
    <3>1. PICK c \in Codes : items[c] # NoRow /\ Show([code |-> c, row |-> items[c]])
      BY <2>2 DEF Inspect
    <3>2. selected' \in Item
      BY <3>1, <1>3 DEF Show
    <3>3. acknowledged' \in BOOLEAN
      BY <3>1 DEF Show, DeskInv, TypeOK
    <3> QED
      BY <2>2, <3>2, <3>3, <1>1 DEF DeskInv, TypeOK, Inspect, session_vars
  <2>3. CASE CancelAdvance \/ CloseDrawer \/ Acknowledge
    BY <2>3, <1>1 DEF DeskInv, TypeOK, CancelAdvance, CloseDrawer, Acknowledge,
                      session_vars
  <2> QED
    BY <2>1, <2>2, <2>3
<1> QED
  BY <1>2, <1>4 DEF DeskInv

\* The steps of the user that send a call.
LEMMA SendType ==
    ASSUME DeskInv, NEW s \in Slots,
           Refresh(s) \/ CreateDemo(s) \/ ConfirmAdvance(s) \/ Control(s)
    PROVE  DeskInv'
<1>1. PageShown /\ PageShown'
  <2>1. PageShown
    BY DEF Refresh, CreateDemo, ConfirmAdvance, Control, Free
  <2>2. UNCHANGED <<session, signingIn>>
    BY DEF Refresh, CreateDemo, ConfirmAdvance, Control, session_vars
  <2> QED
    BY <2>1, <2>2 DEF PageShown
<1>2. PICK call : Send(s, call) /\ CallOK(call)
  <2>1. CASE Refresh(s)
    BY <2>1, LoadOK DEF Refresh, DeskInv, TypeOK
  <2>2. CASE CreateDemo(s)
    BY <2>2, SentOK DEF CreateDemo, DeskInv, TypeOK
  <2>3. CASE ConfirmAdvance(s)
    <3>1. pending.item \in Item /\ pending.to \in ExecutionStates
      BY <2>3 DEF ConfirmAdvance, DeskInv, TypeOK
    <3>2. CallOK(Command("transition", pending.item, pending.to))
      BY <3>1, CommandOK DEF DeskInv, Commands
    <3> QED
      BY <2>3, <3>2 DEF ConfirmAdvance
  <2>4. CASE Control(s)
    <3>1. selected \in Item
      BY <2>4 DEF Control, DeskInv, TypeOK
    <3>2. /\ CallOK(Command("control_request", selected, ""))
          /\ CallOK(Command("control_confirm", selected, ""))
      BY <3>1, CommandOK DEF DeskInv, Commands
    <3> QED
      BY <2>4, <3>2 DEF Control
  <2> QED
    BY <2>1, <2>2, <2>3, <2>4
<1>3. CallsOK'
  BY <1>1, <1>2, PutCall DEF Send, DeskInv
<1>4. calls' \in [Slots -> Call \cup {NoCall}]
  BY <1>3 DEF CallsOK
<1>5. TypeOK'
  BY <1>1, <1>4 DEF DeskInv, TypeOK, Refresh, CreateDemo, ConfirmAdvance, Control,
                    session_vars, page_vars
<1> QED
  BY <1>3, <1>5 DEF DeskInv

\* A login makes a session or leaves the one there was, and never takes it.
LEMMA LoggedInType ==
    ASSUME DeskInv, NEW s \in Slots, calls[s] # NoCall, calls[s].op = "login",
           LoggedIn(s), UNCHANGED table
    PROVE  DeskInv'
<1>1. calls[s].account \in Users
  BY DEF DeskInv, CallsOK, CallOK
<1>2. /\ stored' \in Users \cup {NoUser} /\ session' \in Users \cup {NoUser}
      /\ signingIn' = FALSE
      /\ PageShown => PageShown'
  BY <1>1, ValveRecordsAssumption DEF LoggedIn, DeskInv, TypeOK, PageShown
<1>3. CallsOK'
  <2>1. CASE session' # NoUser
    <3>1. CallOK(Load(stored', "", FALSE)) /\ ~Load(stored', "", FALSE).open
      BY <1>2, LoadOK
    <3>2. calls' = [calls EXCEPT ![s] = Load(stored', "", FALSE)]
      BY <2>1 DEF LoggedIn
    <3> QED
      BY <1>2, <3>1, <3>2, PutCall DEF DeskInv
  <2>2. CASE session' = NoUser
    BY <2>2, <1>2, PutCall DEF DeskInv, LoggedIn
  <2> QED
    BY <2>1, <2>2
<1>4. loading' \in BOOLEAN
  BY DEF LoggedIn, DeskInv, TypeOK
<1> QED
  BY <1>2, <1>3, <1>4 DEF LoggedIn, page_vars, DeskInv, TypeOK, CallsOK

LEMMA LoadedType ==
    ASSUME DeskInv, NEW s \in Slots, calls[s] # NoCall, calls[s].op = "load",
           Loaded(s), UNCHANGED table
    PROVE  DeskInv'
<1>1. CallOK(calls[s])
  BY DEF DeskInv, CallsOK
<1>2. UNCHANGED <<session, signingIn>> /\ (PageShown => PageShown')
  BY DEF Loaded, session_vars, PageShown
<1>3. CallsOK'
  BY <1>2, PutCall DEF DeskInv, Loaded
<1>4. items' \in Listing
  BY <1>1 DEF Loaded, DeskInv, TypeOK, CallOK
<1>5. /\ pending' \in [item : Item, to : ExecutionStates] \cup {NoItem}
      /\ busy' \in BOOLEAN
      /\ pending' = pending \/ pending' = NoItem
      /\ busy' => busy
  BY DEF Loaded, DeskInv, TypeOK
<1> QED
  BY <1>2, <1>3, <1>4, <1>5 DEF Loaded, session_vars, PageShown, DeskInv, TypeOK, CallsOK

LEMMA ChangedType ==
    ASSUME DeskInv, NEW s \in Slots, calls[s] # NoCall,
           Changed(s), UNCHANGED table
    PROVE  DeskInv'
<1>1. CallOK(calls[s]) /\ (calls[s].open => PageShown)
  BY DEF DeskInv, CallsOK
<1>2. UNCHANGED <<session, signingIn>> /\ (PageShown' <=> PageShown)
  BY DEF Changed, session_vars, PageShown
<1>3. CallsOK'
  <2>1. calls[s].open \in BOOLEAN /\ stored \in Users \cup {NoUser}
    BY <1>1 DEF CallOK, Call, DeskInv, TypeOK
  <2>2. /\ CallOK(Load(stored, "", FALSE)) /\ ~Load(stored, "", FALSE).open
        /\ CallOK(Load(stored, "transition", calls[s].open))
        /\ Load(stored, "transition", calls[s].open).open = calls[s].open
    BY <2>1, LoadOK
  <2>3. \/ calls' = [calls EXCEPT ![s] = Load(stored, "", FALSE)]
        \/ calls' = [calls EXCEPT ![s] = Load(stored, "transition", calls[s].open)]
        \/ calls' = [calls EXCEPT ![s] = NoCall]
    BY DEF Changed
  <2>4. CASE calls' = [calls EXCEPT ![s] = Load(stored, "", FALSE)]
    BY <1>2, <2>2, <2>4, PutCall DEF DeskInv
  <2>5. CASE calls' = [calls EXCEPT ![s] = Load(stored, "transition", calls[s].open)]
    BY <1>1, <1>2, <2>2, <2>5, PutCall DEF DeskInv
  <2>6. CASE calls' = [calls EXCEPT ![s] = NoCall]
    BY <1>2, <2>6, PutCall DEF DeskInv
  <2> QED
    BY <2>3, <2>4, <2>5, <2>6
<1>4. loading' \in BOOLEAN
  BY DEF Changed, DeskInv, TypeOK
<1> QED
  BY <1>2, <1>3, <1>4 DEF Changed, session_vars, page_vars, DeskInv, TypeOK, CallsOK

LEMMA ControlledType ==
    ASSUME DeskInv, NEW s \in Slots, calls[s] # NoCall, calls[s].op \in Commands,
           calls[s].phase \in {"done", "failed"}, Controlled(s), UNCHANGED table
    PROVE  DeskInv'
<1>1. CallOK(calls[s]) /\ (calls[s].open => PageShown)
  BY DEF DeskInv, CallsOK
<1>2. UNCHANGED <<stored, session, signingIn, items, pending>> /\ (PageShown' <=> PageShown)
  BY DEF Controlled, session_vars, PageShown
<1>3. CallsOK'
  <2>1. calls[s].open \in BOOLEAN /\ stored \in Users \cup {NoUser}
    BY <1>1 DEF CallOK, Call, DeskInv, TypeOK
  <2>2. /\ CallOK(Load(stored, "control", calls[s].open))
        /\ Load(stored, "control", calls[s].open).open = calls[s].open
    BY <2>1, LoadOK
  <2>3. \/ calls' = [calls EXCEPT ![s] = Load(stored, "control", calls[s].open)]
        \/ calls' = [calls EXCEPT ![s] = NoCall]
    BY DEF Controlled
  <2>4. CASE calls' = [calls EXCEPT ![s] = Load(stored, "control", calls[s].open)]
    BY <1>1, <1>2, <2>2, <2>4, PutCall DEF DeskInv
  <2>5. CASE calls' = [calls EXCEPT ![s] = NoCall]
    BY <1>2, <2>5, PutCall DEF DeskInv
  <2> QED
    BY <2>3, <2>4, <2>5
<1>4. CASE calls[s].phase = "done" /\ calls[s].open
  <2>1. selected' \in Item /\ acknowledged' \in BOOLEAN
    BY <1>1, <1>4 DEF Controlled, Show, CallOK, DeskInv, TypeOK
  <2> QED
    BY <1>1, <1>2, <1>3, <1>4, <2>1 DEF Controlled, DeskInv, TypeOK, CallsOK
<1>5. CASE ~(calls[s].phase = "done" /\ calls[s].open)
  <2>1. /\ UNCHANGED <<selected, acknowledged>>
        /\ loading' \in BOOLEAN /\ busy' \in BOOLEAN
        /\ busy' => busy
    BY <1>5 DEF Controlled, DeskInv, TypeOK
  <2> QED
    BY <1>2, <1>3, <2>1 DEF DeskInv, TypeOK, CallsOK
<1> QED
  BY <1>4, <1>5

\* The four kinds of answer.
LEMMA AnswerCases ==
    ASSUME DeskInv, NEW s \in Slots, Answer(s)
    PROVE  /\ calls[s] # NoCall /\ calls[s].phase \in {"done", "failed"} /\ UNCHANGED table
           /\ \/ calls[s].op = "login" /\ LoggedIn(s)
              \/ calls[s].op = "load" /\ Loaded(s)
              \/ calls[s].op \in {"create", "transition"} /\ Changed(s)
              \/ calls[s].op \in {"control_request", "control_confirm"} /\ Controlled(s)
<1>1. calls[s].op \in {"login", "load", "create", "transition",
                       "control_request", "control_confirm"}
  BY DEF Answer, DeskInv, CallsOK, CallOK, Call
<1> QED
  BY <1>1 DEF Answer

LEMMA NextType == DeskInv /\ [Next]_vars => DeskInv'
<1> SUFFICES ASSUME DeskInv, [Next]_vars PROVE DeskInv'
  OBVIOUS
<1>1. ASSUME NEW s \in Slots, Answer(s) PROVE DeskInv'
  BY <1>1, AnswerCases, LoggedInType, LoadedType, ChangedType, ControlledType DEF Commands
<1>2. CASE UNCHANGED vars
  BY <1>2, SameCalls DEF vars, session_vars, page_vars, PageShown, DeskInv, TypeOK
<1> QED
  BY <1>1, <1>2, ServeType, FailType, ElsewhereType, LeaveType, PageType, SendType DEF Next

\* Every reachable state of the page is well typed, and nothing of the page
\* is there while it is closed: a late answer finds no dialog and no drawer
\* of another page (useAuth.tsx:25, 31, ValveExecutionPage.tsx:21).
THEOREM TypeCorrect == Spec => []TypeOK
<1>1. DeskInv => TypeOK
  BY DEF DeskInv
<1> QED
  BY <1>1, InitType, NextType, PTL DEF Spec

(***************************************************************************)
(* The checkbox of the drawer.                                             *)
(***************************************************************************)
LEMMA NextTick ==
    ASSUME DeskInv, [Next]_vars, acknowledged, acknowledged'
    PROVE  selected' = selected
<1>1. ASSUME NEW s \in Slots, Answer(s) PROVE selected' = selected
  <2>1. CASE LoggedIn(s) \/ Loaded(s) \/ Changed(s)
    BY <2>1 DEF LoggedIn, Loaded, Changed, page_vars
  <2>2. CASE Controlled(s)
    BY <2>2 DEF Controlled, Show
  <2> QED
    BY <1>1, <2>1, <2>2, AnswerCases
<1>2. ASSUME NEW s \in Slots, Serve(s) \/ ReadBack(s) \/ Fail(s)
      PROVE  selected' = selected
  BY <1>2 DEF Serve, ReadBack, Fail, page_vars
<1>3. ASSUME NEW s \in Slots, SwitchAccount(s) \/ Logout(s) \/ Revisit(s) PROVE FALSE
  BY <1>3 DEF SwitchAccount, Logout, Revisit, ClosePage
<1>4. ASSUME NEW s \in Slots,
             Refresh(s) \/ CreateDemo(s) \/ ConfirmAdvance(s) \/ Control(s)
      PROVE  selected' = selected
  BY <1>4 DEF Refresh, CreateDemo, ConfirmAdvance, Control, page_vars
<1>5. CASE Elsewhere \/ OtherTabSigns \/ Advance \/ CancelAdvance \/ Acknowledge
  BY <1>5 DEF Elsewhere, OtherTabSigns, Advance, CancelAdvance, Acknowledge, page_vars
<1>6. CASE Inspect \/ CloseDrawer
  BY <1>6 DEF Inspect, CloseDrawer, Show
<1>7. CASE UNCHANGED vars
  BY <1>7 DEF vars, page_vars
<1> QED
  BY <1>1, <1>2, <1>3, <1>4, <1>5, <1>6, <1>7 DEF Next

\* A tick is for the record and version it was given for, whichever answers
\* come while the drawer is open (PlanDrawer.tsx:23).
THEOREM TicksAreForOneVersion == Spec => TickIsForOneVersion
<1>1. DeskInv /\ [Next]_vars =>
         [acknowledged /\ acknowledged' => selected' = selected]_vars
  BY NextTick
<1> QED
  BY <1>1, InitType, NextType, PTL DEF Spec, TickIsForOneVersion

(***************************************************************************)
(* What shows as under way.  The invariant is the property, with the       *)
(* drawer's command waiting for one of its own calls: a status change that *)
(* ends does not end it.                                                   *)
(***************************************************************************)
EndsLoading(call) == call # NoCall /\ call.op \in {"load", "create", "transition"}

EndsBusy(call) ==
    /\ call # NoCall /\ call.open
    /\ call.op \in {"control_request", "control_confirm"} \/ call.after = "control"

EndsSigningIn(call) == call # NoCall /\ call.op = "login"

SpinInv ==
    /\ DeskInv
    /\ loading => \E s \in Slots : EndsLoading(calls[s])
    /\ busy => \E s \in Slots : EndsBusy(calls[s])
    /\ signingIn => \E s \in Slots : EndsSigningIn(calls[s])

\* No call ended, and none was closed.
CallsGoOn ==
    \A r \in Slots : calls[r] # NoCall =>
        /\ calls'[r] # NoCall
        /\ calls'[r].op = calls[r].op
        /\ calls'[r].open = calls[r].open
        /\ calls'[r].after = calls[r].after

LEMMA GoOn ==
    ASSUME CallsGoOn, NEW s \in Slots
    PROVE  /\ EndsLoading(calls[s]) => EndsLoading(calls'[s])
           /\ EndsBusy(calls[s]) => EndsBusy(calls'[s])
           /\ EndsSigningIn(calls[s]) => EndsSigningIn(calls'[s])
  BY DEF CallsGoOn, EndsLoading, EndsBusy, EndsSigningIn

LEMMA AnsweredGoOn ==
    ASSUME DeskInv, NEW s \in Slots, calls[s] # NoCall,
           NEW phase \in Served,
           NEW result \in Listing \cup Item \cup {NoItem},
           Answered(s, phase, result)
    PROVE  CallsGoOn
<1>1. calls[s] \in Call /\ calls \in [Slots -> Call \cup {NoCall}]
  BY DEF DeskInv, CallsOK
<1>2. calls' = [calls EXCEPT ![s] = AnsweredCall(calls[s], phase, result)]
  BY DEF Answered, AnsweredCall
<1>3. /\ AnsweredCall(calls[s], phase, result) \in Call
      /\ AnsweredCall(calls[s], phase, result).open = calls[s].open
      /\ SamePurpose(calls[s], AnsweredCall(calls[s], phase, result))
  BY <1>1, AnsweredCallType
<1> QED
  BY <1>1, <1>2, <1>3, DeskAssumption DEF CallsGoOn, SamePurpose

LEMMA SentGoOn ==
    ASSUME DeskInv, NEW s \in Slots, NEW call \in Call, Send(s, call)
    PROVE  CallsGoOn /\ call # NoCall
  BY DeskAssumption DEF Send, CallsGoOn, DeskInv, CallsOK

\* The service answers from what it has.
LEMMA ServedGoOn ==
    ASSUME DeskInv, NEW s \in Slots, Serve(s) \/ ReadBack(s) \/ Fail(s)
    PROVE  CallsGoOn /\ UNCHANGED <<loading, busy, signingIn>>
<1>1. calls[s] # NoCall /\ UNCHANGED <<loading, busy, signingIn>>
  BY DEF Serve, ReadBack, Fail, session_vars, page_vars
<1>2. \E phase \in Served, result \in Listing \cup Item \cup {NoItem} :
         Answered(s, phase, result)
  <2>1. CASE Fail(s) \/ (Serve(s) /\ calls[s].op # "load")
    BY <2>1 DEF Serve, Fail, Commands, Served
  <2>2. CASE Serve(s) /\ calls[s].op = "load"
    BY <2>2, MatchingType DEF Serve, Commands, Served, DeskInv, TypeOK
  <2>3. CASE ReadBack(s)
    BY <2>3, ReadBackItem DEF Served
  <2> QED
    BY <2>1, <2>2, <2>3
<1> QED
  BY <1>1, <1>2, AnsweredGoOn

\* A call that is sent shows as under way.
LEMMA SentSpin ==
    ASSUME SpinInv, DeskInv', NEW s \in Slots, NEW call, CallOK(call), Send(s, call),
           \/ /\ call.op \in {"load", "create", "transition"}
              /\ UNCHANGED <<busy, signingIn>>
           \/ /\ call.op \in {"control_request", "control_confirm"} /\ call.open
              /\ UNCHANGED <<loading, signingIn>>
    PROVE  SpinInv'
<1>1. CallsGoOn /\ call # NoCall
  BY SentGoOn DEF SpinInv, CallOK
<1>2. calls'[s] = call
  BY DEF Send, SpinInv, DeskInv, CallsOK
<1>3. \/ EndsLoading(call) /\ UNCHANGED <<busy, signingIn>>
      \/ EndsBusy(call) /\ UNCHANGED <<loading, signingIn>>
  <2>1. CASE call.op \in {"load", "create", "transition"} /\ UNCHANGED <<busy, signingIn>>
    BY <1>1, <2>1 DEF EndsLoading
  <2>2. CASE /\ call.op \in {"control_request", "control_confirm"} /\ call.open
             /\ UNCHANGED <<loading, signingIn>>
    BY <1>1, <2>2 DEF EndsBusy
  <2> QED
    BY <2>1, <2>2
<1> QED
  BY <1>1, <1>2, <1>3, GoOn DEF SpinInv

LEMMA NextSpin == SpinInv /\ [Next]_vars => SpinInv'
<1> SUFFICES ASSUME SpinInv, [Next]_vars PROVE SpinInv'
  OBVIOUS
<1>1. DeskInv /\ DeskInv'
  BY NextType DEF SpinInv
<1>2. calls \in [Slots -> Call \cup {NoCall}] /\ calls' \in [Slots -> Call \cup {NoCall}]
  BY <1>1 DEF DeskInv, CallsOK
<1>3. ASSUME CallsGoOn, UNCHANGED <<loading, busy, signingIn>> PROVE SpinInv'
  BY <1>1, <1>3, GoOn DEF SpinInv
<1>4. ASSUME NEW s \in Slots, Serve(s) \/ ReadBack(s) \/ Fail(s) PROVE SpinInv'
  BY <1>1, <1>3, <1>4, ServedGoOn
<1>5. CASE \/ Elsewhere \/ OtherTabSigns \/ Advance \/ CancelAdvance \/ Inspect
           \/ CloseDrawer \/ Acknowledge \/ UNCHANGED vars
  <2>1. UNCHANGED <<loading, busy, signingIn, calls>>
    BY <1>5 DEF Elsewhere, OtherTabSigns, Advance, CancelAdvance, Inspect,
                CloseDrawer, Acknowledge, vars, session_vars, page_vars
  <2> QED
    BY <2>1, <1>3 DEF CallsGoOn
<1>6. ASSUME NEW s \in Slots,
             Refresh(s) \/ CreateDemo(s) \/ ConfirmAdvance(s) \/ Control(s)
      PROVE  SpinInv'
  <2>1. CASE Refresh(s)
    <3>1. CallOK(Load(stored, "", FALSE))
      BY <1>1, LoadOK DEF DeskInv, TypeOK
    <3>2. Load(stored, "", FALSE).op = "load"
      BY DEF Load, Sent
    <3>3. Send(s, Load(stored, "", FALSE)) /\ UNCHANGED <<busy, signingIn>>
      BY <2>1 DEF Refresh, session_vars, page_vars
    <3> QED
      BY <1>1, <3>1, <3>2, <3>3, SentSpin
  <2>2. CASE CreateDemo(s)
    <3>1. CallOK(Sent("create", session, stored))
      BY <1>1, SentOK DEF DeskInv, TypeOK
    <3>2. Sent("create", session, stored).op = "create"
      BY DEF Sent
    <3>3. Send(s, Sent("create", session, stored)) /\ UNCHANGED <<busy, signingIn>>
      BY <2>2 DEF CreateDemo, session_vars, page_vars
    <3> QED
      BY <1>1, <3>1, <3>2, <3>3, SentSpin
  <2>3. CASE ConfirmAdvance(s)
    <3>1. pending.item \in Item /\ pending.to \in ExecutionStates
      BY <2>3, <1>1 DEF ConfirmAdvance, DeskInv, TypeOK
    <3>2. CallOK(Command("transition", pending.item, pending.to))
      BY <1>1, <3>1, CommandOK DEF DeskInv, Commands
    <3>3. Command("transition", pending.item, pending.to).op = "transition"
      BY DEF Command, Sent
    <3>4. /\ Send(s, Command("transition", pending.item, pending.to))
          /\ UNCHANGED <<busy, signingIn>>
      BY <2>3 DEF ConfirmAdvance, session_vars, page_vars
    <3> QED
      BY <1>1, <3>2, <3>3, <3>4, SentSpin
  <2>4. CASE Control(s)
    <3>1. PICK op \in {"control_request", "control_confirm"} :
             Send(s, Command(op, selected, ""))
      BY <2>4 DEF Control
    <3>2. selected \in Item
      BY <2>4, <1>1 DEF Control, DeskInv, TypeOK
    <3>3. CallOK(Command(op, selected, ""))
      BY <1>1, <3>2, CommandOK DEF DeskInv, Commands
    <3>4. Command(op, selected, "").op = op /\ Command(op, selected, "").open
      BY DEF Command, Sent
    <3>5. UNCHANGED <<loading, signingIn>>
      BY <2>4 DEF Control, session_vars
    <3> QED
      BY <1>1, <3>1, <3>3, <3>4, <3>5, SentSpin
  <2> QED
    BY <1>6, <2>1, <2>2, <2>3, <2>4
<1>7. ASSUME NEW s \in Slots, SwitchAccount(s) \/ Logout(s) \/ Revisit(s)
      PROVE  SpinInv'
  <2>1. PICK call \in Call : calls' = [Abandoned EXCEPT ![s] = call]
                    /\ \/ EndsSigningIn(call) /\ UNCHANGED loading
                       \/ EndsLoading(call) /\ ~signingIn'
    <3>1. ASSUME NEW u \in Users
          PROVE  Login(u) \in Call /\ EndsSigningIn(Login(u))
      <4>1. Login(u) \in Call
        BY LoginOK DEF CallOK
      <4>2. Login(u).op = "login"
        BY DEF Login, Sent
      <4> QED
        BY <4>1, <4>2, DeskAssumption DEF EndsSigningIn
    <3>2. CASE SwitchAccount(s)
      <4>1. PICK u \in Users : calls' = [Abandoned EXCEPT ![s] = Login(u)]
        BY <3>2, DeskAssumption DEF SwitchAccount
      <4> QED
        BY <3>1, <3>2, <4>1 DEF SwitchAccount
    <3>3. CASE Logout(s)
      BY <3>1, <3>3, DeskAssumption DEF Logout
    <3>4. CASE Revisit(s)
      <4>1. CallOK(Load(stored, "", FALSE))
        BY <1>1, LoadOK DEF DeskInv, TypeOK
      <4>2. Load(stored, "", FALSE).op = "load"
        BY DEF Load, Sent
      <4>3. ~signingIn'
        BY <3>4 DEF Revisit, PageShown, session_vars
      <4>4. calls' = [Abandoned EXCEPT ![s] = Load(stored, "", FALSE)]
        BY <3>4 DEF Revisit
      <4>5. Load(stored, "", FALSE) \in Call /\ EndsLoading(Load(stored, "", FALSE))
        BY <4>1, <4>2, DeskAssumption DEF CallOK, EndsLoading
      <4> QED
        BY <4>3, <4>4, <4>5
    <3> QED
      BY <1>7, <3>2, <3>3, <3>4
  <2>2. calls'[s] = call
    BY <2>1 DEF Abandoned
  <2>3. calls[s] = NoCall /\ ~busy'
    BY <1>7 DEF SwitchAccount, Logout, Revisit, ClosePage
  <2>4. ASSUME NEW r \in Slots, EndsLoading(calls[r])
        PROVE  EndsLoading(calls'[r])
    <3>1. r # s /\ calls[r] \in Call
      BY <1>2, <2>3, <2>4 DEF EndsLoading
    <3>2. calls'[r] = ClosedCall(calls[r])
      BY <2>1, <2>4, <3>1 DEF Abandoned, ClosedCall, EndsLoading
    <3>3. ClosedCall(calls[r]) \in Call /\ ClosedCall(calls[r]).op = calls[r].op
      BY <3>1, ClosedCallType DEF SamePurpose
    <3> QED
      BY <2>4, <3>2, <3>3, DeskAssumption DEF EndsLoading
  <2> QED
    BY <1>1, <2>1, <2>2, <2>3, <2>4 DEF SpinInv
<1>8. ASSUME NEW s \in Slots, Answer(s) PROVE SpinInv'
  <2>1. /\ calls[s] # NoCall /\ CallOK(calls[s])
        /\ \/ calls[s].op = "login" /\ LoggedIn(s)
           \/ calls[s].op = "load" /\ Loaded(s)
           \/ calls[s].op \in {"create", "transition"} /\ Changed(s)
           \/ calls[s].op \in {"control_request", "control_confirm"} /\ Controlled(s)
    BY <1>1, <1>8, AnswerCases DEF DeskInv, CallsOK
  <2>2. ASSUME NEW r \in Slots \ {s} PROVE calls'[r] = calls[r]
    BY <1>2, <2>1, <2>2 DEF LoggedIn, Loaded, Changed, Controlled
  <2>3. ASSUME NEW t \in Users \cup {NoUser}, NEW after \in {"", "transition", "control"},
               NEW open \in BOOLEAN, calls'[s] = Load(t, after, open)
        PROVE  EndsLoading(calls'[s]) /\ (open /\ after = "control" => EndsBusy(calls'[s]))
    <3>1. Load(t, after, open) \in Call
      BY LoadOK DEF CallOK
    <3>2. /\ Load(t, after, open).op = "load" /\ Load(t, after, open).after = after
          /\ Load(t, after, open).open = open
      BY DEF Load, Sent
    <3> QED
      BY <2>3, <3>1, <3>2, DeskAssumption DEF EndsLoading, EndsBusy
  <2>4. calls[s].open \in BOOLEAN
    BY <2>1 DEF CallOK, Call
  <2>5. /\ stored \in Users \cup {NoUser}
        /\ stored' \in Users \cup {NoUser}
    BY <1>1 DEF DeskInv, TypeOK
  <2>6. CASE calls[s].op = "login" /\ LoggedIn(s)
    <3>1. ~EndsLoading(calls[s]) /\ ~EndsBusy(calls[s])
      BY <2>1, <2>6 DEF EndsLoading, EndsBusy, CallOK
    <3>2. ~signingIn' /\ busy' = busy
      BY <2>6 DEF LoggedIn, page_vars
    <3>3. loading' = loading \/ EndsLoading(calls'[s])
      <4>1. CASE session' # NoUser
        <5>1. calls'[s] = Load(stored', "", FALSE)
          BY <1>2, <2>6, <4>1 DEF LoggedIn
        <5> QED
          BY <2>3, <2>5, <5>1
      <4>2. CASE session' = NoUser
        BY <2>6, <4>2 DEF LoggedIn
      <4> QED
        BY <4>1, <4>2
    <3> QED
      BY <1>1, <2>2, <3>1, <3>2, <3>3 DEF SpinInv
  <2>7. CASE calls[s].op = "load" /\ Loaded(s)
    <3>1. ~EndsSigningIn(calls[s])
      BY <2>7 DEF EndsSigningIn
    <3>2. ~loading' /\ signingIn' = signingIn
      BY <2>7 DEF Loaded, session_vars
    <3>3. EndsBusy(calls[s]) => ~busy'
      BY <2>7 DEF EndsBusy, Loaded
    <3>4. busy' => busy
      BY <2>7, <1>1 DEF Loaded, DeskInv, TypeOK
    <3> QED
      BY <1>1, <2>2, <3>1, <3>2, <3>3, <3>4 DEF SpinInv
  <2>8. CASE calls[s].op \in {"create", "transition"} /\ Changed(s)
    <3>1. ~EndsSigningIn(calls[s]) /\ ~EndsBusy(calls[s])
      BY <2>1, <2>8 DEF EndsSigningIn, EndsBusy, CallOK
    <3>2. busy' = busy /\ signingIn' = signingIn
      BY <2>8 DEF Changed, session_vars, page_vars
    <3>3. ~loading' \/ EndsLoading(calls'[s])
      <4>1. CASE calls[s].phase = "done"
        <5>1. \/ calls'[s] = Load(stored, "", FALSE)
              \/ calls'[s] = Load(stored, "transition", calls[s].open)
          BY <1>2, <2>8, <4>1 DEF Changed
        <5> QED
          BY <2>3, <2>4, <2>5, <5>1
      <4>2. CASE calls[s].phase # "done"
        BY <2>8, <4>2 DEF Changed
      <4> QED
        BY <4>1, <4>2
    <3> QED
      BY <1>1, <2>2, <3>1, <3>2, <3>3 DEF SpinInv
  <2>9. CASE calls[s].op \in {"control_request", "control_confirm"} /\ Controlled(s)
    <3>1. ~EndsSigningIn(calls[s]) /\ ~EndsLoading(calls[s])
      BY <2>9 DEF EndsSigningIn, EndsLoading
    <3>2. signingIn' = signingIn
      BY <2>9 DEF Controlled, session_vars
    <3>3. loading' = loading \/ EndsLoading(calls'[s])
      <4>1. CASE calls[s].phase = "done"
        <5>1. calls'[s] = Load(stored, "control", calls[s].open)
          BY <1>2, <2>9, <4>1 DEF Controlled
        <5> QED
          BY <2>3, <2>4, <2>5, <5>1
      <4>2. CASE calls[s].phase # "done"
        BY <2>9, <4>2 DEF Controlled
      <4> QED
        BY <4>1, <4>2
    <3>4. (busy' => busy) /\ (EndsBusy(calls[s]) => ~busy' \/ EndsBusy(calls'[s]))
      <4>1. CASE calls[s].phase = "done"
        <5>1. calls'[s] = Load(stored, "control", calls[s].open) /\ busy' = busy
          BY <1>2, <2>9, <4>1 DEF Controlled
        <5> QED
          BY <2>3, <2>4, <2>5, <5>1 DEF EndsBusy
      <4>2. CASE calls[s].phase # "done"
        BY <2>9, <4>2, <1>1 DEF Controlled, EndsBusy, DeskInv, TypeOK
      <4> QED
        BY <4>1, <4>2
    <3> QED
      BY <1>1, <2>2, <3>1, <3>2, <3>3, <3>4 DEF SpinInv
  <2> QED
    BY <2>1, <2>6, <2>7, <2>8, <2>9
<1> QED
  BY <1>4, <1>5, <1>6, <1>7, <1>8 DEF Next

\* Whatever fails and in whatever order answers come, the list, the drawer and
\* the sign-in show as under way only while a call of theirs is (factory.ts:25,
\* 32, 39, useAuth.tsx:28, ValveExecutionPage.tsx:26).
THEOREM IndicatorsEnd == Spec => []NothingSpinsForEver
<1>1. Init => SpinInv
  <2> SUFFICES ASSUME Init PROVE SpinInv
    OBVIOUS
  <2>1. DeskInv
    BY InitType
  <2>2. PICK s \in Slots :
          \/ /\ signingIn = TRUE /\ loading = FALSE
             /\ calls = [r \in Slots |-> IF r = s THEN Login(Admin) ELSE NoCall]
          \/ /\ signingIn = FALSE /\ loading = TRUE
             /\ calls = [r \in Slots |-> IF r = s THEN Load(stored, "", FALSE) ELSE NoCall]
    BY DEF Init
  <2>3. /\ Login(Admin) # NoCall /\ Login(Admin).op = "login"
        /\ Load(stored, "", FALSE) # NoCall /\ Load(stored, "", FALSE).op = "load"
    <3>1. Login(Admin) \in Call /\ Load(stored, "", FALSE) \in Call
      BY <2>1, LoginOK, LoadOK, DeskAssumption DEF CallOK, DeskInv, TypeOK
    <3> QED
      BY <3>1, DeskAssumption DEF Login, Load, Sent
  <2> QED
    BY <2>1, <2>2, <2>3 DEF Init, SpinInv, EndsLoading, EndsSigningIn
<1>2. SpinInv => NothingSpinsForEver
  BY DEF SpinInv, NothingSpinsForEver, EndsLoading, EndsBusy, EndsSigningIn, Commands
<1> QED
  BY <1>1, <1>2, NextSpin, PTL DEF Spec

(***************************************************************************)
(* Copies.  The list, the dialog, the drawer and the calls hold copies of  *)
(* rows, each of a live row at some earlier time.  As versions only grow,  *)
(* a copy with the version of a live row is that row.                      *)
(***************************************************************************)
IsCopy(row, current) ==
    /\ row \in ValveRow /\ current \in ValveRow
    /\ row.version <= current.version
    /\ row.version = current.version /\ ~current.deleted => row = current

LEMMA RowIsItsCopy ==
    ASSUME NEW row \in ValveRow
    PROVE  IsCopy(row, row)
  BY DEF IsCopy, ValveRow

LEMMA CopyStays ==
    ASSUME NEW row, NEW current, NEW next \in ValveRow,
           IsCopy(row, current), Succeeds(current, next)
    PROVE  IsCopy(row, next)
<1>1. /\ row.version \in Nat /\ current.version \in Nat
      /\ row.version <= current.version /\ current # NoRow
  BY ValveRecordsAssumption DEF IsCopy, ValveRow
<1>2. CASE next.version = current.version + 1
  BY <1>1, <1>2 DEF IsCopy
<1>3. CASE next = [current EXCEPT !.deleted = TRUE]
  BY <1>1, <1>3 DEF IsCopy, ValveRow
<1> QED
  BY <1>1, <1>2, <1>3 DEF Succeeds

\* A step of the service, as it changes each row.
RowsGoOn ==
    \A c \in Codes : \/ table'[c] = table[c]
                     \/ table'[c] \in ValveRow /\ Succeeds(table[c], table'[c])

LEMMA StepGoesOn ==
    ASSUME table \in Listing, NEW c \in Codes, Operation(c)
    PROVE  RowsGoOn
<1>1. PICK row \in ValveRow : Put(c, row) /\ Succeeds(table[c], row)
  BY StepOfOne
<1> QED
  BY <1>1 DEF Put, RowsGoOn, Listing

LEMMA NextRows ==
    ASSUME DeskInv, [Next]_vars
    PROVE  RowsGoOn
<1>1. table \in Listing
  BY DEF DeskInv, TypeOK
<1>2. CASE Elsewhere
  BY <1>1, <1>2, StepGoesOn DEF Elsewhere, ControlNext
<1>3. ASSUME NEW s \in Slots, Serve(s) PROVE RowsGoOn
  <2>1. CASE calls[s].op = "create"
    <3>1. PICK c \in Codes : Create(c)
      BY <1>3, <2>1 DEF Serve, Commands
    <3> QED
      BY <1>1, <3>1, StepGoesOn DEF Operation
  <2>2. CASE calls[s].op \in Commands
    <3>1. Performs(calls[s]) /\ calls[s].shown.code \in Codes
      BY <1>3, <2>2 DEF Serve, Commands, DeskInv, CallsOK, CallOK, Item
    <3> QED
      BY <1>1, <3>1, PerformedIsAStep, StepGoesOn
  <2>3. CASE calls[s].op \in {"login", "load"}
    BY <1>3, <2>3 DEF Serve, Commands, RowsGoOn
  <2> QED
    BY <1>3, <2>1, <2>2, <2>3 DEF Serve
<1>4. CASE UNCHANGED table
  BY <1>4 DEF RowsGoOn
<1>5. ASSUME NEW s \in Slots,
             \/ ReadBack(s) \/ Fail(s) \/ Answer(s) \/ SwitchAccount(s) \/ Logout(s)
             \/ Refresh(s) \/ Revisit(s) \/ CreateDemo(s)
             \/ ConfirmAdvance(s) \/ Control(s)
      PROVE  UNCHANGED table
  BY <1>5 DEF ReadBack, Fail, Answer, SwitchAccount, Logout, Refresh, Revisit,
              CreateDemo, ConfirmAdvance, Control
<1>6. CASE \/ OtherTabSigns \/ Advance \/ CancelAdvance \/ Inspect \/ CloseDrawer
           \/ Acknowledge \/ UNCHANGED vars
  BY <1>4, <1>6 DEF OtherTabSigns, Advance, CancelAdvance, Inspect, CloseDrawer,
                    Acknowledge, vars
<1> QED
  BY <1>2, <1>3, <1>4, <1>5, <1>6 DEF Next

\* A copy of a record stays one.
LEMMA StillACopy ==
    ASSUME RowsGoOn, NEW c \in Codes, NEW row, IsCopy(row, table[c])
    PROVE  IsCopy(row, table'[c])
  BY CopyStays DEF RowsGoOn

\* The copies in a list, a record and a call, given the table.
ListCopies(list, rows) == \A c \in Codes : list[c] # NoRow => IsCopy(list[c], rows[c])

ItemCopies(item, rows) == item \in Item => IsCopy(item.row, rows[item.code])

CallCopies(call, rows) ==
    /\ call.op \in Commands => ItemCopies(call.shown, rows)
    /\ call.phase = "done" /\ call.op = "load" => ListCopies(call.result, rows)
    /\ call.phase = "done" /\ call.op \in Commands => ItemCopies(call.result, rows)

CopyInv ==
    /\ DeskInv
    /\ ListCopies(items, table)
    /\ pending # NoItem => ItemCopies(pending.item, table)
    /\ ItemCopies(selected, table)
    /\ \A s \in Slots : calls[s] # NoCall => CallCopies(calls[s], table)

LEMMA StillCopies ==
    ASSUME RowsGoOn
    PROVE  /\ \A list : ListCopies(list, table) => ListCopies(list, table')
           /\ \A item : ItemCopies(item, table) => ItemCopies(item, table')
           /\ \A call : CallCopies(call, table) => CallCopies(call, table')
<1>1. ASSUME NEW list, ListCopies(list, table) PROVE ListCopies(list, table')
  BY <1>1, StillACopy DEF ListCopies
<1>2. ASSUME NEW item, ItemCopies(item, table) PROVE ItemCopies(item, table')
  BY <1>2, StillACopy DEF ItemCopies, Item
<1> QED
  BY <1>1, <1>2 DEF CallCopies

LEMMA PutCopies ==
    ASSUME CopyInv, RowsGoOn, NEW s \in Slots, NEW call,
           calls' = [calls EXCEPT ![s] = call],
           call = NoCall \/ CallCopies(call, table')
    PROVE  \A r \in Slots : calls'[r] # NoCall => CallCopies(calls'[r], table')
<1>1. ASSUME NEW r \in Slots, calls'[r] # NoCall
      PROVE  CallCopies(calls'[r], table')
  <2>1. CASE r = s
    BY <1>1, <2>1 DEF CopyInv, DeskInv, CallsOK
  <2>2. CASE r # s
    BY <1>1, <2>2, StillCopies DEF CopyInv, DeskInv, CallsOK
  <2> QED
    BY <2>1, <2>2
<1> QED
  BY <1>1

\* A call that names no record holds no copy until it is answered.
LEMMA SentCopies ==
    ASSUME NEW call, call.phase = "sent", call.op \notin Commands, NEW rows
    PROVE  CallCopies(call, rows)
  BY DEF CallCopies

LEMMA ServeCopies ==
    ASSUME CopyInv, DeskInv', RowsGoOn, NEW s \in Slots, Serve(s) \/ ReadBack(s) \/ Fail(s)
    PROVE  CopyInv'
<1>1. calls[s] # NoCall /\ CallOK(calls[s]) /\ CallCopies(calls[s], table')
  BY StillCopies DEF Serve, ReadBack, Fail, CopyInv, DeskInv, CallsOK
<1>2. PICK phase \in Served, result \in Listing \cup Item \cup {NoItem} :
         /\ Answered(s, phase, result)
         /\ phase = "done" /\ calls[s].op = "load" => ListCopies(result, table')
         /\ phase = "done" /\ calls[s].op \in Commands => ItemCopies(result, table')
  <2>1. CASE Fail(s)
    BY <2>1 DEF Fail, Served
  <2>2. CASE Serve(s) /\ calls[s].op \in {"login", "create"}
    BY <2>2 DEF Serve, Commands, Served
  <2>3. CASE Serve(s) /\ calls[s].op = "load"
    <3>1. PICK codes : Answered(s, "done", Matching(codes)) /\ UNCHANGED table
      BY <2>3 DEF Serve, Commands
    <3>2. Matching(codes) \in Listing
      BY MatchingType DEF CopyInv, DeskInv, TypeOK
    <3>3. ASSUME NEW c \in Codes, Matching(codes)[c] # NoRow
          PROVE  IsCopy(Matching(codes)[c], table'[c])
      <4>1. Matching(codes)[c] = table'[c] /\ table'[c] \in ValveRow
        BY <3>1, <3>3 DEF Matching, CopyInv, DeskInv, TypeOK, Listing
      <4> QED
        BY <4>1, RowIsItsCopy
    <3>4. ListCopies(Matching(codes), table')
      BY <3>3 DEF ListCopies
    <3> QED
      BY <2>3, <3>1, <3>2, <3>4 DEF Commands, Served
  <2>4. CASE Serve(s) /\ calls[s].op \in Commands
    BY <2>4 DEF Serve, Commands, Served
  <2>5. CASE ReadBack(s)
    <3>1. PICK item \in Item : /\ Answered(s, "done", item)
                               /\ item.row = table[item.code]
                               /\ calls[s].op \in Commands
      BY <2>5, ReadBackItem DEF CopyInv
    <3>2. ItemCopies(item, table')
      BY <2>5, <3>1, RowIsItsCopy DEF ReadBack, ItemCopies, Item
    <3> QED
      BY <3>1, <3>2 DEF Served, Commands
  <2> QED
    BY <1>1, <2>1, <2>2, <2>3, <2>4, <2>5 DEF CallOK, Call, Commands
<1>3. calls' = [calls EXCEPT ![s] = AnsweredCall(calls[s], phase, result)]
  BY <1>2 DEF Answered, AnsweredCall
<1>4. CallCopies(AnsweredCall(calls[s], phase, result), table')
  <2>1. calls[s] \in Call
    BY <1>1 DEF CallOK
  <2> DEFINE a == AnsweredCall(calls[s], phase, result)
  <2>2. a.phase = phase /\ a.result = result /\ SamePurpose(calls[s], a)
    BY <2>1, AnsweredCallType
  <2> HIDE DEF a
  <2>3. CallCopies(a, table')
    BY <1>1, <1>2, <2>2 DEF CallCopies, SamePurpose
  <2> QED
    BY <2>3 DEF a
<1>5. \A r \in Slots : calls'[r] # NoCall => CallCopies(calls'[r], table')
  BY <1>3, <1>4, PutCopies
<1>6. UNCHANGED <<items, pending, selected>>
  BY DEF Serve, ReadBack, Fail, page_vars
<1> QED
  BY <1>5, <1>6, StillCopies DEF CopyInv

\* Steps that leave the calls and what the page shows alone, or close it.
LEMMA AsideCopies ==
    ASSUME CopyInv, DeskInv', RowsGoOn, UNCHANGED <<items, calls>>,
           UNCHANGED pending \/ pending' = NoItem,
           UNCHANGED selected \/ selected' = NoItem
    PROVE  CopyInv'
<1>1. \A r \in Slots : calls'[r] # NoCall => CallCopies(calls'[r], table')
  BY StillCopies DEF CopyInv
<1>2. ItemCopies(selected', table')
  BY StillCopies, DeskAssumption DEF CopyInv, ItemCopies
<1>3. pending' # NoItem => ItemCopies(pending'.item, table')
  BY StillCopies DEF CopyInv
<1>4. ListCopies(items', table')
  BY StillCopies DEF CopyInv
<1> QED
  BY <1>1, <1>2, <1>3, <1>4 DEF CopyInv

\* A step that gives one slot a call or frees it, and shows what was shown.
LEMMA SendCopies ==
    ASSUME CopyInv, DeskInv', RowsGoOn, NEW s \in Slots, NEW call,
           calls' = [calls EXCEPT ![s] = call],
           call = NoCall \/ CallCopies(call, table'),
           ListCopies(items', table'), ItemCopies(selected', table'),
           UNCHANGED pending \/ pending' = NoItem
    PROVE  CopyInv'
<1>1. \A r \in Slots : calls'[r] # NoCall => CallCopies(calls'[r], table')
  BY PutCopies
<1>2. pending' # NoItem => ItemCopies(pending'.item, table')
  BY StillCopies DEF CopyInv
<1> QED
  BY <1>1, <1>2 DEF CopyInv

LEMMA LeaveCopies ==
    ASSUME CopyInv, DeskInv', RowsGoOn, NEW s \in Slots,
           SwitchAccount(s) \/ Logout(s) \/ Revisit(s)
    PROVE  CopyInv'
<1>1. PICK call : /\ calls' = [Abandoned EXCEPT ![s] = call]
                  /\ call.phase = "sent" /\ call.op \notin Commands
  <2>1. ASSUME NEW u PROVE Login(u).phase = "sent" /\ Login(u).op \notin Commands
    BY DEF Login, Sent, Commands
  <2>2. /\ Load(stored, "", FALSE).phase = "sent"
        /\ Load(stored, "", FALSE).op \notin Commands
    BY DEF Load, Sent, Commands
  <2> QED
    BY <2>1, <2>2 DEF SwitchAccount, Logout, Revisit
<1>2. ASSUME NEW r \in Slots, calls'[r] # NoCall
      PROVE  CallCopies(calls'[r], table')
  <2>1. CASE r = s
    BY <1>1, <2>1, SentCopies DEF Abandoned
  <2>2. CASE r # s
    <3>1. calls[r] # NoCall /\ calls'[r] = ClosedCall(calls[r])
      BY <1>1, <1>2, <2>2 DEF Abandoned, ClosedCall
    <3>2. calls[r] \in Call /\ CallCopies(calls[r], table')
      BY <3>1, StillCopies DEF CopyInv, DeskInv, CallsOK
    <3> DEFINE a == ClosedCall(calls[r])
    <3>3. /\ a.phase = calls[r].phase /\ a.result = calls[r].result
          /\ SamePurpose(calls[r], a)
      BY <3>2, ClosedCallType
    <3> HIDE DEF a
    <3>4. CallCopies(a, table')
      BY <3>2, <3>3 DEF CallCopies, SamePurpose
    <3> QED
      BY <3>1, <3>4 DEF a
  <2> QED
    BY <2>1, <2>2
<1>3. pending' = NoItem /\ selected' = NoItem /\ items' = items
  BY DEF SwitchAccount, Logout, Revisit, ClosePage
<1> QED
  BY <1>2, <1>3, StillCopies, DeskAssumption DEF CopyInv, ItemCopies

LEMMA UserCopies ==
    ASSUME CopyInv, DeskInv', RowsGoOn, NEW s \in Slots,
           Refresh(s) \/ CreateDemo(s) \/ ConfirmAdvance(s) \/ Control(s)
    PROVE  CopyInv'
<1>1. UNCHANGED <<items, pending, selected>>
  BY DEF Refresh, CreateDemo, ConfirmAdvance, Control, page_vars
<1>2. ListCopies(items', table') /\ ItemCopies(selected', table')
  BY <1>1, StillCopies DEF CopyInv
<1>3. PICK call : Send(s, call) /\ CallCopies(call, table')
  <2>1. CASE Refresh(s)
    <3>1. /\ Load(stored, "", FALSE).phase = "sent"
          /\ Load(stored, "", FALSE).op \notin Commands
      BY DEF Load, Sent, Commands
    <3> QED
      BY <2>1, <3>1, SentCopies DEF Refresh
  <2>2. CASE CreateDemo(s)
    <3>1. /\ Sent("create", session, stored).phase = "sent"
          /\ Sent("create", session, stored).op \notin Commands
      BY DEF Sent, Commands
    <3> QED
      BY <2>2, <3>1, SentCopies DEF CreateDemo
  <2>3. ASSUME NEW op, NEW item, NEW to, ItemCopies(item, table')
        PROVE  CallCopies(Command(op, item, to), table')
    <3>1. Command(op, item, to).shown = item /\ Command(op, item, to).phase = "sent"
      BY DEF Command, Sent
    <3> QED
      BY <2>3, <3>1 DEF CallCopies
  <2>4. CASE ConfirmAdvance(s)
    <3>1. ItemCopies(pending.item, table')
      BY <2>4, StillCopies DEF ConfirmAdvance, CopyInv
    <3> QED
      BY <2>3, <2>4, <3>1 DEF ConfirmAdvance
  <2>5. CASE Control(s)
    <3>1. ItemCopies(selected, table')
      BY StillCopies DEF CopyInv
    <3> QED
      BY <2>3, <2>5, <3>1 DEF Control
  <2> QED
    BY <2>1, <2>2, <2>4, <2>5
<1> QED
  BY <1>1, <1>2, <1>3, SendCopies DEF Send

\* A line of the list goes to the dialog or the drawer.
LEMMA LineCopies ==
    ASSUME CopyInv, DeskInv', RowsGoOn, Advance \/ Inspect
    PROVE  CopyInv'
<1>1. PICK c \in Codes :
          /\ items[c] # NoRow
          /\ \/ /\ \E to : pending' = [item |-> [code |-> c, row |-> items[c]], to |-> to]
                /\ UNCHANGED selected
             \/ /\ selected' = [code |-> c, row |-> items[c]]
                /\ UNCHANGED pending
  BY DEF Advance, Inspect, Show
<1>2. ItemCopies([code |-> c, row |-> items[c]], table')
  <2>1. IsCopy(items[c], table'[c])
    BY <1>1, StillCopies DEF CopyInv, ListCopies
  <2> QED
    BY <2>1 DEF ItemCopies
<1>3. UNCHANGED <<items, calls>>
  BY DEF Advance, Inspect
<1>4. pending' # NoItem => ItemCopies(pending'.item, table')
  BY <1>1, <1>2, StillCopies DEF CopyInv
<1>5. ItemCopies(selected', table')
  BY <1>1, <1>2, StillCopies DEF CopyInv
<1>6. \A r \in Slots : calls'[r] # NoCall => CallCopies(calls'[r], table')
  BY <1>3, StillCopies DEF CopyInv
<1> QED
  BY <1>3, <1>4, <1>5, <1>6, StillCopies DEF CopyInv

\* An answer replaces the list or the record in the drawer by the copies it
\* brings.
LEMMA AnswerCopies ==
    ASSUME CopyInv, DeskInv', RowsGoOn, NEW s \in Slots, Answer(s)
    PROVE  CopyInv'
<1>1. /\ calls[s] # NoCall /\ calls[s].phase \in {"done", "failed"} /\ CallOK(calls[s])
      /\ \/ calls[s].op = "login" /\ LoggedIn(s)
         \/ calls[s].op = "load" /\ Loaded(s)
         \/ calls[s].op \in {"create", "transition"} /\ Changed(s)
         \/ calls[s].op \in {"control_request", "control_confirm"} /\ Controlled(s)
  BY AnswerCases DEF CopyInv, DeskInv, CallsOK
<1>2. CallCopies(calls[s], table')
  BY <1>1, StillCopies DEF CopyInv
<1>3. ListCopies(items, table') /\ ItemCopies(selected, table')
  BY StillCopies DEF CopyInv
<1>4. PICK call : /\ calls' = [calls EXCEPT ![s] = call]
                  /\ call = NoCall \/ CallCopies(call, table')
  <2>1. ASSUME NEW t, NEW after, NEW open
        PROVE  CallCopies(Load(t, after, open), table')
    <3>1. Load(t, after, open).phase = "sent" /\ Load(t, after, open).op \notin Commands
      BY DEF Load, Sent, Commands
    <3> QED
      BY <3>1, SentCopies
  <2>2. \/ calls' = [calls EXCEPT ![s] = NoCall]
        \/ calls' = [calls EXCEPT ![s] = Load(stored', "", FALSE)]
        \/ calls' = [calls EXCEPT ![s] = Load(stored, "", FALSE)]
        \/ calls' = [calls EXCEPT ![s] = Load(stored, "transition", calls[s].open)]
        \/ calls' = [calls EXCEPT ![s] = Load(stored, "control", calls[s].open)]
    BY <1>1 DEF LoggedIn, Loaded, Changed, Controlled
  <2> QED
    BY <2>1, <2>2
<1>5. UNCHANGED pending \/ pending' = NoItem
  BY <1>1 DEF LoggedIn, Loaded, Changed, Controlled, page_vars
<1>6. ListCopies(items', table')
  BY <1>1, <1>2, <1>3 DEF LoggedIn, Loaded, Changed, Controlled, CallCopies, CallOK, Call
<1>7. ItemCopies(selected', table')
  <2>1. CASE UNCHANGED selected
    BY <1>3, <2>1
  <2>2. CASE selected' # selected
    <3>1. selected' = calls[s].result /\ calls[s].phase = "done" /\ calls[s].op \in Commands
      BY <1>1, <2>2 DEF LoggedIn, Loaded, Changed, Controlled, Show, page_vars, Commands
    <3> QED
      BY <1>2, <3>1 DEF CallCopies
  <2> QED
    BY <2>1, <2>2
<1> QED
  BY <1>4, <1>5, <1>6, <1>7, SendCopies

LEMMA NextCopies == CopyInv /\ [Next]_vars => CopyInv'
<1> SUFFICES ASSUME CopyInv, [Next]_vars PROVE CopyInv'
  OBVIOUS
<1>1. DeskInv' /\ RowsGoOn
  BY NextType, NextRows DEF CopyInv
<1>2. CASE Elsewhere \/ OtherTabSigns \/ CancelAdvance \/ CloseDrawer \/ Acknowledge
  <2>1. /\ UNCHANGED <<items, calls>>
        /\ UNCHANGED pending \/ pending' = NoItem
        /\ UNCHANGED selected \/ selected' = NoItem
    BY <1>2 DEF Elsewhere, OtherTabSigns, CancelAdvance, CloseDrawer, Acknowledge, page_vars
  <2> QED
    BY <1>1, <2>1, AsideCopies
<1>3. CASE UNCHANGED vars
  BY <1>1, <1>3, AsideCopies DEF vars, page_vars
<1> QED
  BY <1>1, <1>2, <1>3, ServeCopies, LeaveCopies, UserCopies, LineCopies, AnswerCopies
  DEF Next

LEMMA InitCopies == Init => CopyInv
<1> SUFFICES ASSUME Init PROVE CopyInv
  OBVIOUS
<1>1. DeskInv
  BY InitType
<1>2. ASSUME NEW s \in Slots, calls[s] # NoCall
      PROVE  CallCopies(calls[s], table)
  <2>1. calls[s] = Login(Admin) \/ calls[s] = Load(stored, "", FALSE)
    BY <1>2 DEF Init
  <2>2. Login(Admin).phase = "sent" /\ Login(Admin).op \notin Commands
    BY DEF Login, Sent, Commands
  <2>3. Load(stored, "", FALSE).phase = "sent" /\ Load(stored, "", FALSE).op \notin Commands
    BY DEF Load, Sent, Commands
  <2> QED
    BY <2>1, <2>2, <2>3, SentCopies
<1> QED
  BY <1>1, <1>2, DeskAssumption DEF Init, CopyInv, ListCopies, ItemCopies

\* A step that serves a call that names a record, and changes the table,
\* performs the call's command.
LEMMA OnlyCommandsAct ==
    ASSUME DeskInv, [Next]_vars, NEW s \in Slots, calls[s] # NoCall,
           calls[s].shown # NoItem, calls'[s] # calls[s], table' # table
    PROVE  calls[s].op \in Commands /\ Performs(calls[s])
<1>1. ASSUME NEW r \in Slots,
             \/ ReadBack(r) \/ Fail(r) \/ Answer(r) \/ SwitchAccount(r) \/ Logout(r)
             \/ Refresh(r) \/ Revisit(r) \/ CreateDemo(r)
             \/ ConfirmAdvance(r) \/ Control(r)
      PROVE  FALSE
  BY <1>1 DEF ReadBack, Fail, Answer, SwitchAccount, Logout, Refresh, Revisit,
              CreateDemo, ConfirmAdvance, Control
<1>2. ~(\/ Elsewhere \/ OtherTabSigns \/ Advance \/ CancelAdvance \/ Inspect
        \/ CloseDrawer \/ Acknowledge \/ UNCHANGED vars)
  BY DEF Elsewhere, OtherTabSigns, Advance, CancelAdvance, Inspect, CloseDrawer,
         Acknowledge, vars
<1>3. PICK r \in Slots : Serve(r)
  BY <1>1, <1>2 DEF Next
<1>4. calls' = [calls EXCEPT ![r] = calls'[r]]
  BY <1>3 DEF Serve, Answered, DeskInv, CallsOK
<1>5. r = s
  BY <1>4 DEF DeskInv, CallsOK
<1>6. CallOK(calls[s])
  BY DEF DeskInv, CallsOK
<1> QED
  BY <1>3, <1>5, <1>6 DEF Serve, CallOK

\* What a user of the page changes is the record as it was on the screen: a
\* command names the version of the copy shown, it is performed only on a row
\* of that version, and the copy of that version is the row
\* (EntityPage.tsx:54, ValveExecutionPage.tsx:20).
THEOREM ActsOnlyOnWhatWasShown == Spec => ActsOnWhatWasShown
<1> DEFINE Acts == \A s \in Slots :
          /\ calls[s] # NoCall /\ calls[s].shown # NoItem
          /\ calls'[s] # calls[s] /\ table' # table
          => table[calls[s].shown.code] = calls[s].shown.row
<1>1. CopyInv /\ [Next]_vars => Acts
  <2> SUFFICES ASSUME CopyInv, [Next]_vars, NEW s \in Slots,
                      calls[s] # NoCall, calls[s].shown # NoItem,
                      calls'[s] # calls[s], table' # table
               PROVE  table[calls[s].shown.code] = calls[s].shown.row
    OBVIOUS
  <2>1. calls[s].op \in Commands /\ Performs(calls[s])
    BY OnlyCommandsAct DEF CopyInv
  <2>2. calls[s].shown \in Item /\ calls[s].expected = calls[s].shown.row.version
    BY <2>1 DEF CopyInv, DeskInv, CallsOK, CallOK
  <2>3. IsCopy(calls[s].shown.row, table[calls[s].shown.code])
    BY <2>1, <2>2 DEF CopyInv, CallCopies, ItemCopies
  <2>4. /\ ~table[calls[s].shown.code].deleted
        /\ table[calls[s].shown.code].version = calls[s].shown.row.version
    BY <2>1, <2>2 DEF Performs, Accepts, Live
  <2> QED
    BY <2>3, <2>4 DEF IsCopy
<1>2. CopyInv /\ [Next]_vars => [Acts]_vars
  BY <1>1
<1> QED
  BY <1>2, InitCopies, NextCopies, PTL DEF Spec, ActsOnWhatWasShown

(***************************************************************************)
(* Logins.  A new one begins only when no other is under way, so that the  *)
(* session does not change while its page is open.                         *)
(***************************************************************************)
LoginInv ==
    \A r \in Slots : EndsSigningIn(calls[r]) =>
        signingIn /\ \A s \in Slots : EndsSigningIn(calls[s]) => s = r

LEMMA LoginsEnd ==
    ASSUME LoginInv, signingIn => signingIn',
           \A r \in Slots : EndsSigningIn(calls'[r]) => EndsSigningIn(calls[r])
    PROVE  LoginInv'
  BY DEF LoginInv

\* A step that gives one slot a call other than a login, or frees it.
LEMMA NotALogin ==
    ASSUME DeskInv, LoginInv, NEW s \in Slots, NEW call, ~EndsSigningIn(call),
           calls' = [calls EXCEPT ![s] = call],
           UNCHANGED signingIn
    PROVE  LoginInv'
<1>1. \A r \in Slots : EndsSigningIn(calls'[r]) => EndsSigningIn(calls[r])
  BY DEF DeskInv, CallsOK
<1> QED
  BY <1>1, LoginsEnd

LEMMA LoadIsNoLogin ==
    ASSUME NEW t, NEW after, NEW open
    PROVE  ~EndsSigningIn(Load(t, after, open))
  BY DEF Load, Sent, EndsSigningIn

LEMMA ServeLogins ==
    ASSUME DeskInv, LoginInv, NEW s \in Slots, Serve(s) \/ ReadBack(s) \/ Fail(s)
    PROVE  LoginInv'
<1>1. PICK phase, result : Answered(s, phase, result)
  BY DEF Serve, ReadBack, Fail
<1>2. calls[s] # NoCall /\ UNCHANGED signingIn
  BY DEF Serve, ReadBack, Fail, session_vars
<1>3. calls[s] \in Call
  BY <1>2 DEF DeskInv, CallsOK
<1>4. calls' = [calls EXCEPT ![s] = AnsweredCall(calls[s], phase, result)]
  BY <1>1 DEF Answered, AnsweredCall
<1>5. AnsweredCall(calls[s], phase, result).op = calls[s].op
  BY <1>3 DEF AnsweredCall, Call
<1>6. \A r \in Slots : EndsSigningIn(calls'[r]) => EndsSigningIn(calls[r])
  BY <1>2, <1>4, <1>5 DEF EndsSigningIn, DeskInv, CallsOK
<1> QED
  BY <1>2, <1>6, LoginsEnd

LEMMA LeaveLogins ==
    ASSUME DeskInv, LoginInv, NEW s \in Slots,
           SwitchAccount(s) \/ Logout(s) \/ Revisit(s)
    PROVE  LoginInv'
<1>1. ~signingIn
  BY DEF SwitchAccount, Logout, Revisit, PageShown
<1>2. \A r \in Slots : ~EndsSigningIn(calls[r])
  BY <1>1 DEF LoginInv
<1>3. PICK call : /\ calls' = [Abandoned EXCEPT ![s] = call]
                  /\ EndsSigningIn(call) => signingIn'
  BY LoadIsNoLogin DEF SwitchAccount, Logout, Revisit
<1>4. ASSUME NEW r \in Slots, r # s PROVE ~EndsSigningIn(calls'[r])
  <2>1. calls'[r] = IF calls[r] = NoCall THEN NoCall ELSE ClosedCall(calls[r])
    BY <1>3, <1>4 DEF Abandoned, ClosedCall
  <2>2. CASE calls[r] = NoCall
    BY <2>1, <2>2 DEF EndsSigningIn
  <2>3. CASE calls[r] # NoCall
    <3>1. ClosedCall(calls[r]).op = calls[r].op
      BY <2>3 DEF ClosedCall, Call, DeskInv, CallsOK
    <3> QED
      BY <1>2, <2>1, <2>3, <3>1 DEF EndsSigningIn
  <2> QED
    BY <2>2, <2>3
<1>5. calls'[s] = call
  BY <1>3 DEF Abandoned
<1> QED
  BY <1>3, <1>4, <1>5 DEF LoginInv

LEMMA UserLogins ==
    ASSUME DeskInv, LoginInv, NEW s \in Slots,
           Refresh(s) \/ CreateDemo(s) \/ ConfirmAdvance(s) \/ Control(s)
    PROVE  LoginInv'
<1>1. UNCHANGED signingIn
  BY DEF Refresh, CreateDemo, ConfirmAdvance, Control, session_vars
<1>2. \A item, to : /\ ~EndsSigningIn(Command("transition", item, to))
                    /\ ~EndsSigningIn(Command("control_request", item, to))
                    /\ ~EndsSigningIn(Command("control_confirm", item, to))
  BY DEF Command, Sent, EndsSigningIn
<1>3. ~EndsSigningIn(Sent("create", session, stored))
  BY DEF Sent, EndsSigningIn
<1>4. PICK call : Send(s, call) /\ ~EndsSigningIn(call)
  BY <1>2, <1>3, LoadIsNoLogin DEF Refresh, CreateDemo, ConfirmAdvance, Control
<1> QED
  BY <1>1, <1>4, NotALogin DEF Send

LEMMA AnswerLogins ==
    ASSUME DeskInv, LoginInv, NEW s \in Slots, Answer(s)
    PROVE  LoginInv'
<1>1. /\ calls[s] # NoCall
      /\ \/ calls[s].op = "login" /\ LoggedIn(s)
         \/ Loaded(s) \/ Changed(s) \/ Controlled(s)
  BY AnswerCases
<1>2. PICK call : calls' = [calls EXCEPT ![s] = call] /\ ~EndsSigningIn(call)
  <2>1. ~EndsSigningIn(NoCall)
    BY DEF EndsSigningIn
  <2>2. \/ calls' = [calls EXCEPT ![s] = NoCall]
        \/ \E t, after, open : calls' = [calls EXCEPT ![s] = Load(t, after, open)]
    BY <1>1 DEF LoggedIn, Loaded, Changed, Controlled
  <2> QED
    BY <2>1, <2>2, LoadIsNoLogin
<1>3. CASE calls[s].op = "login" /\ LoggedIn(s)
  <2>1. \A r \in Slots : EndsSigningIn(calls[r]) => r = s
    BY <1>1, <1>3 DEF LoginInv, EndsSigningIn
  <2>2. \A r \in Slots : ~EndsSigningIn(calls'[r])
    BY <1>2, <2>1 DEF DeskInv, CallsOK
  <2> QED
    BY <2>2 DEF LoginInv
<1>4. CASE Loaded(s) \/ Changed(s) \/ Controlled(s)
  <2>1. UNCHANGED signingIn
    BY <1>4 DEF Loaded, Changed, Controlled, session_vars
  <2> QED
    BY <1>2, <2>1, NotALogin
<1> QED
  BY <1>1, <1>3, <1>4

LEMMA NextLogins == DeskInv /\ LoginInv /\ [Next]_vars => LoginInv'
<1> SUFFICES ASSUME DeskInv, LoginInv, [Next]_vars PROVE LoginInv'
  OBVIOUS
<1>1. CASE \/ Elsewhere \/ OtherTabSigns \/ Advance \/ CancelAdvance \/ Inspect
           \/ CloseDrawer \/ Acknowledge \/ UNCHANGED vars
  <2>1. UNCHANGED <<signingIn, calls>>
    BY <1>1 DEF Elsewhere, OtherTabSigns, Advance, CancelAdvance, Inspect, CloseDrawer,
                Acknowledge, vars, session_vars
  <2> QED
    BY <2>1 DEF LoginInv
<1> QED
  BY <1>1, ServeLogins, LeaveLogins, UserLogins, AnswerLogins DEF Next

LEMMA InitLogins == Init => LoginInv
<1> SUFFICES ASSUME Init PROVE LoginInv
  OBVIOUS
<1>1. PICK s \in Slots :
         \/ /\ signingIn = TRUE
            /\ calls = [r \in Slots |-> IF r = s THEN Login(Admin) ELSE NoCall]
         \/ calls = [r \in Slots |-> IF r = s THEN Load(stored, "", FALSE) ELSE NoCall]
  BY DEF Init
<1>2. ~EndsSigningIn(NoCall)
  BY DEF EndsSigningIn
<1> QED
  BY <1>1, <1>2, LoadIsNoLogin DEF LoginInv

(***************************************************************************)
(* What the page offers.  A command is given for a copy that was live and  *)
(* that fits the account of the page; both go with the call.               *)
(***************************************************************************)
Fits(call) ==
    LET row  == call.shown.row
        role == RoleOf[call.account]
    IN  /\ call.account \in Users
        /\ call.op = "transition" =>
              /\ role \in {"operator", "reviewer", "admin"}
              /\ call.to \in NextStatus(row.status)
              /\ ~(row.status = "planned" /\ call.to = "running")
        /\ call.op = "control_request" =>
              /\ role \in {"operator", "admin"}
              /\ row.status = "planned" /\ row.requestedBy = NoUser
        /\ call.op = "control_confirm" =>
              /\ role \in {"reviewer", "admin"}
              /\ row.status = "planned"
              /\ row.requestedBy \notin {NoUser, call.account}

NoneDeleted(list) == \A c \in Codes : list[c] # NoRow => ~list[c].deleted

NotDeleted(item) == item \in Item => ~item.row.deleted

Offered(call) ==
    /\ call.op \in Commands => NotDeleted(call.shown) /\ Fits(call)
    /\ call.phase = "done" /\ call.op = "load" => NoneDeleted(call.result)
    /\ call.phase = "done" /\ call.op \in Commands => NotDeleted(call.result)

OfferInv ==
    /\ DeskInv /\ LoginInv
    /\ NoneDeleted(items)
    /\ pending # NoItem =>
          NotDeleted(pending.item) /\ pending.to \in MayAdvance(pending.item.row)
    /\ NotDeleted(selected)
    /\ \A s \in Slots : calls[s] # NoCall => Offered(calls[s])

\* A call that names no record offers nothing until it is answered.
LEMMA SentOffer ==
    ASSUME NEW call, call.phase = "sent", call.op \notin Commands
    PROVE  Offered(call)
  BY DEF Offered

LEMMA LoadOffer ==
    ASSUME NEW t, NEW after, NEW open
    PROVE  Offered(Load(t, after, open))
<1>1. Load(t, after, open).phase = "sent" /\ Load(t, after, open).op \notin Commands
  BY DEF Load, Sent, Commands
<1> QED
  BY <1>1, SentOffer

LEMMA PutOffers ==
    ASSUME DeskInv, NEW s \in Slots, NEW call,
           calls' = [calls EXCEPT ![s] = call],
           call = NoCall \/ Offered(call),
           \A r \in Slots : calls[r] # NoCall => Offered(calls[r])
    PROVE  \A r \in Slots : calls'[r] # NoCall => Offered(calls'[r])
  BY DEF DeskInv, CallsOK

LEMMA ServeOffers ==
    ASSUME OfferInv, DeskInv', LoginInv', NEW s \in Slots, Serve(s) \/ ReadBack(s) \/ Fail(s)
    PROVE  OfferInv'
<1>1. calls[s] # NoCall /\ CallOK(calls[s]) /\ Offered(calls[s])
  BY DEF Serve, ReadBack, Fail, OfferInv, DeskInv, CallsOK
<1>2. PICK phase \in Served, result \in Listing \cup Item \cup {NoItem} :
         /\ Answered(s, phase, result)
         /\ phase = "done" /\ calls[s].op = "load" => NoneDeleted(result)
         /\ phase = "done" /\ calls[s].op \in Commands => NotDeleted(result)
  <2>1. CASE Fail(s)
    BY <2>1 DEF Fail, Served
  <2>2. CASE Serve(s) /\ calls[s].op \in {"login", "create"}
    BY <2>2 DEF Serve, Commands, Served
  <2>3. CASE Serve(s) /\ calls[s].op = "load"
    <3>1. PICK codes : Answered(s, "done", Matching(codes))
      BY <2>3 DEF Serve, Commands
    <3>2. Matching(codes) \in Listing
      BY MatchingType DEF OfferInv, DeskInv, TypeOK
    <3>3. NoneDeleted(Matching(codes))
      BY DEF NoneDeleted, Matching, Live
    <3> QED
      BY <2>3, <3>1, <3>2, <3>3 DEF Commands, Served
  <2>4. CASE Serve(s) /\ calls[s].op \in Commands
    BY <2>4 DEF Serve, Commands, Served
  <2>5. CASE ReadBack(s)
    BY <2>5, ReadBackItem DEF OfferInv, NotDeleted, Commands, Served
  <2> QED
    BY <1>1, <2>1, <2>2, <2>3, <2>4, <2>5 DEF CallOK, Call, Commands
<1>3. calls' = [calls EXCEPT ![s] = AnsweredCall(calls[s], phase, result)]
  BY <1>2 DEF Answered, AnsweredCall
<1>4. Offered(AnsweredCall(calls[s], phase, result))
  <2>1. calls[s] \in Call
    BY <1>1 DEF CallOK
  <2> DEFINE a == AnsweredCall(calls[s], phase, result)
  <2>2. a.phase = phase /\ a.result = result /\ SamePurpose(calls[s], a)
    BY <2>1, AnsweredCallType
  <2> HIDE DEF a
  <2>3. Offered(a)
    BY <1>1, <1>2, <2>2 DEF Offered, Fits, SamePurpose
  <2> QED
    BY <2>3 DEF a
<1>5. \A r \in Slots : calls'[r] # NoCall => Offered(calls'[r])
  BY <1>3, <1>4, PutOffers DEF OfferInv
<1>6. UNCHANGED <<items, pending, selected, session>>
  BY DEF Serve, ReadBack, Fail, page_vars, session_vars
<1> QED
  BY <1>5, <1>6 DEF OfferInv, MayAdvance

\* Steps that leave the calls alone, and what the page shows, or close it.
LEMMA AsideOffers ==
    ASSUME OfferInv, DeskInv', LoginInv', UNCHANGED <<session, items, calls>>,
           UNCHANGED pending \/ pending' = NoItem,
           UNCHANGED selected \/ selected' = NoItem
    PROVE  OfferInv'
  BY DeskAssumption DEF OfferInv, NotDeleted, MayAdvance

LEMMA LeaveOffers ==
    ASSUME OfferInv, DeskInv', LoginInv', NEW s \in Slots,
           SwitchAccount(s) \/ Logout(s) \/ Revisit(s)
    PROVE  OfferInv'
<1>1. PICK call : calls' = [Abandoned EXCEPT ![s] = call] /\ Offered(call)
  <2>1. ASSUME NEW u PROVE Offered(Login(u))
    <3>1. Login(u).phase = "sent" /\ Login(u).op \notin Commands
      BY DEF Login, Sent, Commands
    <3> QED
      BY <3>1, SentOffer
  <2> QED
    BY <2>1, LoadOffer DEF SwitchAccount, Logout, Revisit
<1>2. ASSUME NEW r \in Slots, calls'[r] # NoCall
      PROVE  Offered(calls'[r])
  <2>1. CASE r = s
    BY <1>1, <2>1 DEF Abandoned
  <2>2. CASE r # s
    <3>1. calls[r] # NoCall /\ calls'[r] = ClosedCall(calls[r])
      BY <1>1, <1>2, <2>2 DEF Abandoned, ClosedCall
    <3>2. calls[r] \in Call /\ Offered(calls[r])
      BY <3>1 DEF OfferInv, DeskInv, CallsOK
    <3> DEFINE a == ClosedCall(calls[r])
    <3>3. /\ a.phase = calls[r].phase /\ a.result = calls[r].result
          /\ SamePurpose(calls[r], a)
      BY <3>2, ClosedCallType
    <3> HIDE DEF a
    <3>4. Offered(a)
      BY <3>2, <3>3 DEF Offered, Fits, SamePurpose
    <3> QED
      BY <3>1, <3>4 DEF a
  <2> QED
    BY <2>1, <2>2
<1>3. pending' = NoItem /\ selected' = NoItem /\ items' = items
  BY DEF SwitchAccount, Logout, Revisit, ClosePage
<1> QED
  BY <1>2, <1>3, DeskAssumption DEF OfferInv, NotDeleted

LEMMA CommandOffer ==
    ASSUME NEW op \in Commands, NEW item, NEW to, NotDeleted(item),
           NEW call, call = Command(op, item, to), Fits(call)
    PROVE  Offered(call)
<1>1. call.shown = item /\ call.phase = "sent"
  BY DEF Command, Sent
<1> QED
  BY <1>1 DEF Offered

\* What the dialog and the drawer send is what they may.
LEMMA UserOffers ==
    ASSUME OfferInv, DeskInv', LoginInv', NEW s \in Slots,
           Refresh(s) \/ CreateDemo(s) \/ ConfirmAdvance(s) \/ Control(s)
    PROVE  OfferInv'
<1>1. UNCHANGED <<session, items, pending, selected>>
  BY DEF Refresh, CreateDemo, ConfirmAdvance, Control, page_vars, session_vars
<1>2. PageShown => session \in Users
  BY DEF PageShown, OfferInv, DeskInv, TypeOK
<1>3. \A op, item, to :
         /\ Command(op, item, to).op = op
         /\ Command(op, item, to).account = session
         /\ Command(op, item, to).shown = item
         /\ Command(op, item, to).to = to
  BY DEF Command, Sent
<1>4. PICK call : Send(s, call) /\ Offered(call)
  <2>1. CASE Refresh(s)
    BY <2>1, LoadOffer DEF Refresh
  <2>2. CASE CreateDemo(s)
    <3>1. /\ Sent("create", session, stored).phase = "sent"
          /\ Sent("create", session, stored).op \notin Commands
      BY DEF Sent, Commands
    <3> QED
      BY <2>2, <3>1, SentOffer DEF CreateDemo
  <2>3. CASE ConfirmAdvance(s)
    <3> DEFINE call == Command("transition", pending.item, pending.to)
    <3>1. NotDeleted(pending.item) /\ pending.to \in MayAdvance(pending.item.row)
      BY <2>3 DEF ConfirmAdvance, OfferInv
    <3>2. /\ RoleOf[session] \in {"operator", "reviewer", "admin"}
          /\ pending.to \in NextStatus(pending.item.row.status)
          /\ ~(pending.item.row.status = "planned" /\ pending.to = "running")
      BY <3>1 DEF MayAdvance
    <3>3. Send(s, call) /\ session \in Users
      BY <1>2, <2>3 DEF ConfirmAdvance
    <3>4. call = Command("transition", pending.item, pending.to)
      OBVIOUS
    <3> HIDE DEF call
    <3>5. Fits(call)
      BY <1>3, <3>2, <3>3, <3>4 DEF Fits
    <3>6. Offered(call)
      BY <3>1, <3>4, <3>5, CommandOffer DEF Commands
    <3> QED
      BY <3>3, <3>6
  <2>4. CASE Control(s)
    <3>1. /\ session \in Users /\ NotDeleted(selected)
          /\ \/ CanRequest /\ Send(s, Command("control_request", selected, ""))
             \/ CanConfirm /\ Send(s, Command("control_confirm", selected, ""))
      BY <1>2, <2>4 DEF Control, OfferInv
    <3>2. ASSUME CanRequest PROVE Offered(Command("control_request", selected, ""))
      <4>1. PICK call : call = Command("control_request", selected, "")
        OBVIOUS
      <4>2. /\ call.op = "control_request" /\ call.account = session
            /\ call.shown = selected
        BY <4>1 DEF Command, Sent
      <4>3. session \in Users /\ NotDeleted(selected)
        BY <3>1
      <4>4. Fits(call)
        BY <3>2, <4>2, <4>3 DEF Fits, CanRequest
      <4> QED
        BY <4>1, <4>3, <4>4, CommandOffer DEF Commands
    <3>3. ASSUME CanConfirm PROVE Offered(Command("control_confirm", selected, ""))
      <4>1. PICK call : call = Command("control_confirm", selected, "")
        OBVIOUS
      <4>2. /\ call.op = "control_confirm" /\ call.account = session
            /\ call.shown = selected
        BY <4>1 DEF Command, Sent
      <4>3. session \in Users /\ NotDeleted(selected)
        BY <3>1
      <4>4. Fits(call)
        BY <3>3, <4>2, <4>3 DEF Fits, CanConfirm
      <4> QED
        BY <4>1, <4>3, <4>4, CommandOffer DEF Commands
    <3> QED
      BY <3>1, <3>2, <3>3
  <2> QED
    BY <2>1, <2>2, <2>3, <2>4
<1>5. \A r \in Slots : calls'[r] # NoCall => Offered(calls'[r])
  BY <1>4, PutOffers DEF Send, OfferInv
<1> QED
  BY <1>1, <1>5 DEF OfferInv, MayAdvance

\* A line of the list goes to the dialog or the drawer.
LEMMA LineOffers ==
    ASSUME OfferInv, DeskInv', LoginInv', Advance \/ Inspect
    PROVE  OfferInv'
<1>1. UNCHANGED <<session, items, calls>>
  BY DEF Advance, Inspect, session_vars
<1>2. \A c \in Codes : items[c] # NoRow => NotDeleted([code |-> c, row |-> items[c]])
  BY DEF OfferInv, NoneDeleted, NotDeleted
<1>3. CASE Advance
  <2>1. PICK c \in Codes : \E to \in MayAdvance(items[c]) :
           /\ items[c] # NoRow
           /\ pending' = [item |-> [code |-> c, row |-> items[c]], to |-> to]
    BY <1>3 DEF Advance
  <2>2. NotDeleted(pending'.item) /\ pending'.to \in MayAdvance(pending'.item.row)
    BY <1>2, <2>1
  <2> QED
    BY <1>1, <1>3, <2>2 DEF Advance, OfferInv, MayAdvance
<1>4. CASE Inspect
  <2>1. NotDeleted(selected') /\ UNCHANGED pending
    BY <1>2, <1>4 DEF Inspect, Show
  <2> QED
    BY <1>1, <2>1 DEF OfferInv, MayAdvance
<1> QED
  BY <1>3, <1>4

\* An answer brings rows that were not deleted; the dialog of another account
\* is gone before the session changes.
LEMMA AnswerOffers ==
    ASSUME OfferInv, DeskInv', LoginInv', NEW s \in Slots, Answer(s)
    PROVE  OfferInv'
<1>1. /\ calls[s] # NoCall /\ calls[s].phase \in {"done", "failed"} /\ CallOK(calls[s])
      /\ Offered(calls[s])
      /\ \/ calls[s].op = "login" /\ LoggedIn(s)
         \/ calls[s].op = "load" /\ Loaded(s)
         \/ calls[s].op \in {"create", "transition"} /\ Changed(s)
         \/ calls[s].op \in {"control_request", "control_confirm"} /\ Controlled(s)
  BY AnswerCases DEF OfferInv, DeskInv, CallsOK
<1>2. PICK call : /\ calls' = [calls EXCEPT ![s] = call]
                  /\ call = NoCall \/ Offered(call)
  <2>1. LoggedIn(s) \/ Loaded(s) \/ Changed(s) \/ Controlled(s)
    BY <1>1
  <2>2. \/ calls' = [calls EXCEPT ![s] = NoCall]
        \/ \E t, after, open : calls' = [calls EXCEPT ![s] = Load(t, after, open)]
    BY <2>1 DEF LoggedIn, Loaded, Changed, Controlled
  <2> QED
    BY <2>2, LoadOffer
<1>3. \A r \in Slots : calls'[r] # NoCall => Offered(calls'[r])
  BY <1>2, PutOffers DEF OfferInv
<1>4. NoneDeleted(items')
  BY <1>1 DEF LoggedIn, Loaded, Changed, Controlled, Offered, OfferInv, CallOK, Call
<1>5. NotDeleted(selected')
  <2>1. CASE UNCHANGED selected
    BY <2>1 DEF OfferInv
  <2>2. CASE selected' # selected
    <3>1. selected' = calls[s].result /\ calls[s].phase = "done" /\ calls[s].op \in Commands
      BY <1>1, <2>2 DEF LoggedIn, Loaded, Changed, Controlled, Show, page_vars, Commands
    <3> QED
      BY <1>1, <3>1 DEF Offered
  <2> QED
    BY <2>1, <2>2
<1>6. pending' # NoItem => pending' = pending /\ UNCHANGED session
  <2>1. CASE calls[s].op = "login" /\ LoggedIn(s)
    <3>1. signingIn
      BY <1>1, <2>1 DEF OfferInv, LoginInv, EndsSigningIn
    <3>2. pending = NoItem
      BY <3>1 DEF OfferInv, DeskInv, TypeOK, PageShown
    <3> QED
      BY <2>1, <3>2 DEF LoggedIn, page_vars
  <2>2. CASE Loaded(s) \/ Changed(s) \/ Controlled(s)
    BY <2>2 DEF Loaded, Changed, Controlled, page_vars, session_vars
  <2> QED
    BY <1>1, <2>1, <2>2
<1>7. (pending # NoItem =>
          NotDeleted(pending.item) /\ pending.to \in MayAdvance(pending.item.row))'
  BY <1>6 DEF OfferInv, MayAdvance
<1> QED
  BY <1>3, <1>4, <1>5, <1>7 DEF OfferInv

LEMMA NextOffers == OfferInv /\ [Next]_vars => OfferInv'
<1> SUFFICES ASSUME OfferInv, [Next]_vars PROVE OfferInv'
  OBVIOUS
<1>1. DeskInv' /\ LoginInv'
  BY NextType, NextLogins DEF OfferInv
<1>2. CASE Elsewhere \/ OtherTabSigns \/ CancelAdvance \/ CloseDrawer \/ Acknowledge
  <2>1. /\ UNCHANGED <<session, items, calls>>
        /\ UNCHANGED pending \/ pending' = NoItem
        /\ UNCHANGED selected \/ selected' = NoItem
    BY <1>2 DEF Elsewhere, OtherTabSigns, CancelAdvance, CloseDrawer, Acknowledge,
                page_vars, session_vars
  <2> QED
    BY <1>1, <2>1, AsideOffers
<1>3. CASE UNCHANGED vars
  BY <1>1, <1>3, AsideOffers DEF vars, page_vars, session_vars
<1> QED
  BY <1>1, <1>2, <1>3, ServeOffers, LeaveOffers, UserOffers, LineOffers, AnswerOffers
  DEF Next

LEMMA InitOffers == Init => OfferInv
<1> SUFFICES ASSUME Init PROVE OfferInv
  OBVIOUS
<1>1. DeskInv /\ LoginInv
  BY InitType, InitLogins
<1>2. ASSUME NEW s \in Slots, calls[s] # NoCall
      PROVE  Offered(calls[s])
  <2>1. calls[s] = Login(Admin) \/ calls[s] = Load(stored, "", FALSE)
    BY <1>2 DEF Init
  <2>2. Login(Admin).phase = "sent" /\ Login(Admin).op \notin Commands
    BY DEF Login, Sent, Commands
  <2> QED
    BY <2>1, <2>2, SentOffer, LoadOffer
<1> QED
  BY <1>1, <1>2, DeskAssumption DEF Init, OfferInv, NoneDeleted, NotDeleted

\* The next status of the page is one of the graph.
LEMMA NextStatusFits ==
    ASSUME NEW from \in ExecutionStates, NEW to \in NextStatus(from),
           ~(from = "planned" /\ to = "running")
    PROVE  from # "planned" /\ to \in ValveExecutionTransitions[from]
<1>1. /\ Len(Statuses) - 1 = 3
      /\ Statuses[1] = "planned" /\ Statuses[2] = "running"
      /\ Statuses[3] = "succeeded" /\ Statuses[4] = "failed"
  BY DEF Statuses
<1>2. PICK i \in 1..3 : Statuses[i] = from /\ to = Statuses[i + 1]
  BY <1>1 DEF NextStatus
<1>3. i = 1 \/ i = 2 \/ i = 3
  OBVIOUS
<1>4. \/ from = "planned" /\ to = "running"
      \/ from = "running" /\ to = "succeeded"
      \/ from = "succeeded" /\ to = "failed"
  BY <1>1, <1>2, <1>3
<1> QED
  BY <1>4 DEF ValveExecutionTransitions

\* A command whose shown record is the row is one the service accepts.
LEMMA OfferedIsAccepted ==
    ASSUME NEW call, CallOK(call), Offered(call),
           call.op \in Commands, call.token = call.account,
           table[call.shown.code] = call.shown.row
    PROVE  Accepts(call)
<1> DEFINE u   == call.token
           row == table[call.shown.code]
<1>1. /\ row \in ValveRow /\ ~row.deleted
      /\ row = call.shown.row /\ row.version = call.expected
      /\ Fits(call) /\ call.account = u
  BY DEF CallOK, Offered, NotDeleted, Item
<1>2. u \in Users /\ Live(row)
  BY <1>1, ValveRecordsAssumption DEF Fits, Live
<1>3. CASE call.op = "transition"
  <2>1. /\ u \in Callers({"operator", "reviewer", "admin"})
        /\ call.to \in NextStatus(row.status)
        /\ ~(row.status = "planned" /\ call.to = "running")
    BY <1>1, <1>2, <1>3 DEF Fits, Callers
  <2>2. MayMove(row, call.to)
    BY <1>1, <1>2, <2>1, NextStatusFits DEF MayMove, ValveRow
  <2> QED
    BY <1>1, <1>2, <1>3, <2>1, <2>2 DEF Accepts
<1>4. CASE call.op = "control_request"
  BY <1>1, <1>2, <1>4 DEF Fits, Callers, MayAsk, Accepts
<1>5. CASE call.op = "control_confirm"
  BY <1>1, <1>2, <1>5 DEF Fits, Callers, MayConfirm, Accepts
<1> QED
  BY <1>3, <1>4, <1>5 DEF Commands

\* A command that the page offers is accepted, as long as the record is what
\* was shown and the token is that of the account shown: the statuses, roles
\* and the two-person rule of the page are those of the service
\* (EntityPage.tsx:50, PlanDrawer.tsx:24-25).
THEOREM OffersFitTheService == Spec => []OffersAreAccepted
<1>1. OfferInv => OffersAreAccepted
  BY OfferedIsAccepted DEF OfferInv, OffersAreAccepted, DeskInv, CallsOK
<1> QED
  BY <1>1, InitOffers, NextOffers, PTL DEF Spec
==============================================================================
