----------------------------- MODULE ControlDesk -----------------------------
(***************************************************************************)
(* The page /executions of the control desk in one browser tab (frontend): *)
(* the session, the record store, the dialog that asks before a status     *)
(* change and the drawer for the remote start.  The service is its         *)
(* promise, ValveControl; other clients act on it too.                     *)
(*                                                                         *)
(* Every call is asynchronous: sent, served (or failed) and answered, in   *)
(* any order with the other calls.  JavaScript runs the code between two   *)
(* awaits without interruption, so that is one step.  A record in the list *)
(* or the drawer is a copy of its row at the time it was served.           *)
(***************************************************************************)
EXTENDS ValveControl, Integers, Sequences

CONSTANTS
    Slots,        \* bound: calls under way at a time
    Admin,        \* the account of a first visit, "admin"
    OtherTabs,    \* accounts other tabs of the browser may sign in
    Searches,     \* for each search term the codes it matches
    NoItem,       \* no record
    NoCall,       \* an unused slot
    MaxVersion    \* bound: versions of a record

VARIABLES
    stored,       \* localStorage: the account whose token is sent, or NoUser
    session,      \* useAuth: the account this tab shows, or NoUser
    signingIn,    \* useAuth: loading
    items,        \* the store's list: code -> row, NoRow when it is not listed
    loading,      \* the store: loading
    pending,      \* the dialog: the record and its next status, or NoItem
    selected,     \* the record in the drawer, or NoItem
    acknowledged, \* the drawer's checkbox
    busy,         \* the drawer's command is under way
    calls         \* slot -> call under way, or NoCall

session_vars == <<stored, session, signingIn>>
page_vars == <<pending, selected, acknowledged, busy>>
vars == <<table, session_vars, items, loading, page_vars, calls>>

Item == [code : Codes, row : ValveRow]
Listing == [Codes -> ValveRow \cup {NoRow}]

\* "shown" is the record the user acted on, "expected" the version the call
\* names; "account" is who the tab showed (for a login, who signs in) and
\* "token" whose token was sent; "open" says that the page that made the call
\* still waits for it; "after" what a load was made for.  A command that is
\* "written" has changed its row and not read it back yet.
Call == [op      : {"login", "load", "create", "transition",
                    "control_request", "control_confirm"},
         account : Users \cup {NoUser},
         token   : Users \cup {NoUser},
         shown   : Item \cup {NoItem},
         expected: Nat,
         to      : ExecutionStates \cup {""},
         after   : {"", "transition", "control"},
         open    : BOOLEAN,
         phase   : {"sent", "written", "done", "failed"},
         result  : Listing \cup Item \cup {NoItem}]

Commands == {"transition", "control_request", "control_confirm"}

ASSUME DeskAssumption ==
    /\ Seeded \in [Codes -> ExecutionStates \cup {"absent"}]
    /\ Admin \in Users
    /\ OtherTabs \subseteq Users
    /\ Searches \subseteq SUBSET Codes /\ Codes \in Searches
    /\ MaxVersion \in Nat
    /\ NoItem \notin Item /\ NoCall \notin Call

------------------------------------------------------------------------------
\* The calls.

Sent(op, account, token) ==
    [op |-> op, account |-> account, token |-> token, shown |-> NoItem,
     expected |-> 0, to |-> "", after |-> "", open |-> FALSE,
     phase |-> "sent", result |-> NoItem]

Login(u) == Sent("login", u, NoUser)

Load(token, after, open) ==
    [Sent("load", NoUser, token) EXCEPT !.after = after, !.open = open]

\* Mutant of Command: the version is taken from the list as it is now.
CommandOnLatest(op, item, to) ==
    [Sent(op, session, stored) EXCEPT !.shown = item, !.to = to, !.open = TRUE,
        !.expected = IF items[item.code] = NoRow THEN item.row.version
                                                 ELSE items[item.code].version]

Command(op, item, to) ==
    [Sent(op, session, stored) EXCEPT !.shown = item, !.to = to, !.open = TRUE,
                                      !.expected = item.row.version]

\* The service accepts a command: its guards, on the row as it is.
Accepts(call) ==
    LET row == table[call.shown.code]
        u   == call.token
    IN  /\ Live(row) /\ row.version = call.expected
        /\ \/ /\ call.op = "transition"
              /\ u \in Callers({"operator", "reviewer", "admin"})
              /\ MayMove(row, call.to)
           \/ call.op = "control_request" /\ MayAsk(row, u)
           \/ call.op = "control_confirm" /\ MayConfirm(row, u)

\* ... and does one of the steps it promises.
Performs(call) ==
    LET c == call.shown.code
    IN  /\ Accepts(call)
        /\ \/ call.op = "transition" /\ Move(c, call.to)
           \/ call.op = "control_request" /\ AskForStart(c, call.token)
           \/ call.op = "control_confirm" /\ ConfirmStart(c, call.token)

Matching(codes) ==
    [c \in Codes |-> IF c \in codes /\ Live(table[c]) THEN table[c] ELSE NoRow]

Bounded == \A c \in Codes : Live(table'[c]) => table'[c].version <= MaxVersion

\* Nobody asks any more whose token was sent.
Answered(s, phase, result) ==
    calls' = [calls EXCEPT ![s].phase = phase, ![s].result = result,
                           ![s].token = NoUser]

\* The service serves the call.
Serve(s) ==
    LET call == calls[s]
    IN  /\ call # NoCall /\ call.phase = "sent"
        /\ \/ /\ call.op = "login"
              /\ Answered(s, "done", NoItem)
              /\ UNCHANGED table
           \/ /\ call.op = "load" /\ call.token # NoUser
              /\ \E codes \in IF call.after = "" THEN Searches ELSE {Codes} :
                    Answered(s, "done", Matching(codes))
              /\ UNCHANGED table
           \/ /\ call.op = "create"
              /\ call.token # NoUser /\ RoleOf[call.token] \in {"operator", "admin"}
              /\ \E c \in Codes : Create(c)
              /\ \E phase \in {"done", "failed"} : Answered(s, phase, NoItem)
           \/ /\ call.op \in Commands
              /\ Performs(call) /\ Bounded
              /\ Answered(s, "written", NoItem)
        /\ UNCHANGED <<session_vars, items, loading, page_vars>>

\* A command answers the row as it is by the time it is read again.
ReadBack(s) ==
    /\ calls[s] # NoCall /\ calls[s].phase = "written"
    /\ LET c == calls[s].shown.code
       IN  /\ Live(table[c])
           /\ Answered(s, "done", [code |-> c, row |-> table[c]])
    /\ UNCHANGED <<table, session_vars, items, loading, page_vars>>

\* The service refuses the call, the call does not reach it, or what follows
\* its write fails, up to its answer.
Fail(s) ==
    /\ calls[s] # NoCall /\ calls[s].phase \in {"sent", "written"}
    /\ Answered(s, "failed", NoItem)
    /\ UNCHANGED <<table, session_vars, items, loading, page_vars>>

Elsewhere ==
    /\ ControlNext /\ Bounded
    /\ UNCHANGED <<session_vars, items, loading, page_vars, calls>>

------------------------------------------------------------------------------
\* The session.

ClosePage ==
    /\ pending' = NoItem /\ selected' = NoItem
    /\ acknowledged' = FALSE /\ busy' = FALSE

\* Mutant of Abandoned: an answer finds the next page in place of its own.
AbandonedNot == calls

\* Calls go on when their page is closed, and no longer find it.
Abandoned ==
    [s \in Slots |-> IF calls[s] = NoCall THEN NoCall ELSE [calls[s] EXCEPT !.open = FALSE]]

PageShown == session # NoUser /\ ~signingIn

SwitchAccount(s) ==
    /\ ~signingIn /\ calls[s] = NoCall
    /\ \E u \in IF session = NoUser THEN {Admin} ELSE Users :
          calls' = [Abandoned EXCEPT ![s] = Login(u)]
    /\ signingIn' = TRUE
    /\ ClosePage
    /\ UNCHANGED <<table, stored, session, items, loading>>

Logout(s) ==
    /\ PageShown /\ calls[s] = NoCall
    /\ calls' = [Abandoned EXCEPT ![s] = Login(Admin)]
    /\ stored' = NoUser /\ session' = NoUser /\ signingIn' = TRUE
    /\ ClosePage
    /\ UNCHANGED <<table, items, loading>>

\* Another tab signs in or out: localStorage is one for all tabs, and this tab
\* does not notice.
OtherTabSigns ==
    /\ \E u \in OtherTabs \cup {NoUser} : stored # u /\ stored' = u
    /\ UNCHANGED <<table, session, signingIn, items, loading, page_vars, calls>>

\* A login ends; the page opens again when there is a session, and loads.
LoggedIn(s) ==
    LET call == calls[s]
    IN  /\ IF call.phase = "done"
           THEN stored' = call.account /\ session' = call.account
           ELSE UNCHANGED <<stored, session>>
        /\ signingIn' = FALSE
        /\ IF session' # NoUser
           THEN loading' = TRUE /\ calls' = [calls EXCEPT ![s] = Load(stored', "", FALSE)]
           ELSE UNCHANGED loading /\ calls' = [calls EXCEPT ![s] = NoCall]
        /\ UNCHANGED <<items, page_vars>>

------------------------------------------------------------------------------
\* The record store: the answers.

\* A load never throws: what waits for it goes on in either case.
Loaded(s) ==
    LET call == calls[s]
    IN  /\ items' = IF call.phase = "done" THEN call.result ELSE items
        /\ loading' = FALSE
        /\ pending' = IF call.open /\ call.after = "transition" THEN NoItem ELSE pending
        /\ busy' = IF call.open /\ call.after = "control" THEN FALSE ELSE busy
        /\ calls' = [calls EXCEPT ![s] = NoCall]
        /\ UNCHANGED <<session_vars, selected, acknowledged>>

\* Mutant of Changed: the catch only sets the error.
ChangedOrError(s) ==
    LET call == calls[s]
    IN  /\ IF call.phase = "done"
           THEN /\ loading' = TRUE
                /\ calls' = [calls EXCEPT ![s] =
                      IF call.op = "create" THEN Load(stored, "", FALSE)
                                            ELSE Load(stored, "transition", call.open)]
           ELSE UNCHANGED loading /\ calls' = [calls EXCEPT ![s] = NoCall]
        /\ UNCHANGED <<session_vars, items, page_vars>>

\* createRecord and transition: on success the list is loaded again.
Changed(s) ==
    LET call == calls[s]
    IN  /\ IF call.phase = "done"
           THEN /\ loading' = TRUE
                /\ calls' = [calls EXCEPT ![s] =
                      IF call.op = "create" THEN Load(stored, "", FALSE)
                                            ELSE Load(stored, "transition", call.open)]
           ELSE loading' = FALSE /\ calls' = [calls EXCEPT ![s] = NoCall]
        /\ UNCHANGED <<session_vars, items, page_vars>>

\* Mutant of Show: the checkbox stays as it is.
ShowTicked(item) ==
    /\ selected' = item
    /\ UNCHANGED acknowledged

\* The drawer shows another record or version, and its checkbox is reset.
Show(item) ==
    /\ selected' = item
    /\ acknowledged' = (acknowledged /\ item = selected)

\* The answer of a command of the drawer shows its record, whatever the drawer
\* shows by then.
Controlled(s) ==
    LET call == calls[s]
    IN  /\ IF call.phase = "done"
           THEN /\ IF call.open THEN Show(call.result)
                                ELSE UNCHANGED <<selected, acknowledged>>
                /\ loading' = TRUE
                /\ calls' = [calls EXCEPT ![s] = Load(stored, "control", call.open)]
                /\ UNCHANGED busy
           ELSE /\ busy' = (busy /\ ~call.open)
                /\ calls' = [calls EXCEPT ![s] = NoCall]
                /\ UNCHANGED <<selected, acknowledged, loading>>
        /\ UNCHANGED <<session_vars, items, pending>>

Answer(s) ==
    /\ calls[s] # NoCall /\ calls[s].phase \in {"done", "failed"}
    /\ CASE calls[s].op = "login" -> LoggedIn(s)
         [] calls[s].op = "load"  -> Loaded(s)
         [] calls[s].op \in {"create", "transition"} -> Changed(s)
         [] OTHER -> Controlled(s)
    /\ UNCHANGED table

------------------------------------------------------------------------------
\* What the user does.  The dialog and the drawer cover the page.

Free == PageShown /\ pending = NoItem /\ selected = NoItem

Send(s, call) ==
    /\ calls[s] = NoCall
    /\ calls' = [calls EXCEPT ![s] = call]

\* Query, reset, and the poll every 30 seconds, which a load under way stops
\* and neither dialog nor drawer does.
Refresh(s) ==
    /\ PageShown /\ (Free \/ ~loading)
    /\ Send(s, Load(stored, "", FALSE))
    /\ loading' = TRUE
    /\ UNCHANGED <<table, session_vars, items, page_vars>>

\* The user goes to another page and comes back.
Revisit(s) ==
    /\ PageShown /\ calls[s] = NoCall
    /\ calls' = [Abandoned EXCEPT ![s] = Load(stored, "", FALSE)]
    /\ loading' = TRUE
    /\ ClosePage
    /\ UNCHANGED <<table, session_vars, items>>

CreateDemo(s) ==
    /\ Free /\ RoleOf[session] \in {"operator", "admin"}
    /\ Send(s, Sent("create", session, stored))
    /\ loading' = TRUE
    /\ UNCHANGED <<table, session_vars, items, page_vars>>

Statuses == <<"planned", "running", "succeeded", "failed">>

NextStatus(status) ==
    {Statuses[i + 1] : i \in {j \in 1..(Len(Statuses) - 1) : Statuses[j] = status}}

\* The button of a line of the list.
MayAdvance(row) ==
    IF RoleOf[session] \in {"operator", "reviewer", "admin"}
    THEN {to \in NextStatus(row.status) : ~(row.status = "planned" /\ to = "running")}
    ELSE {}

Advance ==
    /\ Free
    /\ \E c \in {d \in Codes : items[d] # NoRow} : \E to \in MayAdvance(items[c]) :
          pending' = [item |-> [code |-> c, row |-> items[c]], to |-> to]
    /\ UNCHANGED <<table, session_vars, items, loading, selected, acknowledged, busy, calls>>

\* The dialog stays open until its call has ended, so it can be confirmed twice.
ConfirmAdvance(s) ==
    /\ PageShown /\ pending # NoItem
    /\ Send(s, Command("transition", pending.item, pending.to))
    /\ loading' = TRUE
    /\ UNCHANGED <<table, session_vars, items, page_vars>>

CancelAdvance ==
    /\ PageShown /\ pending # NoItem
    /\ pending' = NoItem
    /\ UNCHANGED <<table, session_vars, items, loading, selected, acknowledged, busy, calls>>

Inspect ==
    /\ Free
    /\ \E c \in {d \in Codes : items[d] # NoRow} : Show([code |-> c, row |-> items[c]])
    /\ UNCHANGED <<table, session_vars, items, loading, pending, busy, calls>>

CloseDrawer ==
    /\ PageShown /\ selected # NoItem
    /\ selected' = NoItem /\ acknowledged' = FALSE
    /\ UNCHANGED <<table, session_vars, items, loading, pending, busy, calls>>

CanRequest ==
    /\ selected.row.status = "planned"
    /\ selected.row.requestedBy = NoUser
    /\ RoleOf[session] \in {"operator", "admin"}

\* Mutant of CanConfirm: the requester is offered the confirmation too.
CanConfirmOwn ==
    /\ selected.row.status = "planned"
    /\ selected.row.requestedBy # NoUser
    /\ RoleOf[session] \in {"reviewer", "admin"}

CanConfirm ==
    /\ selected.row.status = "planned"
    /\ selected.row.requestedBy \notin {NoUser, session}
    /\ RoleOf[session] \in {"reviewer", "admin"}

Acknowledge ==
    /\ PageShown /\ selected # NoItem
    /\ CanRequest \/ CanConfirm
    /\ acknowledged' = ~acknowledged
    /\ UNCHANGED <<table, session_vars, items, loading, pending, selected, busy, calls>>

Control(s) ==
    /\ PageShown /\ selected # NoItem
    /\ acknowledged /\ ~busy
    /\ \/ CanRequest /\ Send(s, Command("control_request", selected, ""))
       \/ CanConfirm /\ Send(s, Command("control_confirm", selected, ""))
    /\ busy' = TRUE
    /\ UNCHANGED <<table, session_vars, items, loading, pending, selected, acknowledged>>

------------------------------------------------------------------------------
\* The first visit of a browser, and a later one.
Init ==
    /\ ControlInit
    /\ \E s \in Slots :
          \/ /\ stored = NoUser /\ session = NoUser
             /\ signingIn = TRUE /\ loading = FALSE
             /\ calls = [r \in Slots |-> IF r = s THEN Login(Admin) ELSE NoCall]
          \/ /\ stored \in Users /\ session = stored
             /\ signingIn = FALSE /\ loading = TRUE
             /\ calls = [r \in Slots |-> IF r = s THEN Load(stored, "", FALSE) ELSE NoCall]
    /\ items = [c \in Codes |-> NoRow]
    /\ pending = NoItem /\ selected = NoItem
    /\ acknowledged = FALSE /\ busy = FALSE

Next ==
    \/ Elsewhere \/ OtherTabSigns
    \/ Advance \/ CancelAdvance \/ Inspect \/ CloseDrawer \/ Acknowledge
    \/ \E s \in Slots : \/ Serve(s) \/ ReadBack(s) \/ Fail(s) \/ Answer(s)
                        \/ SwitchAccount(s) \/ Logout(s)
                        \/ Refresh(s) \/ Revisit(s) \/ CreateDemo(s)
                        \/ ConfirmAdvance(s) \/ Control(s)

Spec == Init /\ [][Next]_vars

------------------------------------------------------------------------------
\* Every variable holds a value of its type, and the page is closed while
\* nobody is signed in or an account is being switched.
TypeOK ==
    /\ table \in Listing
    /\ stored \in Users \cup {NoUser} /\ session \in Users \cup {NoUser}
    /\ signingIn \in BOOLEAN /\ loading \in BOOLEAN
    /\ items \in Listing
    /\ pending \in [item : Item, to : ExecutionStates] \cup {NoItem}
    /\ selected \in Item \cup {NoItem}
    /\ acknowledged \in BOOLEAN /\ busy \in BOOLEAN
    /\ calls \in [Slots -> Call \cup {NoCall}]
    /\ ~PageShown => pending = NoItem /\ selected = NoItem /\ ~acknowledged /\ ~busy

\* What a user of this page changes is the record exactly as it was on the
\* screen at the click: however old the list, the dialog or the drawer, and
\* however often the dialog is confirmed, no change of somebody else is
\* overwritten unseen (EntityPage.tsx:54, ValveExecutionPage.tsx:20).
ActsOnWhatWasShown ==
    [][\A s \in Slots :
          /\ calls[s] # NoCall /\ calls[s].shown # NoItem
          /\ calls'[s] # calls[s] /\ table' # table
          => table[calls[s].shown.code] = calls[s].shown.row]_vars

\* A tick holds for the record and version it was given for: it does not
\* survive an answer that shows another one (PlanDrawer.tsx:23).
TickIsForOneVersion ==
    [][acknowledged /\ acknowledged' => selected' = selected]_vars

\* A command the page offers is one the service accepts, as long as the record
\* is still what was shown and the token is that of the account shown: the
\* statuses, roles and the two-person rule of the page are those of the
\* service (README.md:140, PlanDrawer.tsx:24-25).
OffersAreAccepted ==
    \A s \in Slots :
        /\ calls[s] # NoCall /\ calls[s].phase = "sent" /\ calls[s].op \in Commands
        /\ calls[s].token = calls[s].account
        /\ table[calls[s].shown.code] = calls[s].shown.row
        => Accepts(calls[s])

\* Nothing spins for ever: what shows as under way waits for a call that is,
\* whatever fails and in whatever order answers arrive (factory.ts:25, 32, 39,
\* useAuth.tsx:28, ValveExecutionPage.tsx:26).
NothingSpinsForEver ==
    LET underWay == {s \in Slots : calls[s] # NoCall}
    IN  /\ loading => \E s \in underWay : calls[s].op \in {"load", "create", "transition"}
        /\ busy => \E s \in underWay :
               calls[s].open /\ (calls[s].op \in Commands \/ calls[s].after = "control")
        /\ signingIn => \E s \in underWay : calls[s].op = "login"
==============================================================================
