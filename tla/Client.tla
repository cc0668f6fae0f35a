------------------------------- MODULE Client -------------------------------
(***************************************************************************)
(* One browser tab: the session, the pages, and the query cache between    *)
(* them and the server.                                                    *)
(*                                                                         *)
(* Queries do not influence one another, so a behaviour follows one of     *)
(* them, chosen in Init.  What it shows is a version: the number of        *)
(* committed changes, by whoever, to the tables it reads.  The parameters  *)
(* of a query (filters, page, month, id) are not told apart, and a page    *)
(* has all of its tabs open.                                               *)
(*                                                                         *)
(* The cache is the query library's with its defaults, from how src/ uses  *)
(* it: data is stale at once, so mounting a query, or focusing the window, *)
(* fetches unless a fetch is under way; an invalidation refetches what is  *)
(* mounted, cancelling a fetch under way if there is data to show          *)
(* meanwhile and joining it if there is none; a failed fetch is retried    *)
(* and then leaves the old data in place.                                  *)
(***************************************************************************)
EXTENDS Naturals

CONSTANTS
    Account,
    Kind,           \* what an account is: HR, FULL_TIME or PART_TIME
    MaxVersion,     \* bound on the changes to what the query reads
    None

ASSUME ClientAssumption ==
    /\ Kind \in [Account -> {"HR", "FULL_TIME", "PART_TIME"}]
    /\ MaxVersion \in Nat
    /\ None \notin Account

-----------------------------------------------------------------------------
(* What each query reads and each change writes.                           *)

EmployeeRead == {"employee", "employment"}
BalanceRead == {"employee", "employment", "leave", "ledger"}
CalendarRead == {"leave", "employee", "holiday"}
PreviewRead ==
    {"period", "payslip", "employee", "employment", "leave", "holiday", "log",
     "overtime", "claim"}
HrDashboardRead ==
    {"employee", "employment", "leave", "holiday", "overtime", "claim", "period",
     "payslip"}
EmployeeDashboardRead == HrDashboardRead \cup {"ledger", "log"}

Reads ==
    [users |-> {"user", "employee"}, roles |-> {},
     employees |-> EmployeeRead, employee |-> EmployeeRead,
     leave |-> {"leave", "employee"}, leaveBalance |-> BalanceRead,
     leaveBalances |-> BalanceRead, leaveCalendar |-> CalendarRead,
     holidays |-> {"holiday"}, dailyLogs |-> {"log", "employee"},
     overtime |-> {"overtime", "employee"}, reimbursements |-> {"claim", "employee"},
     payrollPeriods |-> {"period", "payslip"}, payrollPreview |-> PreviewRead,
     myPayslips |-> {"payslip", "period"},
     hrDashboard |-> HrDashboardRead, employeeDashboard |-> EmployeeDashboardRead,
     notifications |-> {"notification"}, unread |-> {"notification"}]

Query == DOMAIN Reads

\* A handler that tells somebody, or settles what was told, writes notifications.
Writes ==
    [createUser |-> {"user"}, updateUser |-> {"user"}, changePassword |-> {"user"},
     createEmployee |-> EmployeeRead, updateEmployee |-> EmployeeRead,
     uploadContract |-> {"employment"},
     terminate |-> {"employment", "ledger", "notification"}, rehire |-> {"employment"},
     submitLeave |-> {"leave", "ledger", "notification"},
     cancelLeave |-> {"leave", "ledger", "notification"},
     createHoliday |-> {"holiday"}, updateHoliday |-> {"holiday"},
     deleteHoliday |-> {"holiday"},
     createLog |-> {"log"}, updateLog |-> {"log"}, deleteLog |-> {"log"},
     submitOvertime |-> {"overtime", "notification"},
     reviewOvertime |-> {"overtime", "notification"},
     cancelOvertime |-> {"overtime", "notification"},
     submitReimbursement |-> {"claim", "notification"},
     reviewReimbursement |-> {"claim", "notification"},
     cancelReimbursement |-> {"claim", "notification"},
     createPeriod |-> {"period"}, updatePeriod |-> {"period"},
     finalizePeriod |-> {"period", "payslip", "notification"},
     deletePeriod |-> {"period"},
     markRead |-> {"notification"}, markAllRead |-> {"notification"}]

Mutation == DOMAIN Writes

-----------------------------------------------------------------------------
(* The pages: which queries one mounts, which changes it offers.           *)

Page(mounts, offers) == [mounts |-> mounts, offers |-> offers]
ForbiddenPage == Page({}, {})
LoginPage == Page({}, {})

\* Their forms, drawers and cards.
RequestLeaveModal == {"submitLeave"}
SubmitOvertimeModal == {"submitOvertime"}
SubmitReimbursementModal == {"submitReimbursement"}
DailyLogModal == {"createLog", "updateLog"}
HolidayFormModal == {"createHoliday", "updateHoliday"}
UserFormModal == {"createUser", "updateUser"}
EmployeeFormDrawer == {"createEmployee", "updateEmployee", "uploadContract"}
EmploymentHistoryCard == {"terminate", "rehire"}
ChangePasswordCard == {"changePassword"}
LeaveCalendar == {"leaveCalendar"}

HrDashboard == Page({"hrDashboard"}, {})
EmployeeDashboard == Page({"employeeDashboard"}, {})
NotificationsPage == Page({"notifications"}, {"markRead", "markAllRead"})
ProfilePage(own) == Page(own, ChangePasswordCard)
MyDailyLogPage == Page({"dailyLogs"}, DailyLogModal \cup {"deleteLog"})
MyOvertimePage == Page({"overtime"}, SubmitOvertimeModal \cup {"cancelOvertime"})
MyReimbursementsPage ==
    Page({"reimbursements"}, SubmitReimbursementModal \cup {"cancelReimbursement"})
MyPayslipsPage == Page({"myPayslips"}, {})
MyLeavePage ==
    Page({"leave", "leaveBalance"} \cup LeaveCalendar,
         RequestLeaveModal \cup {"cancelLeave"})
HolidaysOfEmployee == Page({"holidays"} \cup LeaveCalendar, {})
HolidaysPage == Page({"holidays"}, HolidayFormModal \cup {"deleteHoliday"})
\* The drawer shows the balance of the employee who was edited last, closed or not.
EmployeesListPage == Page({"employees", "leaveBalance"}, EmployeeFormDrawer)
EmployeeDetailPage == Page({"employee"}, EmploymentHistoryCard)
LeaveReviewPage == Page({"leave", "leaveBalances"} \cup LeaveCalendar, {"cancelLeave"})
DailyLogsReviewPage ==
    Page({"dailyLogs", "employees"}, (DailyLogModal \ {"createLog"}) \cup {"deleteLog"})
OvertimeReviewPage == Page({"overtime"}, {"reviewOvertime"})
ReimbursementsReviewPage == Page({"reimbursements"}, {"reviewReimbursement"})
PayrollPage == Page({"payrollPeriods"}, {"createPeriod"})
PayrollPeriodDetailPage ==
    Page({"payrollPreview"}, {"updatePeriod", "finalizePeriod", "deletePeriod"})
UsersPage == Page({"users", "roles", "employees"}, UserFormModal)

\* Mounted by the layout around every page, twice: the bell and the sidebar.
AppLayout == {"unread"}
Polled == {"unread"}
\* What a page shows and leaves alone when one of its own changes touches it: the
\* badge, until its poll, and the drawer's balance, until its next fetch.
LeftAlone(path) == Polled \cup IF path = "/employees" THEN {"leaveBalance"} ELSE {}

EveryPath ==
    {"/login", "/dashboard", "/notifications", "/profile", "/my-leave", "/my-daily-log",
     "/my-overtime", "/my-reimbursements", "/my-payslips", "/holidays"}
HrPath ==
    {"/employees", "/employees/:id", "/leave", "/daily-logs", "/overtime",
     "/reimbursements", "/payroll", "/payroll/:id", "/users"}
Path == EveryPath \cup HrPath

EveryRoute(path) ==
    CASE path = "/login" -> LoginPage
      [] path = "/notifications" -> NotificationsPage
      [] path = "/my-leave" -> MyLeavePage
      [] path = "/my-daily-log" -> MyDailyLogPage
      [] path = "/my-overtime" -> MyOvertimePage
      [] path = "/my-reimbursements" -> MyReimbursementsPage
      [] path = "/my-payslips" -> MyPayslipsPage
\* HR's accounts are taken to have no employee profile.
HrRoute(path) ==
    CASE path = "/dashboard" -> HrDashboard
      [] path = "/profile" -> ProfilePage({})
      [] path = "/holidays" -> HolidaysPage
      [] path = "/employees" -> EmployeesListPage
      [] path = "/employees/:id" -> EmployeeDetailPage
      [] path = "/leave" -> LeaveReviewPage
      [] path = "/daily-logs" -> DailyLogsReviewPage
      [] path = "/overtime" -> OvertimeReviewPage
      [] path = "/reimbursements" -> ReimbursementsReviewPage
      [] path = "/payroll" -> PayrollPage
      [] path = "/payroll/:id" -> PayrollPeriodDetailPage
      [] path = "/users" -> UsersPage
      [] OTHER -> EveryRoute(path)
\* RequireRole: an employee is shown a refusal on a page of HR's.
EmployeeRoute(path) ==
    CASE path = "/dashboard" -> EmployeeDashboard
      [] path = "/profile" -> ProfilePage({"employee"})
      [] path = "/holidays" -> HolidaysOfEmployee
      [] path \in HrPath -> ForbiddenPage
      [] OTHER -> EveryRoute(path)

Screen(path, u) == IF Kind[u] = "HR" THEN HrRoute(path) ELSE EmployeeRoute(path)

\* Where a path leads to: RequireAuth, RequireFullTime, the sign-in page's own redirect.
Target(path, u) ==
    CASE u = None -> "/login"
      [] u # None /\ path = "/login" -> "/dashboard"
      [] u # None /\ path = "/my-leave" /\ Kind[u] = "PART_TIME" -> "/dashboard"
      [] OTHER -> path

-----------------------------------------------------------------------------
(* What each change invalidates when it has succeeded.                     *)

EmployeesApi ==
    [createEmployee |-> {"employees"}, updateEmployee |-> {"employees", "employee"},
     uploadContract |-> {"employees", "employee"},
     terminate |-> {"employees", "employee", "hrDashboard", "employeeDashboard",
                    "leaveBalances", "payroll"},
     rehire |-> {"employees", "employee", "hrDashboard", "employeeDashboard",
                 "leaveBalances", "payroll"}]
\* Wrong: the calendar is forgotten.
LeaveKeysOfLists == {"leave", "leaveBalance", "leaveBalances"}
LeaveKeys == {"leave", "leaveBalance", "leaveBalances", "leaveCalendar"}
LeaveApi == [submitLeave |-> LeaveKeys, cancelLeave |-> LeaveKeys]
OvertimeApi ==
    [m \in {"submitOvertime", "reviewOvertime", "cancelOvertime"} |-> {"overtime"}]
ReimbursementsApi ==
    [m \in {"submitReimbursement", "reviewReimbursement", "cancelReimbursement"} |->
        {"reimbursements"}]
DailyLogsApi == [m \in {"createLog", "updateLog", "deleteLog"} |-> {"dailyLogs"}]
HolidaysApi ==
    [m \in {"createHoliday", "updateHoliday", "deleteHoliday"} |-> {"holidays"}]
PayrollApi ==
    [m \in {"createPeriod", "updatePeriod", "finalizePeriod", "deletePeriod"} |->
        {"payrollPeriods", "payrollPreview"}]
NotificationsApi == [m \in {"markRead", "markAllRead"} |-> {"notifications", "unread"}]
UsersApi == [m \in {"createUser", "updateUser"} |-> {"users"}]
AuthApi == [changePassword |-> {}]

Invalidates ==
    [m \in Mutation |->
        CASE m \in DOMAIN EmployeesApi -> EmployeesApi[m]
          [] m \in DOMAIN LeaveApi -> LeaveApi[m]
          [] m \in DOMAIN OvertimeApi -> OvertimeApi[m]
          [] m \in DOMAIN ReimbursementsApi -> ReimbursementsApi[m]
          [] m \in DOMAIN DailyLogsApi -> DailyLogsApi[m]
          [] m \in DOMAIN HolidaysApi -> HolidaysApi[m]
          [] m \in DOMAIN PayrollApi -> PayrollApi[m]
          [] m \in DOMAIN NotificationsApi -> NotificationsApi[m]
          [] m \in DOMAIN UsersApi -> UsersApi[m]
          [] m \in DOMAIN AuthApi -> AuthApi[m]]

\* Where onSuccess returns the promise of the invalidation the mutation is not over,
\* and its form stays open, until the refetch is.
Awaited ==
    {"createEmployee"} \cup DOMAIN OvertimeApi \cup DOMAIN ReimbursementsApi
    \cup DOMAIN DailyLogsApi \cup DOMAIN HolidaysApi \cup DOMAIN UsersApi

\* Handlers that go to another page afterwards.
After ==
    [m \in Mutation |-> CASE m = "createPeriod" -> "/payroll/:id"
                           [] m = "deletePeriod" -> "/payroll"
                           [] OTHER -> None]

-----------------------------------------------------------------------------
VARIABLES
    query,      \* the query that is followed
    token,      \* localStorage.token: whose it is
    user, loading,  \* AuthContext
    page,
    cache,      \* the query's data: on whose behalf, and of which version; history: whether
                \* its fetch was an orphan
    flight,     \* its fetch under way: likewise, once the server has answered; history:
                \* whether it was joined for a change it does not show, and whether it is
                \* an orphan: whoever sent it has signed out since
    call,       \* the mutation under way
    version,    \* of what the query reads, on the server
    ended,      \* accounts whose access has ended
    owed,       \* history: the version that successful mutations have to have shown
    told,       \* history: likewise, those that announced it after a refetch
    old         \* history: the latest fetch failed, or was joined too late for it

session == <<token, user, loading, page>>
data == <<cache, flight, old>>
vars == <<query, token, user, loading, page, cache, flight, call, version, ended,
          owed, told, old>>

Fetched == [by : Account, seen : 0..MaxVersion, orphan : BOOLEAN]
Flight ==
    [by : Account \cup {None}, seen : 0..MaxVersion \cup {None}, late : BOOLEAN,
     orphan : BOOLEAN]
Call ==
    [m : Mutation, by : Account \cup {None}, phase : {"sent", "done", "settled"},
     v : 0..MaxVersion, away : BOOLEAN]

ASSUME NoneAssumption == None \notin Fetched \cup Flight \cup Call

TypeOK ==
    /\ query \in Query
    /\ token \in Account \cup {None} /\ user \in Account \cup {None}
    /\ loading \in BOOLEAN
    /\ page \in Path
    /\ cache \in Fetched \cup {None}
    /\ flight \in Flight \cup {None}
    /\ call \in Call \cup {None}
    /\ version \in 0..MaxVersion /\ owed \in 0..version /\ told \in 0..version
    /\ ended \subseteq Account
    /\ old \in BOOLEAN

Init ==
    /\ query \in Query
    /\ token = None /\ user = None /\ loading = FALSE /\ page = "/login"
    /\ cache = None /\ flight = None /\ old = FALSE
    /\ call = None
    /\ version = 0 /\ owed = 0 /\ told = 0
    /\ ended = {}

Later(a, b) == IF a > b THEN a ELSE b
Mounted == user # None /\ query \in AppLayout \cup Screen(page, user).mounts

\* A fetch goes out with the token of the moment; the data shown stays.
Request(t) == [by |-> t, seen |-> None, late |-> FALSE, orphan |-> FALSE]
Start == flight' = Request(token')
Join ==
    LET late == flight.seen # None /\ flight.seen < owed'
    IN  flight' = [flight EXCEPT !.late = @ \/ late]
\* Wrong: data once fetched is taken for fresh.
FetchIfMissing ==
    UNCHANGED <<cache, old>>
    /\ IF flight = None /\ cache = None THEN Start ELSE UNCHANGED flight
Fetch == UNCHANGED <<cache, old>> /\ IF flight = None THEN Start ELSE Join
Refetch ==
    UNCHANGED <<cache, old>> /\ IF flight = None \/ cache # None THEN Start ELSE Join

-----------------------------------------------------------------------------
(* The session and the pages.                                              *)

\* A page of this tab is shown to u: its queries mount, and the bell refetches.
Arrive(path, u) ==
    /\ user' = u
    /\ page' = Target(path, u)
    /\ CASE u # None /\ query \in AppLayout -> Refetch
         [] u # None /\ query \in Screen(page', u).mounts -> Fetch
         [] OTHER -> UNCHANGED data

Leave == call' = IF call = None THEN None ELSE [call EXCEPT !.away = TRUE]

Login(a) ==
    /\ page = "/login" /\ ~loading /\ a \notin ended
    /\ token' = a
    /\ UNCHANGED <<query, loading, call, version, ended, owed, told>>
    /\ Arrive("/dashboard", a)

\* Neither the cache is cleared nor a fetch under way cancelled.
Logout ==
    /\ user # None
    /\ token' = None /\ user' = None /\ page' = "/login"
    /\ flight' = IF flight = None THEN None ELSE [flight EXCEPT !.orphan = TRUE]
    /\ UNCHANGED <<query, loading, cache, version, ended, owed, told, old>>
    /\ Leave

Navigate(path) ==
    /\ user # None
    /\ Target(path, user) # page
    /\ UNCHANGED <<query, token, loading, version, ended, owed, told>>
    /\ Arrive(path, user)
    /\ Leave

\* The document is loaded anew: nothing but localStorage survives.
Reload(path, t) ==
    /\ token' = t /\ user' = None
    /\ loading' = (t # None)
    /\ page' = path
    /\ cache' = None /\ flight' = None /\ old' = FALSE
    /\ call' = None
    /\ UNCHANGED <<query, version, ended, owed, told>>

Refresh == user # None /\ Reload(IF token = None THEN "/login" ELSE page, token)

\* AuthProvider's effect: the account behind the token, or none after any failure.
Restore ==
    /\ loading /\ token \notin ended
    /\ loading' = FALSE
    /\ UNCHANGED <<query, token, call, version, ended, owed, told>>
    /\ Arrive(page, token)

RestoreFails ==
    /\ loading
    /\ loading' = FALSE
    /\ token' = None
    /\ Arrive("/login", None)
    /\ UNCHANGED <<query, call, version, ended, owed, told>>

\* The interceptor's answer to a 401, to whomever the request belonged.
Unauthorized ==
    IF page # "/login"
    THEN Reload("/login", None)
    ELSE /\ token' = None
         /\ UNCHANGED <<query, user, loading, page, cache, call, version, ended, owed,
                        told>>
         /\ flight' = None /\ old' = TRUE

-----------------------------------------------------------------------------
(* Fetches.                                                                *)

Welcome(a) == a # None /\ a \notin ended

Serve ==
    /\ flight # None /\ flight.seen = None /\ Welcome(flight.by)
    /\ flight' = [flight EXCEPT !.seen = version]
    /\ UNCHANGED <<query, session, cache, call, version, ended, owed, told, old>>

\* Wrong: what came of a fetch is taken for data, an answer or not.
ReceiveAnything ==
    /\ flight # None
    /\ cache' = [by |-> flight.by, seen |-> flight.seen, orphan |-> flight.orphan]
    /\ old' = flight.late
    /\ flight' = None
    /\ UNCHANGED <<query, session, call, version, ended, owed, told>>

Receive ==
    /\ flight # None /\ flight.seen # None
    /\ cache' = [by |-> flight.by, seen |-> flight.seen, orphan |-> flight.orphan]
    /\ old' = flight.late
    /\ flight' = None
    /\ UNCHANGED <<query, session, call, version, ended, owed, told>>

\* An error, or an answer that is lost: tried again while it is shown, then given up.
Retry ==
    /\ flight # None /\ Mounted
    /\ flight' = Request(token)
    /\ UNCHANGED <<query, session, cache, call, version, ended, owed, told, old>>

GiveUp ==
    /\ flight # None
    /\ flight' = None /\ old' = TRUE
    /\ UNCHANGED <<query, session, cache, call, version, ended, owed, told>>

Refused ==
    /\ flight # None /\ flight.seen = None /\ ~Welcome(flight.by)
    /\ Unauthorized

\* Wrong: polled until there is a count.
PollOnce ==
    /\ query \in Polled /\ Mounted /\ flight = None /\ cache = None
    /\ UNCHANGED <<query, session, cache, call, version, ended, owed, told, old>>
    /\ Start

\* The window gets the focus, or the interval of the badge has passed.
Background ==
    /\ Mounted /\ flight = None
    /\ UNCHANGED <<query, session, cache, call, version, ended, owed, told, old>>
    /\ Start
Poll == query \in Polled /\ Background
Focus == query \notin Polled /\ Background

\* The buttons that invalidate, or refetch, what there is of notifications.
Sync ==
    /\ query \in {"notifications", "unread"} /\ Mounted
    /\ UNCHANGED <<query, session, call, version, ended, owed, told>>
    /\ Refetch

\* Data nobody looks at is dropped after a while.
Collect ==
    /\ ~Mounted /\ flight = None /\ cache # None
    /\ cache' = None
    /\ UNCHANGED <<query, session, flight, call, version, ended, owed, told, old>>

-----------------------------------------------------------------------------
(* Mutations, one under way at a time.                                     *)

Send(m) ==
    /\ call = None /\ user # None
    /\ m \in Screen(page, user).offers
    /\ call' = [m |-> m, by |-> token, phase |-> "sent", v |-> 0, away |-> FALSE]
    /\ UNCHANGED <<query, session, data, version, ended, owed, told>>

Affects(m) == Writes[m] \cap Reads[query] # {}

Commit ==
    /\ call # None /\ call.phase = "sent" /\ Welcome(call.by)
    /\ Affects(call.m) => version < MaxVersion
    /\ version' = IF Affects(call.m) THEN version + 1 ELSE version
    /\ call' = [call EXCEPT !.phase = "done",
                            !.v = IF Affects(call.m) THEN version' ELSE 0]
    /\ UNCHANGED <<query, session, data, ended, owed, told>>

\* onSuccess.  What the mutation invalidates has to be shown, and so has what it changed
\* on the page it was sent from, unless the page leaves that alone.
Settle ==
    /\ call # None /\ call.phase = "done"
    /\ LET hit == query \in Invalidates[call.m]
       IN  /\ owed' = IF hit \/ (~call.away /\ query \notin LeftAlone(page))
                      THEN Later(owed, call.v) ELSE owed
           /\ UNCHANGED session
           /\ IF hit /\ Mounted THEN Refetch ELSE UNCHANGED data
    /\ call' = [call EXCEPT !.phase = "settled"]
    /\ UNCHANGED <<query, version, ended, told>>

\* Wrong: onSuccess starts the refetch and returns nothing.
FinishAtOnce ==
    /\ call # None /\ call.phase = "settled"
    /\ told' = IF call.m \in Awaited /\ query \in Invalidates[call.m] /\ Mounted
                  /\ ~call.away
               THEN Later(told, call.v) ELSE told
    /\ call' = None
    /\ UNCHANGED <<query, session, data, version, ended, owed>>

\* The mutation is over: the form closes, the message appears, the page may change.
Finish ==
    /\ call # None /\ call.phase = "settled"
    /\ LET waits == call.m \in Awaited /\ query \in Invalidates[call.m] /\ Mounted
       IN  /\ waits => flight = None
           /\ told' = IF waits /\ ~call.away THEN Later(told, call.v) ELSE told
    /\ call' = None
    /\ UNCHANGED <<token, owed>>
    /\ IF After[call.m] = None
       THEN UNCHANGED <<user, page, data>>
       ELSE Arrive(After[call.m], user)
    /\ UNCHANGED <<query, loading, version, ended>>

\* Refused by the handler, or the answer is lost after it: an error is shown.
CallFails ==
    /\ call # None /\ call.phase \in {"sent", "done"}
    /\ call' = None
    /\ UNCHANGED <<query, session, data, version, ended, owed, told>>

CallRefused ==
    /\ call # None /\ call.phase = "sent" /\ ~Welcome(call.by)
    /\ IF page # "/login" THEN Reload("/login", None)
       ELSE /\ token' = None /\ call' = None
            /\ UNCHANGED <<query, user, loading, page, data, version, ended, owed, told>>

-----------------------------------------------------------------------------
(* The rest of the world.                                                  *)

SomeoneElse ==
    /\ version < MaxVersion
    /\ version' = version + 1
    /\ UNCHANGED <<query, session, data, call, ended, owed, told>>

EndAccess(a) ==
    /\ a \notin ended
    /\ ended' = ended \cup {a}
    /\ UNCHANGED <<query, session, data, call, version, owed, told>>

Step ==
    \/ Logout \/ Refresh \/ Restore \/ RestoreFails
    \/ Serve \/ Receive \/ Retry \/ GiveUp \/ Refused
    \/ Poll \/ Focus \/ Sync \/ Collect
    \/ Commit \/ Settle \/ Finish \/ CallFails \/ CallRefused

Next ==
    \/ \E a \in Account : Login(a)
    \/ \E path \in Path : Navigate(path)
    \/ \E m \in Mutation : Send(m)
    \/ \E a \in Account : EndAccess(a)
    \/ SomeoneElse \/ Step

\* The interval fires, and a server that is up answers what is not cut off.
Fairness == WF_vars(Poll) /\ WF_vars(Serve) /\ WF_vars(Receive) /\ WF_vars(Refused)
Spec == Init /\ [][Next]_vars /\ Fairness

-----------------------------------------------------------------------------
Shown == Mounted /\ cache # None /\ ~old

\* Once a page has come to rest it shows every change this tab made: what a mutation
\* invalidates, even if the user went elsewhere meanwhile, and whatever it changed on
\* the page it was made from, but for the badge and the balance in the employee drawer.
\* Not so after a fetch that failed, or that was already answered when the page joined it.
OwnWritesShown == Shown /\ flight = None => cache.seen >= owed

\* Where the success of a save is announced after its refetch, the rows on screen, and
\* so the next edit form, include it whatever is being fetched.
SavedThenShown == Shown => cache.seen >= told

\* Once a page has come to rest, a former session's data is gone from it, the cache that
\* a logout leaves as it is included: what it shows was fetched for whoever is signed in --
\* unless the page joined a fetch that was under way when its sender signed out, whose
\* answer then stays, as somebody else's, until the page fetches again.
OthersDataOrphaned == Shown /\ flight = None => cache.by = user \/ cache.orphan

\* Left to its polling, in a tab that stays visible, the badge comes to count everything
\* committed.  (In a hidden tab the interval pauses.)
Quiet == Poll \/ Serve \/ Receive \/ SomeoneElse
BadgeCatchesUp ==
    /\ query \in Polled
    /\ <>[][Quiet]_vars
    /\ <>[](user # None /\ token = user /\ user \notin ended)
    => <>[](cache # None /\ cache.by = user /\ cache.seen = version)
=============================================================================
