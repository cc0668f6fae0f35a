---------------------------- MODULE ClientProofs ----------------------------
(***************************************************************************)
(* Proofs about Client, for any query, any accounts of any kind, and any   *)
(* number of changes by whomever.                                          *)
(*                                                                         *)
(* The tables come first.  All that the rest needs to know of them is      *)
(* Offered; then come the types, the session, the mutation and the data,   *)
(* each with its part of the inductive invariant.                          *)
(***************************************************************************)
EXTENDS Client, TLAPS

-----------------------------------------------------------------------------
(* The tables.                                                             *)

LEMMA Apis ==
    /\ DOMAIN EmployeesApi = {"createEmployee", "updateEmployee", "uploadContract",
                              "terminate", "rehire"}
    /\ DOMAIN LeaveApi = {"submitLeave", "cancelLeave"}
    /\ DOMAIN OvertimeApi = {"submitOvertime", "reviewOvertime", "cancelOvertime"}
    /\ DOMAIN ReimbursementsApi =
          {"submitReimbursement", "reviewReimbursement", "cancelReimbursement"}
    /\ DOMAIN DailyLogsApi = {"createLog", "updateLog", "deleteLog"}
    /\ DOMAIN HolidaysApi = {"createHoliday", "updateHoliday", "deleteHoliday"}
    /\ DOMAIN PayrollApi =
          {"createPeriod", "updatePeriod", "finalizePeriod", "deletePeriod"}
    /\ DOMAIN NotificationsApi = {"markRead", "markAllRead"}
    /\ DOMAIN UsersApi = {"createUser", "updateUser"}
    /\ DOMAIN AuthApi = {"changePassword"}
BY DEF EmployeesApi, LeaveApi, OvertimeApi, ReimbursementsApi, DailyLogsApi,
       HolidaysApi, PayrollApi, NotificationsApi, UsersApi, AuthApi

\* No two files of api/ speak of one mutation.
LEMMA Invalidated ==
    ASSUME NEW m \in Mutation
    PROVE  /\ m \in DOMAIN EmployeesApi => Invalidates[m] = EmployeesApi[m]
           /\ m \in DOMAIN LeaveApi => Invalidates[m] = LeaveApi[m]
           /\ m \in DOMAIN OvertimeApi => Invalidates[m] = OvertimeApi[m]
           /\ m \in DOMAIN ReimbursementsApi => Invalidates[m] = ReimbursementsApi[m]
           /\ m \in DOMAIN DailyLogsApi => Invalidates[m] = DailyLogsApi[m]
           /\ m \in DOMAIN HolidaysApi => Invalidates[m] = HolidaysApi[m]
           /\ m \in DOMAIN PayrollApi => Invalidates[m] = PayrollApi[m]
           /\ m \in DOMAIN NotificationsApi => Invalidates[m] = NotificationsApi[m]
           /\ m \in DOMAIN UsersApi => Invalidates[m] = UsersApi[m]
BY Apis DEF Invalidates

LEMMA Pages ==
    ASSUME NEW path \in Path, NEW u \in Account
    PROVE  \/ Screen(path, u).offers = {}
           \/ Screen(path, u) \in
                {NotificationsPage, MyDailyLogPage, MyOvertimePage, MyReimbursementsPage,
                 MyPayslipsPage, MyLeavePage, HolidaysPage, EmployeeDetailPage,
                 LeaveReviewPage, DailyLogsReviewPage, OvertimeReviewPage,
                 ReimbursementsReviewPage, PayrollPage, PayrollPeriodDetailPage,
                 UsersPage, ProfilePage({}), ProfilePage({"employee"})}
           \/ path = "/employees" /\ Screen(path, u) = EmployeesListPage
<1>1. CASE Kind[u] = "HR" /\ path \in HrPath
  BY <1>1 DEF Screen, HrRoute, HrPath
<1>2. CASE Kind[u] = "HR" /\ path \in EveryPath
  BY <1>2 DEF Screen, HrRoute, EveryPath, EveryRoute, HrDashboard, LoginPage, Page
<1>3. CASE Kind[u] # "HR" /\ path \in HrPath
  BY <1>3 DEF Screen, EmployeeRoute, ForbiddenPage, Page, HrPath
<1>4. CASE Kind[u] # "HR" /\ path \in EveryPath
  BY <1>4 DEF Screen, EmployeeRoute, EveryPath, HrPath, EveryRoute, EmployeeDashboard,
              HolidaysOfEmployee, LoginPage, Page
<1> QED BY <1>1, <1>2, <1>3, <1>4 DEF Path

\* What a page shows and one of its own changes touches is invalidated by that change,
\* unless the page leaves it alone.
LEMMA Offered ==
    ASSUME NEW path \in Path, NEW u \in Account,
           NEW m \in Mutation, m \in Screen(path, u).offers,
           NEW q \in AppLayout \cup Screen(path, u).mounts, q \notin LeftAlone(path),
           Writes[m] \cap Reads[q] # {}
    PROVE  q \in Invalidates[m]
<1>1. q \in Screen(path, u).mounts
  BY DEF AppLayout, LeftAlone, Polled
<1>2. CASE Screen(path, u) = NotificationsPage
  BY <1>1, <1>2, Apis, Invalidated DEF NotificationsPage, Page, NotificationsApi
<1>3. CASE Screen(path, u) = MyDailyLogPage
  BY <1>1, <1>3, Apis, Invalidated DEF MyDailyLogPage, Page, DailyLogModal, DailyLogsApi
<1>4. CASE Screen(path, u) = MyOvertimePage
  BY <1>1, <1>4, Apis, Invalidated
     DEF MyOvertimePage, Page, SubmitOvertimeModal, OvertimeApi
<1>5. CASE Screen(path, u) = MyReimbursementsPage
  BY <1>1, <1>5, Apis, Invalidated
     DEF MyReimbursementsPage, Page, SubmitReimbursementModal, ReimbursementsApi
<1>6. CASE Screen(path, u) = MyPayslipsPage
  BY <1>6 DEF MyPayslipsPage, Page
<1>7. CASE Screen(path, u) = MyLeavePage
  BY <1>1, <1>7, Apis, Invalidated
     DEF MyLeavePage, Page, RequestLeaveModal, LeaveCalendar, LeaveApi, LeaveKeys
<1>8. CASE Screen(path, u) = HolidaysPage
  BY <1>1, <1>8, Apis, Invalidated DEF HolidaysPage, Page, HolidayFormModal, HolidaysApi
<1>9. CASE Screen(path, u) = EmployeeDetailPage
  BY <1>1, <1>9, Apis, Invalidated
     DEF EmployeeDetailPage, Page, EmploymentHistoryCard, EmployeesApi
<1>10. CASE Screen(path, u) = LeaveReviewPage
  BY <1>1, <1>10, Apis, Invalidated
     DEF LeaveReviewPage, Page, LeaveCalendar, LeaveApi, LeaveKeys
<1>11. CASE Screen(path, u) = DailyLogsReviewPage
  <2>1. m \in {"updateLog", "deleteLog"} /\ q \in {"dailyLogs", "employees"}
    BY <1>1, <1>11 DEF DailyLogsReviewPage, Page, DailyLogModal
  <2>2. Writes["updateLog"] = {"log"} /\ Writes["deleteLog"] = {"log"}
    BY DEF Writes
  <2>3. Reads["employees"] = {"employee", "employment"}
    BY DEF Reads, EmployeeRead
  <2>4. q = "dailyLogs"
    BY <2>1, <2>2, <2>3
  <2> QED BY <2>1, <2>4, Apis, Invalidated DEF DailyLogsApi
<1>12. CASE Screen(path, u) = OvertimeReviewPage
  BY <1>1, <1>12, Apis, Invalidated DEF OvertimeReviewPage, Page, OvertimeApi
<1>13. CASE Screen(path, u) = ReimbursementsReviewPage
  BY <1>1, <1>13, Apis, Invalidated DEF ReimbursementsReviewPage, Page, ReimbursementsApi
<1>14. CASE Screen(path, u) = PayrollPage
  BY <1>1, <1>14, Apis, Invalidated DEF PayrollPage, Page, PayrollApi
<1>15. CASE Screen(path, u) = PayrollPeriodDetailPage
  BY <1>1, <1>15, Apis, Invalidated DEF PayrollPeriodDetailPage, Page, PayrollApi
<1>16. CASE Screen(path, u) = UsersPage
  <2>1. m \in {"createUser", "updateUser"} /\ q \in {"users", "roles", "employees"}
    BY <1>1, <1>16 DEF UsersPage, Page, UserFormModal
  <2>2. Writes["createUser"] = {"user"} /\ Writes["updateUser"] = {"user"}
    BY DEF Writes
  <2>3. Reads["employees"] = {"employee", "employment"} /\ Reads["roles"] = {}
    BY DEF Reads, EmployeeRead
  <2>4. q = "users"
    BY <2>1, <2>2, <2>3
  <2> QED BY <2>1, <2>4, Apis, Invalidated DEF UsersApi
<1>17. CASE Screen(path, u) \in {ProfilePage({}), ProfilePage({"employee"})}
  <2>1. m = "changePassword" /\ q = "employee"
    BY <1>1, <1>17 DEF ProfilePage, Page, ChangePasswordCard
  <2>2. Writes["changePassword"] = {"user"}
    BY DEF Writes
  <2>3. Reads["employee"] = {"employee", "employment"}
    BY DEF Reads, EmployeeRead
  <2> QED BY <2>1, <2>2, <2>3
<1>18. CASE path = "/employees" /\ Screen(path, u) = EmployeesListPage
  <2>1. q = "employees"
    BY <1>1, <1>18 DEF EmployeesListPage, Page, LeftAlone
  <2> QED BY <2>1, <1>18, Apis, Invalidated
          DEF EmployeesListPage, Page, EmployeeFormDrawer, EmployeesApi
<1> QED BY <1>2, <1>3, <1>4, <1>5, <1>6, <1>7, <1>8, <1>9, <1>10, <1>11, <1>12, <1>13,
           <1>14, <1>15, <1>16, <1>17, <1>18, Pages

-----------------------------------------------------------------------------
(* Types.  Data is some account's because only an account is answered, and *)
(* a mutation's version is one the server has reached.                     *)

TypeInv ==
    /\ TypeOK
    /\ flight # None => (flight.seen # None => flight.by \in Account)
    /\ call # None => call.v <= version

LEMMA NoneApart ==
    /\ \A f \in Flight : f # None
    /\ \A c \in Call : c # None
    /\ \A c \in Fetched : c # None
BY NoneAssumption

LEMMA PathsKnown ==
    "/login" \in Path /\ "/dashboard" \in Path /\ "/payroll" \in Path
    /\ "/payroll/:id" \in Path
BY DEF Path, EveryPath, HrPath

LEMMA TargetKnown ==
    ASSUME NEW path \in Path, NEW u \in Account \cup {None}
    PROVE  /\ Target(path, u) \in Path
           /\ u # None => Target(path, u) # "/login"
           /\ u = None => Target(path, u) = "/login"
BY PathsKnown DEF Target

\* A fetch is under way that goes out now, or went out before and is joined.
Sent == flight'.by = token' /\ flight'.seen = None
Joined ==
    /\ flight # None
    /\ flight'.by = flight.by /\ flight'.seen = flight.seen
    /\ flight.orphan => flight'.orphan
    /\ ~flight'.late => ~flight.late /\ (flight.seen = None \/ ~(flight.seen < owed'))
Underway == flight' \in Flight /\ (Sent \/ Joined)

LEMMA Started ==
    ASSUME token' \in Account \cup {None}, Start
    PROVE  Underway
<1>1. flight' = [by |-> token', seen |-> None, late |-> FALSE, orphan |-> FALSE]
  BY DEF Start, Request
<1>2. flight' \in Flight
  BY <1>1, Zenon DEF Flight
<1>3. Sent
  BY <1>1 DEF Sent
<1> QED BY <1>2, <1>3 DEF Underway

LEMMA FlightFields ==
    ASSUME flight \in Flight
    PROVE  /\ flight # None
           /\ flight.by \in Account \cup {None} /\ flight.seen \in 0..MaxVersion \cup {None}
           /\ flight.late \in BOOLEAN /\ flight.orphan \in BOOLEAN
           /\ flight = [by |-> flight.by, seen |-> flight.seen, late |-> flight.late,
                        orphan |-> flight.orphan]
<1>1. flight # None
  BY NoneApart
<1> QED BY <1>1 DEF Flight

LEMMA JoinedSoon ==
    ASSUME flight \in Flight, Join
    PROVE  Underway
<1> DEFINE late == flight.seen # None /\ flight.seen < owed'
<1>1. flight' = [flight EXCEPT !.late = flight.late \/ late]
  BY DEF Join
<1> HIDE DEF late
<1>2. flight' = [by |-> flight.by, seen |-> flight.seen, late |-> flight.late \/ late,
                 orphan |-> flight.orphan]
  BY <1>1, FlightFields, Zenon
<1>3. flight' \in Flight
  BY <1>2, FlightFields, Zenon DEF Flight
<1>4. flight'.by = flight.by /\ flight'.seen = flight.seen
  BY <1>2
<1>5. flight.orphan => flight'.orphan
  BY <1>2, Zenon
<1>6. ~flight'.late => ~flight.late /\ ~late
  BY <1>2, Zenon
<1>7. ~late => flight.seen = None \/ ~(flight.seen < owed')
  BY Zenon DEF late
<1>8. Joined
  BY <1>4, <1>5, <1>6, <1>7, FlightFields, Zenon DEF Joined
<1> QED BY <1>3, <1>8 DEF Underway

\* A logout leaves the fetch under way as an orphan.
LEMMA Abandoned ==
    ASSUME flight \in Flight \cup {None}, Logout
    PROVE  /\ flight' \in Flight \cup {None}
           /\ flight = None => flight' = None
           /\ flight # None => /\ flight'.orphan
                               /\ flight'.by = flight.by /\ flight'.seen = flight.seen
                               /\ ~flight'.late => ~flight.late
<1>1. CASE flight = None
  BY <1>1 DEF Logout
<1>2. CASE flight # None
  <2>1. flight \in Flight /\ flight' = [flight EXCEPT !.orphan = TRUE]
    BY <1>2 DEF Logout
  <2>2. flight' = [by |-> flight.by, seen |-> flight.seen, late |-> flight.late,
                   orphan |-> TRUE]
    BY <2>1, FlightFields, Zenon
  <2>3. flight' \in Flight
    BY <2>1, <2>2, FlightFields, Zenon DEF Flight
  <2>4. flight'.by = flight.by /\ flight'.seen = flight.seen
    BY <2>2
  <2>5. flight'.orphan /\ (~flight'.late => ~flight.late)
    BY <2>2, Zenon
  <2> QED BY <1>2, <2>3, <2>4, <2>5
<1> QED BY <1>1, <1>2

LEMMA Looked ==
    ASSUME flight \in Flight \cup {None}, token' \in Account \cup {None},
           Fetch \/ Refetch
    PROVE  UNCHANGED <<cache, old>> /\ Underway
<1>1. UNCHANGED <<cache, old>>
  BY DEF Fetch, Refetch
<1>2. Start \/ (Join /\ flight \in Flight)
  BY DEF Fetch, Refetch
<1> QED BY <1>1, <1>2, Started, JoinedSoon

\* Somebody who arrives at a page that shows the query has it fetched.
LEMMA Arrived ==
    ASSUME flight \in Flight \cup {None}, token' \in Account \cup {None},
           query' = query,
           NEW path \in Path, NEW u \in Account \cup {None}, Arrive(path, u)
    PROVE  /\ user' = u /\ page' = Target(path, u)
           /\ UNCHANGED <<cache, old>>
           /\ (Underway /\ u # None) \/ (UNCHANGED flight /\ ~Mounted')
<1>1. user' = u /\ page' = Target(path, u)
  BY DEF Arrive
<1>2. CASE u # None /\ query \in AppLayout
  <2>1. Fetch \/ Refetch
    BY <1>2 DEF Arrive
  <2> QED BY <1>1, <1>2, <2>1, Looked
<1>3. CASE u # None /\ query \notin AppLayout /\ query \in Screen(page', u).mounts
  <2>1. Fetch \/ Refetch
    BY <1>3 DEF Arrive
  <2> QED BY <1>1, <1>3, <2>1, Looked
<1>4. CASE ~(u # None /\ query \in AppLayout)
           /\ ~(u # None /\ query \in Screen(page', u).mounts)
  <2>1. UNCHANGED data
    BY <1>4 DEF Arrive
  <2>2. ~Mounted'
    BY <1>1, <1>4 DEF Mounted
  <2> QED BY <1>1, <2>1, <2>2 DEF data
<1> QED BY <1>2, <1>3, <1>4

LEMMA Reloaded ==
    ASSUME NEW path \in Path, NEW t \in Account \cup {None}, Reload(path, t)
    PROVE  /\ token' = t /\ user' = None /\ page' = path
           /\ cache' = None /\ flight' = None /\ call' = None
           /\ loading' \in BOOLEAN
           /\ old' \in BOOLEAN
           /\ UNCHANGED <<query, version, ended, owed, told>>
           /\ ~Mounted'
BY DEF Reload, Mounted

LEMMA Left ==
    ASSUME call \in Call \cup {None}, Leave
    PROVE  /\ call' \in Call \cup {None}
           /\ call = None => call' = None
           /\ call # None => /\ call'.away
                             /\ call'.m = call.m /\ call'.v = call.v
                             /\ call'.phase = call.phase
<1>1. CASE call = None
  BY <1>1 DEF Leave
<1>2. CASE call # None
  <2>1. call' = [call EXCEPT !.away = TRUE]
    BY <1>2 DEF Leave
  <2>2. /\ call.m \in Mutation /\ call.by \in Account \cup {None}
        /\ call.phase \in {"sent", "done", "settled"} /\ call.v \in 0..MaxVersion
        /\ call = [m |-> call.m, by |-> call.by, phase |-> call.phase, v |-> call.v,
                   away |-> call.away]
    BY <1>2 DEF Call
  <2>3. call' = [m |-> call.m, by |-> call.by, phase |-> call.phase, v |-> call.v,
                 away |-> TRUE]
    BY <2>1, <2>2, Zenon
  <2>4. call' \in Call
    BY <2>2, <2>3, Zenon DEF Call
  <2>5. call'.away
    BY <2>3, Zenon
  <2>6. call'.m = call.m /\ call'.v = call.v /\ call'.phase = call.phase
    BY <2>3
  <2> QED BY <1>2, <2>4, <2>5, <2>6
<1> QED BY <1>1, <1>2

LEMMA SeenLater ==
    ASSUME NEW n \in Nat, NEW a \in 0..n, NEW b \in 0..n
    PROVE  /\ Later(a, b) \in 0..n /\ Later(a, b) >= a /\ Later(a, b) >= b
           /\ Later(a, b) = a \/ Later(a, b) = b
BY DEF Later

\* What the fields of the records under way may hold.
LEMMA Fields ==
    ASSUME TypeOK
    PROVE  /\ version \in Nat /\ owed \in Nat /\ told \in Nat /\ version <= MaxVersion
           /\ owed <= version /\ told <= version
           /\ flight # None => /\ flight \in Flight
                               /\ flight.by \in Account \cup {None}
                               /\ flight.seen \in 0..MaxVersion \cup {None}
           /\ call # None => /\ call \in Call /\ call.m \in Mutation
                             /\ call.v \in 0..MaxVersion
           /\ cache # None => cache.by \in Account /\ cache.seen \in 0..MaxVersion
BY ClientAssumption DEF TypeOK, Flight, Call, Fetched

\* The part of the types that is about the data.
DataTyped ==
    /\ cache \in Fetched \cup {None}
    /\ flight \in Flight \cup {None}
    /\ flight # None => (flight.seen # None => flight.by \in Account)
    /\ old \in BOOLEAN

LEMMA TypedBy ==
    ASSUME DataTyped',
           token' \in Account \cup {None}, user' \in Account \cup {None},
           loading' \in BOOLEAN, page' \in Path, query' \in Query,
           call' \in Call \cup {None}, call' # None => call'.v <= version',
           version' \in 0..MaxVersion, owed' \in 0..version', told' \in 0..version',
           ended' \subseteq Account
    PROVE  TypeInv'
BY DEF TypeInv, TypeOK, DataTyped

LEMMA DataKept ==
    ASSUME TypeInv, UNCHANGED data
    PROVE  DataTyped'
BY DEF TypeInv, TypeOK, DataTyped, data

LEMMA UnderwayTyped ==
    ASSUME TypeInv, Underway, UNCHANGED <<cache, old>>
    PROVE  DataTyped'
<1>1. flight'.seen # None => flight'.by \in Account
  BY DEF TypeInv, Underway, Sent, Joined
<1> QED BY <1>1 DEF TypeInv, TypeOK, DataTyped, Underway

LEMMA ArrivedTyped ==
    ASSUME TypeInv, token' \in Account \cup {None}, query' = query,
           NEW path \in Path, NEW u \in Account \cup {None}, Arrive(path, u)
    PROVE  DataTyped' /\ user' \in Account \cup {None} /\ page' \in Path
<1>1. flight \in Flight \cup {None}
  BY DEF TypeInv, TypeOK
<1>2. Underway \/ UNCHANGED flight
  BY <1>1, Arrived
<1>3. UNCHANGED <<cache, old>> /\ user' = u /\ page' = Target(path, u)
  BY <1>1, Arrived
<1>4. DataTyped'
  BY <1>2, <1>3, UnderwayTyped, DataKept DEF data
<1> QED BY <1>3, <1>4, TargetKnown

LEMMA ReloadedTyped ==
    ASSUME TypeInv, NEW path \in Path, NEW t \in Account \cup {None}, Reload(path, t)
    PROVE  TypeInv'
<1>1. /\ token' = t /\ user' = None /\ page' = path
      /\ cache' = None /\ flight' = None /\ call' = None
      /\ loading' \in BOOLEAN /\ old' \in BOOLEAN
      /\ UNCHANGED <<query, version, ended, owed, told>>
  BY Reloaded
<1>2. DataTyped'
  BY <1>1 DEF DataTyped
<1> QED BY <1>1, <1>2, TypedBy DEF TypeInv, TypeOK

LEMMA TypeKept ==
    ASSUME TypeInv, Next
    PROVE  TypeInv'
<1>0. TypeOK
  BY DEF TypeInv
<1>1. ASSUME NEW path \in Path, Navigate(path)  PROVE TypeInv'
  <2>1. UNCHANGED <<query, token, loading, version, ended, owed, told>>
    BY <1>1 DEF Navigate
  <2>2. DataTyped' /\ user' \in Account \cup {None} /\ page' \in Path
    BY <1>0, <1>1, <2>1, ArrivedTyped DEF Navigate, TypeOK
  <2>3. call' \in Call \cup {None} /\ (call' # None => call'.v <= version')
    BY <1>0, <1>1, <2>1, Left DEF Navigate, TypeOK, TypeInv
  <2> QED BY <1>0, <2>1, <2>2, <2>3, TypedBy DEF TypeOK
<1>2. ASSUME NEW m \in Mutation, Send(m)  PROVE TypeInv'
  <2>1. /\ UNCHANGED <<query, session, data, version, ended, owed, told>>
        /\ call' = [m |-> m, by |-> token, phase |-> "sent", v |-> 0, away |-> FALSE]
    BY <1>2 DEF Send
  <2>2. 0 \in 0..MaxVersion /\ version \in Nat
    BY <1>0, Fields, ClientAssumption
  <2>3. call' \in Call
    <3>1. token \in Account \cup {None} /\ "sent" \in {"sent", "done", "settled"}
      BY <1>0 DEF TypeOK
    <3> QED BY <2>1, <2>2, <3>1, Zenon DEF Call
  <2>4. call'.v <= version'
    BY <2>1, <2>2
  <2>5. DataTyped'
    BY <2>1, DataKept
  <2> QED BY <1>0, <2>1, <2>3, <2>4, <2>5, TypedBy DEF TypeOK, session
<1>3. ASSUME NEW a \in Account, EndAccess(a)  PROVE TypeInv'
  <2>1. /\ UNCHANGED <<query, session, data, call, version, owed, told>>
        /\ ended' = ended \cup {a}
    BY <1>3 DEF EndAccess
  <2>2. DataTyped'
    BY <2>1, DataKept
  <2> QED BY <1>0, <2>1, <2>2, TypedBy DEF TypeInv, TypeOK, session
<1>4. CASE SomeoneElse
  <2>1. /\ UNCHANGED <<query, session, data, call, ended, owed, told>>
        /\ version < MaxVersion /\ version' = version + 1
    BY <1>4 DEF SomeoneElse
  <2>2. DataTyped'
    BY <2>1, DataKept
  <2>3. /\ version' \in 0..MaxVersion /\ owed' \in 0..version' /\ told' \in 0..version'
        /\ call' # None => call'.v <= version'
    BY <1>0, <2>1, Fields, ClientAssumption DEF TypeInv
  <2> QED BY <1>0, <2>1, <2>2, <2>3, TypedBy DEF TypeOK, session
<1>5. ASSUME NEW a \in Account, Login(a)  PROVE TypeInv'
  <2>1. /\ UNCHANGED <<query, loading, call, version, ended, owed, told>>
        /\ token' = a /\ Arrive("/dashboard", a)
    BY <1>5 DEF Login
  <2>2. DataTyped' /\ user' \in Account \cup {None} /\ page' \in Path
    BY <2>1, ArrivedTyped, PathsKnown
  <2> QED BY <1>0, <2>1, <2>2, TypedBy DEF TypeInv, TypeOK
<1>6. CASE Logout
  <2>1. /\ UNCHANGED <<query, loading, cache, version, ended, owed, told, old>>
        /\ token' = None /\ user' = None /\ page' = "/login" /\ Leave
    BY <1>6 DEF Logout
  <2>2. DataTyped'
    <3>1. flight' # None => flight # None /\ flight'.by = flight.by /\ flight'.seen = flight.seen
      BY <1>0, <1>6, Abandoned DEF TypeOK
    <3>2. flight' \in Flight \cup {None}
      BY <1>0, <1>6, Abandoned DEF TypeOK
    <3> QED BY <1>0, <2>1, <3>1, <3>2 DEF TypeInv, DataTyped, TypeOK
  <2>3. call' \in Call \cup {None} /\ (call' # None => call'.v <= version')
    BY <1>0, <2>1, Left DEF TypeOK, TypeInv
  <2> QED BY <1>0, <2>1, <2>2, <2>3, TypedBy, PathsKnown DEF TypeOK
<1>7. CASE Refresh
  <2>1. PICK path \in Path : Reload(path, token)
    BY <1>0, <1>7, PathsKnown DEF Refresh, TypeOK
  <2> QED BY <1>0, <2>1, ReloadedTyped DEF TypeOK
<1>8. CASE Restore
  <2>1. /\ UNCHANGED <<query, token, call, version, ended, owed, told>>
        /\ loading' = FALSE /\ Arrive(page, token)
    BY <1>8 DEF Restore
  <2>2. DataTyped' /\ user' \in Account \cup {None} /\ page' \in Path
    BY <1>0, <2>1, ArrivedTyped DEF TypeOK
  <2> QED BY <1>0, <2>1, <2>2, TypedBy DEF TypeInv, TypeOK
<1>9. CASE RestoreFails
  <2>1. /\ UNCHANGED <<query, call, version, ended, owed, told>>
        /\ token' = None /\ loading' = FALSE /\ Arrive("/login", None)
    BY <1>9 DEF RestoreFails
  <2>2. DataTyped' /\ user' \in Account \cup {None} /\ page' \in Path
    BY <2>1, ArrivedTyped, PathsKnown
  <2> QED BY <1>0, <2>1, <2>2, TypedBy DEF TypeInv, TypeOK
<1>10. CASE Serve
  <2>1. /\ UNCHANGED <<query, session, cache, call, version, ended, owed, told, old>>
        /\ flight # None /\ Welcome(flight.by)
        /\ flight' = [flight EXCEPT !.seen = version]
    BY <1>10 DEF Serve
  <2>2. flight \in Flight /\ flight.by \in Account /\ version \in 0..MaxVersion
    BY <1>0, <2>1, Fields DEF Welcome
  <2>3. flight'.by = flight.by
    BY <2>1, <2>2 DEF Flight
  <2>4. flight' \in Flight
    BY <2>1, <2>2 DEF Flight
  <2>5. flight'.by \in Account
    BY <2>2, <2>3
  <2>6. DataTyped'
    BY <1>0, <2>1, <2>4, <2>5 DEF DataTyped, TypeOK
  <2> QED BY <1>0, <2>1, <2>6, TypedBy DEF TypeInv, TypeOK, session
<1>11. CASE Receive
  <2>1. /\ UNCHANGED <<query, session, call, version, ended, owed, told>>
        /\ flight # None /\ flight.seen # None
        /\ cache' = [by |-> flight.by, seen |-> flight.seen, orphan |-> flight.orphan]
        /\ flight' = None
    BY <1>11 DEF Receive
  <2>2. old' = flight.late
    BY <1>11 DEF Receive
  <2>3. flight \in Flight
    BY <1>0, <2>1, Fields
  <2>4. old' \in BOOLEAN
    BY <2>2, <2>3 DEF Flight
  <2>5. cache' \in Fetched
    <3>1. flight.by \in Account /\ flight.seen \in 0..MaxVersion
      BY <1>0, <2>1, Fields DEF TypeInv
    <3>2. flight.orphan \in BOOLEAN
      BY <2>3, FlightFields
    <3> QED BY <2>1, <3>1, <3>2, Zenon DEF Fetched
  <2>6. DataTyped'
    BY <2>1, <2>4, <2>5 DEF DataTyped
  <2> QED BY <1>0, <2>1, <2>6, TypedBy DEF TypeInv, TypeOK, session
<1>12. CASE Retry
  <2>1. /\ UNCHANGED <<query, session, cache, call, version, ended, owed, told, old>>
        /\ flight' = Request(token)
    BY <1>12 DEF Retry
  <2>2. Underway
    BY <1>0, <2>1, Started DEF Start, TypeOK, session
  <2>3. DataTyped'
    BY <2>1, <2>2, UnderwayTyped
  <2> QED BY <1>0, <2>1, <2>3, TypedBy DEF TypeInv, TypeOK, session
<1>13. CASE GiveUp
  <2>1. /\ UNCHANGED <<query, session, cache, call, version, ended, owed, told>>
        /\ flight' = None /\ old' = TRUE
    BY <1>13 DEF GiveUp
  <2>2. DataTyped'
    BY <1>0, <2>1 DEF DataTyped, TypeOK
  <2> QED BY <1>0, <2>1, <2>2, TypedBy DEF TypeInv, TypeOK, session
<1>14. CASE Refused
  <2>1. CASE page # "/login"
    BY <1>14, <2>1, ReloadedTyped, PathsKnown DEF Refused, Unauthorized
  <2>2. CASE page = "/login"
    <3>1. /\ token' = None /\ flight' = None /\ old' = TRUE
          /\ UNCHANGED <<query, user, loading, page, cache, call, version, ended, owed,
                         told>>
      BY <1>14, <2>2 DEF Refused, Unauthorized
    <3>2. DataTyped'
      BY <1>0, <3>1 DEF DataTyped, TypeOK
    <3> QED BY <1>0, <3>1, <3>2, TypedBy DEF TypeInv, TypeOK
  <2> QED BY <2>1, <2>2
<1>15. CASE Poll \/ Focus
  <2>1. /\ UNCHANGED <<query, session, cache, call, version, ended, owed, told, old>>
        /\ Start
    BY <1>15 DEF Poll, Focus, Background
  <2>2. Underway
    BY <1>0, <2>1, Started DEF TypeOK, session
  <2>3. DataTyped'
    BY <2>1, <2>2, UnderwayTyped
  <2> QED BY <1>0, <2>1, <2>3, TypedBy DEF TypeInv, TypeOK, session
<1>16. CASE Sync
  <2>1. UNCHANGED <<query, session, call, version, ended, owed, told>> /\ Refetch
    BY <1>16 DEF Sync
  <2>2. UNCHANGED <<cache, old>> /\ Underway
    BY <1>0, <2>1, Looked DEF TypeOK, session
  <2>3. DataTyped'
    BY <2>2, UnderwayTyped
  <2> QED BY <1>0, <2>1, <2>3, TypedBy DEF TypeInv, TypeOK, session
<1>17. CASE Collect
  <2>1. /\ UNCHANGED <<query, session, flight, call, version, ended, owed, told, old>>
        /\ cache' = None
    BY <1>17 DEF Collect
  <2>2. DataTyped'
    BY <1>0, <2>1 DEF TypeInv, DataTyped, TypeOK
  <2> QED BY <1>0, <2>1, <2>2, TypedBy DEF TypeInv, TypeOK, session
<1>18. CASE Commit
  <2>1. UNCHANGED <<query, session, data, ended, owed, told>> /\ call # None
    BY <1>18 DEF Commit
  <2> DEFINE n == IF Affects(call.m) THEN version' ELSE 0
  <2>2. call' = [call EXCEPT !.phase = "done", !.v = n]
    BY <1>18 DEF Commit
  <2>3. version' = IF Affects(call.m) THEN version + 1 ELSE version
    BY <1>18 DEF Commit
  <2>4. Affects(call.m) => version < MaxVersion
    BY <1>18 DEF Commit
  <2>5. version \in Nat /\ version' \in 0..MaxVersion /\ version' >= version
    BY <1>0, <2>3, <2>4, Fields, ClientAssumption
  <2>6. n \in 0..MaxVersion /\ n <= version'
    BY <2>5, ClientAssumption
  <2> HIDE DEF n
  <2>7. call' \in Call /\ call'.v = n
    <3>1. call \in Call /\ "done" \in {"sent", "done", "settled"}
      BY <1>0, <2>1, Fields
    <3> QED BY <2>2, <2>6, <3>1 DEF Call
  <2>8. owed' \in 0..version' /\ told' \in 0..version'
    BY <1>0, <2>1, <2>5, Fields
  <2>9. DataTyped'
    BY <2>1, DataKept
  <2> QED BY <1>0, <2>1, <2>5, <2>6, <2>7, <2>8, <2>9, TypedBy DEF TypeOK, session
<1>19. CASE Settle
  <2>1. /\ UNCHANGED <<query, version, ended, told>> /\ UNCHANGED session
        /\ call # None
        /\ call' = [call EXCEPT !.phase = "settled"]
    BY <1>19 DEF Settle
  <2>2. owed' = Later(owed, call.v) \/ owed' = owed
    BY <1>19 DEF Settle
  <2>3. Refetch \/ UNCHANGED data
    BY <1>19 DEF Settle
  <2>4. DataTyped'
    BY <1>0, <2>1, <2>3, Looked, UnderwayTyped, DataKept DEF TypeOK, session
  <2>5. call \in Call /\ call.v \in Nat /\ call.v <= version /\ version \in Nat
    BY <1>0, <2>1, Fields DEF TypeInv
  <2>6. call' \in Call /\ call'.v = call.v
    <3>1. "settled" \in {"sent", "done", "settled"}
      OBVIOUS
    <3> QED BY <2>1, <2>5, <3>1 DEF Call
  <2>7. owed \in 0..version /\ call.v \in 0..version
    BY <1>0, <2>5, Fields
  <2>8. owed' \in 0..version'
    BY <2>1, <2>2, <2>5, <2>7, SeenLater
  <2> QED BY <1>0, <2>1, <2>4, <2>5, <2>6, <2>8, TypedBy DEF TypeOK, session
<1>20. CASE Finish
  <2>1. /\ UNCHANGED <<query, token, owed, loading, version, ended>>
        /\ call # None /\ call' = None
    BY <1>20 DEF Finish
  <2>2. told' = Later(told, call.v) \/ told' = told
    BY <1>20 DEF Finish
  <2>3. \/ UNCHANGED <<user, page, data>>
        \/ After[call.m] # None /\ Arrive(After[call.m], user)
    BY <1>20 DEF Finish
  <2>4. After[call.m] # None => After[call.m] \in Path
    BY <1>0, <2>1, Fields, PathsKnown DEF After
  <2>5. DataTyped' /\ user' \in Account \cup {None} /\ page' \in Path
    BY <1>0, <2>1, <2>3, <2>4, ArrivedTyped, DataKept DEF TypeOK
  <2>6. call.v \in 0..version /\ told \in 0..version /\ version \in Nat
    BY <1>0, <2>1, Fields DEF TypeInv
  <2>7. told' \in 0..version'
    BY <2>1, <2>2, <2>6, SeenLater
  <2> QED BY <1>0, <2>1, <2>5, <2>7, TypedBy DEF TypeOK
<1>21. CASE CallFails
  <2>1. UNCHANGED <<query, session, data, version, ended, owed, told>> /\ call' = None
    BY <1>21 DEF CallFails
  <2>2. DataTyped'
    BY <2>1, DataKept
  <2> QED BY <1>0, <2>1, <2>2, TypedBy DEF TypeOK, session
<1>22. CASE CallRefused
  <2>1. CASE page # "/login"
    BY <1>22, <2>1, ReloadedTyped, PathsKnown DEF CallRefused
  <2>2. CASE page = "/login"
    <3>1. /\ token' = None /\ call' = None
          /\ UNCHANGED <<query, user, loading, page, data, version, ended, owed, told>>
      BY <1>22, <2>2 DEF CallRefused
    <3>2. DataTyped'
      BY <3>1, DataKept
    <3> QED BY <1>0, <3>1, <3>2, TypedBy DEF TypeOK
  <2> QED BY <2>1, <2>2
<1> QED BY <1>1, <1>2, <1>3, <1>4, <1>5, <1>6, <1>7, <1>8, <1>9, <1>10, <1>11, <1>12,
           <1>13, <1>14, <1>15, <1>16, <1>17, <1>18, <1>19, <1>20, <1>21, <1>22
        DEF Next, Step

-----------------------------------------------------------------------------
(* The session: who is signed in holds the token, and is never shown the   *)
(* sign-in page; a tab that restores its session has sent nothing yet.     *)

SessionInv ==
    /\ user # None => token = user /\ page # "/login"
    /\ loading => user = None /\ call = None

LEMMA ArrivedSession ==
    ASSUME flight \in Flight \cup {None}, token' \in Account \cup {None},
           query' = query, loading' = FALSE,
           NEW path \in Path, NEW u \in Account \cup {None}, u # None => token' = u,
           Arrive(path, u)
    PROVE  SessionInv'
<1>1. user' = u /\ page' = Target(path, u)
  BY Arrived
<1>2. u # None => Target(path, u) # "/login"
  BY TargetKnown
<1> QED BY <1>1, <1>2 DEF SessionInv

LEMMA ReloadedSession ==
    ASSUME NEW path \in Path, NEW t \in Account \cup {None}, Reload(path, t)
    PROVE  SessionInv'
BY Reloaded DEF SessionInv

LEMMA SessionKept ==
    ASSUME TypeInv, SessionInv, Next
    PROVE  SessionInv'
<1>0. TypeOK /\ flight \in Flight \cup {None}
  BY DEF TypeInv, TypeOK
<1>1. ASSUME NEW path \in Path, Navigate(path)  PROVE SessionInv'
  <2>1. /\ user # None /\ token' = token /\ loading' = loading /\ query' = query
        /\ Arrive(path, user)
    BY <1>1 DEF Navigate
  <2>2. loading = FALSE
    BY <1>0, <2>1 DEF SessionInv, TypeOK
  <2>3. token' = user /\ user \in Account \cup {None}
    BY <1>0, <2>1 DEF SessionInv, TypeOK
  <2>4. loading' = FALSE
    BY <2>1, <2>2
  <2> QED BY <1>0, <2>1, <2>3, <2>4, ArrivedSession
<1>2. ASSUME NEW m \in Mutation, Send(m)  PROVE SessionInv'
  BY <1>2 DEF Send, SessionInv, session
<1>3. ASSUME NEW a \in Account, EndAccess(a)  PROVE SessionInv'
  BY <1>3 DEF EndAccess, SessionInv, session
<1>4. CASE SomeoneElse
  BY <1>4 DEF SomeoneElse, SessionInv, session
<1>5. ASSUME NEW a \in Account, Login(a)  PROVE SessionInv'
  <2>1. /\ token' = a /\ loading' = loading /\ query' = query /\ ~loading
        /\ Arrive("/dashboard", a)
    BY <1>5 DEF Login
  <2>2. loading' = FALSE
    BY <1>0, <2>1 DEF TypeOK
  <2> QED BY <1>0, <2>1, <2>2, ArrivedSession, PathsKnown
<1>6. CASE Logout
  <2>1. user # None /\ user' = None /\ loading' = loading
    BY <1>6 DEF Logout
  <2>2. loading = FALSE
    BY <1>0, <2>1 DEF SessionInv, TypeOK
  <2> QED BY <2>1, <2>2 DEF SessionInv
<1>7. CASE Refresh
  <2>1. PICK path \in Path : Reload(path, token)
    BY <1>0, <1>7, PathsKnown DEF Refresh, TypeOK
  <2> QED BY <1>0, <2>1, ReloadedSession DEF TypeOK
<1>8. CASE Restore
  <2>1. /\ token' = token /\ loading' = FALSE /\ query' = query /\ Arrive(page, token)
    BY <1>8 DEF Restore
  <2> QED BY <1>0, <2>1, ArrivedSession DEF TypeOK
<1>9. CASE RestoreFails
  <2>1. /\ token' = None /\ loading' = FALSE /\ query' = query
        /\ Arrive("/login", None)
    BY <1>9 DEF RestoreFails
  <2> QED BY <1>0, <2>1, ArrivedSession, PathsKnown
<1>10. CASE Serve
  BY <1>10 DEF Serve, SessionInv, session
<1>11. CASE Receive
  BY <1>11 DEF Receive, SessionInv, session
<1>12. CASE Retry
  BY <1>12 DEF Retry, SessionInv, session
<1>13. CASE GiveUp
  BY <1>13 DEF GiveUp, SessionInv, session
<1>14. CASE Refused
  <2>1. CASE page # "/login"
    BY <1>14, <2>1, ReloadedSession, PathsKnown DEF Refused, Unauthorized
  <2>2. CASE page = "/login"
    BY <1>14, <2>2 DEF Refused, Unauthorized, SessionInv
  <2> QED BY <2>1, <2>2
<1>15. CASE Poll \/ Focus
  BY <1>15 DEF Poll, Focus, Background, SessionInv, session
<1>16. CASE Sync
  BY <1>16 DEF Sync, SessionInv, session
<1>17. CASE Collect
  BY <1>17 DEF Collect, SessionInv, session
<1>18. CASE Commit
  BY <1>18 DEF Commit, SessionInv, session
<1>19. CASE Settle
  BY <1>19 DEF Settle, SessionInv, session
<1>20. CASE Finish
  <2>1. call # None /\ token' = token /\ loading' = loading /\ query' = query
    BY <1>20 DEF Finish
  <2>2. loading = FALSE
    BY <1>0, <2>1 DEF SessionInv, TypeOK
  <2>3. loading' = FALSE
    BY <2>1, <2>2
  <2>4. CASE UNCHANGED <<user, page>>
    BY <2>1, <2>3, <2>4 DEF SessionInv
  <2>5. CASE After[call.m] # None /\ Arrive(After[call.m], user)
    <3>1. After[call.m] \in Path
      BY <1>0, <2>1, <2>5, Fields, PathsKnown DEF After
    <3>2. user \in Account \cup {None} /\ (user # None => token = user)
      BY <1>0 DEF SessionInv, TypeOK
    <3>3. token' \in Account \cup {None}
      BY <1>0, <2>1 DEF TypeOK
    <3> QED BY <1>0, <2>1, <2>3, <2>5, <3>1, <3>2, <3>3, ArrivedSession
  <2> QED BY <1>20, <2>4, <2>5 DEF Finish
<1>21. CASE CallFails
  BY <1>21 DEF CallFails, SessionInv, session
<1>22. CASE CallRefused
  <2>1. CASE page # "/login"
    BY <1>22, <2>1, ReloadedSession, PathsKnown DEF CallRefused
  <2>2. CASE page = "/login"
    BY <1>22, <2>2 DEF CallRefused, SessionInv
  <2> QED BY <2>1, <2>2
<1> QED BY <1>1, <1>2, <1>3, <1>4, <1>5, <1>6, <1>7, <1>8, <1>9, <1>10, <1>11, <1>12,
           <1>13, <1>14, <1>15, <1>16, <1>17, <1>18, <1>19, <1>20, <1>21, <1>22
        DEF Next, Step

-----------------------------------------------------------------------------
(* The mutation under way: its page is shown until its user goes away, it  *)
(* has a version only if it touches the query, and once it has settled     *)
(* that version is owed.                                                   *)

CallInv ==
    call # None =>
        /\ ~Affects(call.m) => call.v = 0
        /\ ~call.away => user # None /\ call.m \in Screen(page, user).offers
        /\ call.phase = "settled" /\ query \in Invalidates[call.m] => call.v <= owed

LEMMA CallSteady ==
    ASSUME CallInv, UNCHANGED <<query, call, owed>>,
           UNCHANGED <<user, page>> \/ call = None \/ user = None
    PROVE  CallInv'
<1>1. CASE call = None
  BY <1>1 DEF CallInv
<1>2. CASE call # None
  <2>1. Affects(call.m)' <=> Affects(call.m)
    BY DEF Affects
  <2>2. (~Affects(call.m) => call.v = 0)'
    BY <1>2, <2>1 DEF CallInv
  <2>3. (~call.away => user # None /\ call.m \in Screen(page, user).offers)'
    <3>1. CASE UNCHANGED <<user, page>>
      BY <1>2, <3>1 DEF CallInv
    <3>2. CASE user = None
      BY <1>2, <3>2 DEF CallInv
    <3> QED BY <1>2, <3>1, <3>2
  <2>4. (call.phase = "settled" /\ query \in Invalidates[call.m] => call.v <= owed)'
    BY <1>2 DEF CallInv
  <2> QED BY <2>2, <2>3, <2>4 DEF CallInv
<1> QED BY <1>1, <1>2

LEMMA CallOver ==
    ASSUME call' = None
    PROVE  CallInv'
BY DEF CallInv

LEMMA CallLeft ==
    ASSUME TypeOK, CallInv, UNCHANGED <<query, owed>>, Leave
    PROVE  CallInv'
<1>1. CASE call = None
  BY <1>1, Left, CallOver DEF TypeOK
<1>2. CASE call # None
  <2>1. /\ call'.away
        /\ call'.m = call.m /\ call'.v = call.v /\ call'.phase = call.phase
    BY <1>2, Left DEF TypeOK
  <2>2. (~Affects(call.m) => call.v = 0)'
    BY <1>2, <2>1 DEF CallInv, Affects
  <2>3. (call.phase = "settled" /\ query \in Invalidates[call.m] => call.v <= owed)'
    BY <1>2, <2>1 DEF CallInv
  <2> QED BY <2>1, <2>2, <2>3 DEF CallInv
<1> QED BY <1>1, <1>2

LEMMA CallKept ==
    ASSUME TypeInv, SessionInv, CallInv, Next
    PROVE  CallInv'
<1>0. TypeOK
  BY DEF TypeInv
<1>1. ASSUME NEW path \in Path, Navigate(path)  PROVE CallInv'
  BY <1>0, <1>1, CallLeft DEF Navigate
<1>2. ASSUME NEW m \in Mutation, Send(m)  PROVE CallInv'
  <2>1. /\ UNCHANGED <<query, session, owed>>
        /\ user # None /\ m \in Screen(page, user).offers
        /\ call' = [m |-> m, by |-> token, phase |-> "sent", v |-> 0, away |-> FALSE]
    BY <1>2 DEF Send
  <2>2. /\ call'.m = m /\ call'.v = 0
        /\ call'.phase = "sent"
    BY <2>1
  <2>3. "sent" # "settled"
    OBVIOUS
  <2>4. user' # None /\ m \in Screen(page', user').offers
    BY <2>1 DEF session
  <2> QED BY <2>2, <2>3, <2>4 DEF CallInv
<1>3. ASSUME NEW a \in Account, EndAccess(a)  PROVE CallInv'
  BY <1>3, CallSteady DEF EndAccess, session
<1>4. CASE SomeoneElse
  BY <1>4, CallSteady DEF SomeoneElse, session
<1>5. ASSUME NEW a \in Account, Login(a)  PROVE CallInv'
  BY <1>5, CallSteady DEF Login, SessionInv
<1>6. CASE Logout
  BY <1>0, <1>6, CallLeft DEF Logout
<1>7. CASE Refresh
  BY <1>7, CallOver DEF Refresh, Reload
<1>8. CASE Restore
  BY <1>8, CallSteady DEF Restore, SessionInv
<1>9. CASE RestoreFails
  BY <1>9, CallSteady DEF RestoreFails, SessionInv
<1>10. CASE Serve
  BY <1>10, CallSteady DEF Serve, session
<1>11. CASE Receive
  BY <1>11, CallSteady DEF Receive, session
<1>12. CASE Retry
  BY <1>12, CallSteady DEF Retry, session
<1>13. CASE GiveUp
  BY <1>13, CallSteady DEF GiveUp, session
<1>14. CASE Refused
  <2>1. CASE page # "/login"
    BY <1>14, <2>1, CallOver DEF Refused, Unauthorized, Reload
  <2>2. CASE page = "/login"
    BY <1>14, <2>2, CallSteady DEF Refused, Unauthorized
  <2> QED BY <2>1, <2>2
<1>15. CASE Poll \/ Focus
  BY <1>15, CallSteady DEF Poll, Focus, Background, session
<1>16. CASE Sync
  BY <1>16, CallSteady DEF Sync, session
<1>17. CASE Collect
  BY <1>17, CallSteady DEF Collect, session
<1>18. CASE Commit
  <2> DEFINE n == IF Affects(call.m) THEN version' ELSE 0
  <2>1. /\ UNCHANGED <<query, session, owed>> /\ call # None
        /\ call' = [call EXCEPT !.phase = "done", !.v = n]
    BY <1>18 DEF Commit
  <2>2. ~Affects(call.m) => n = 0
    OBVIOUS
  <2> HIDE DEF n
  <2>3. call \in Call
    BY <1>0, <2>1, Fields
  <2>4. call'.m = call.m /\ call'.v = n /\ call'.phase = "done"
    BY <2>1, <2>3 DEF Call
  <2>5. call'.away = call.away
    BY <2>1, <2>3 DEF Call
  <2>6. call'.away <=> call.away
    BY <2>5, Zenon
  <2>7. ~call.away => user' # None /\ call'.m \in Screen(page', user').offers
    BY <2>1, <2>4 DEF CallInv, session
  <2>8. "done" # "settled"
    OBVIOUS
  <2>9. ~Affects(call.m)' => call'.v = 0
    BY <2>1, <2>2, <2>4 DEF Affects
  <2> QED BY <2>4, <2>6, <2>7, <2>8, <2>9 DEF CallInv
<1>19. CASE Settle
  <2>1. /\ UNCHANGED <<query, session>> /\ call # None
        /\ call' = [call EXCEPT !.phase = "settled"]
    BY <1>19 DEF Settle
  <2>2. query \in Invalidates[call.m] => owed' = Later(owed, call.v)
    BY <1>19 DEF Settle
  <2>3. call \in Call /\ version \in Nat /\ owed \in 0..version /\ call.v \in 0..version
    BY <1>0, <2>1, Fields DEF TypeInv
  <2>4. call'.m = call.m /\ call'.v = call.v /\ call'.phase = "settled"
    BY <2>1, <2>3 DEF Call
  <2>5. call'.away = call.away
    BY <2>1, <2>3 DEF Call
  <2>6. call'.away <=> call.away
    BY <2>5, Zenon
  <2>7. ~call.away => user' # None /\ call'.m \in Screen(page', user').offers
    BY <2>1, <2>4 DEF CallInv, session
  <2>8. query' \in Invalidates[call'.m] => call'.v <= owed'
    BY <2>1, <2>2, <2>3, <2>4, SeenLater
  <2>9. ~Affects(call.m)' => call'.v = 0
    BY <2>1, <2>4 DEF CallInv, Affects
  <2> QED BY <2>4, <2>6, <2>7, <2>8, <2>9 DEF CallInv
<1>20. CASE Finish
  BY <1>20, CallOver DEF Finish
<1>21. CASE CallFails
  BY <1>21, CallOver DEF CallFails
<1>22. CASE CallRefused
  BY <1>22, CallOver DEF CallRefused, Reload
<1> QED BY <1>1, <1>2, <1>3, <1>4, <1>5, <1>6, <1>7, <1>8, <1>9, <1>10, <1>11, <1>12,
           <1>13, <1>14, <1>15, <1>16, <1>17, <1>18, <1>19, <1>20, <1>21, <1>22
        DEF Next, Step

-----------------------------------------------------------------------------
(* The data: a fetch under way was sent by whoever is signed in or is an   *)
(* orphan -- all there is when somebody signs in -- and brings what is     *)
(* owed to the page that waits for it, unless it was joined too late; and  *)
(* what was announced is in the cache and in every fetch, whether somebody *)
(* looks at it or not.                                                     *)

SenderKnown == flight # None => flight.orphan \/ (user # None /\ flight.by = user)
FlightInv ==
    /\ SenderKnown
    /\ flight # None /\ ~flight.late /\ flight.seen # None =>
          /\ Mounted => flight.seen >= owed
          /\ flight.seen >= told
CacheInv == cache # None /\ ~old => cache.seen >= told

DataInv == told <= owed /\ FlightInv /\ CacheInv /\ OwnWritesShown /\ OthersDataOrphaned

LEMMA SavedIsShown ==
    ASSUME CacheInv
    PROVE  SavedThenShown
BY DEF CacheInv, SavedThenShown, Shown

LEMMA UnderwayInv ==
    ASSUME TypeOK, FlightInv, Underway, user' # None, token' = user',
           user' = user \/ user = None,
           told' = told \/ flight = None, owed' \in Nat
    PROVE  FlightInv' /\ OwnWritesShown' /\ OthersDataOrphaned'
<1>1. flight' # None
  BY NoneApart DEF Underway
<1>2. OwnWritesShown' /\ OthersDataOrphaned'
  BY <1>1 DEF OwnWritesShown, OthersDataOrphaned
<1>3. CASE Sent
  <2>1. flight'.by = user' /\ flight'.seen = None
    BY <1>3 DEF Sent
  <2> QED BY <1>2, <2>1, Zenon DEF FlightInv, SenderKnown
<1>4. CASE Joined
  <2>1. /\ flight # None /\ told' = told
        /\ flight'.by = flight.by /\ flight'.seen = flight.seen
    BY <1>4 DEF Joined
  <2>2. flight.orphan => flight'.orphan
    BY <1>4 DEF Joined
  <2>3. ~flight'.late => ~flight.late
    BY <1>4 DEF Joined
  <2>4. ~flight'.late => flight.seen = None \/ ~(flight.seen < owed')
    BY <1>4 DEF Joined
  <2>5. flight.seen \in Nat \cup {None}
    BY <2>1, Fields, ClientAssumption
  <2>6. ~flight'.late => (flight.seen # None => flight.seen >= owed')
    BY <2>4, <2>5
  <2>7. ~flight'.late /\ flight'.seen # None => flight'.seen >= told'
    BY <2>1, <2>3 DEF FlightInv
  <2>8. ~flight'.late => (flight'.seen # None => flight'.seen >= owed')
    BY <2>1, <2>6
  <2>9. SenderKnown'
    <3>1. flight.orphan \/ (user # None /\ flight.by = user)
      BY <2>1 DEF FlightInv, SenderKnown
    <3>2. flight'.orphan \/ flight'.by = user'
      BY <2>1, <2>2, <3>1
    <3> QED BY <3>2, Zenon DEF SenderKnown
  <2> QED BY <1>2, <2>7, <2>8, <2>9, Zenon DEF FlightInv
<1> QED BY <1>2, <1>3, <1>4 DEF Underway

LEMMA UnmountedInv ==
    ASSUME FlightInv, UNCHANGED flight, ~Mounted', user' = user \/ user = None,
           told' = told \/ flight = None
    PROVE  FlightInv' /\ OwnWritesShown' /\ OthersDataOrphaned'
BY DEF FlightInv, SenderKnown, OwnWritesShown, OthersDataOrphaned, Shown

LEMMA CacheSteady ==
    ASSUME CacheInv, UNCHANGED <<cache, old, told>>
    PROVE  CacheInv'
BY DEF CacheInv

LEMMA DataSteady ==
    ASSUME DataInv, UNCHANGED <<query, session, data, owed, told>>
    PROVE  DataInv'
<1>1. Mounted' <=> Mounted
  BY DEF Mounted, session
<1>2. UNCHANGED <<query, user, cache, flight, old, owed, told>>
  BY DEF session, data
<1> QED BY <1>1, <1>2
        DEF DataInv, FlightInv, SenderKnown, CacheInv, OwnWritesShown, OthersDataOrphaned,
            Shown

\* A fetch is begun or joined where nobody comes or goes.
LEMMA UnderwayData ==
    ASSUME TypeOK, SessionInv, DataInv, Underway, Mounted,
           UNCHANGED <<session, cache, old, owed, told>>
    PROVE  DataInv'
<1>1. user' # None /\ token' = user' /\ user' = user
  BY DEF Mounted, SessionInv, session
<1>2. FlightInv' /\ OwnWritesShown' /\ OthersDataOrphaned'
  BY <1>1, UnderwayInv, Fields DEF DataInv
<1> QED BY <1>2, CacheSteady DEF DataInv

LEMMA ArrivedData ==
    ASSUME TypeOK, DataInv, token' \in Account \cup {None},
           UNCHANGED <<query, owed, told>>,
           NEW path \in Path, NEW u \in Account \cup {None}, u # None => token' = u,
           u = user \/ user = None, Arrive(path, u)
    PROVE  DataInv'
<1>1. flight \in Flight \cup {None}
  BY DEF TypeOK
<1>2. /\ user' = u /\ UNCHANGED <<cache, old>>
      /\ (Underway /\ u # None) \/ (UNCHANGED flight /\ ~Mounted')
  BY <1>1, Arrived
<1>3. FlightInv' /\ OwnWritesShown' /\ OthersDataOrphaned'
  BY <1>2, UnderwayInv, UnmountedInv, Fields DEF DataInv
<1> QED BY <1>2, <1>3, CacheSteady DEF DataInv

LEMMA ReloadedData ==
    ASSUME DataInv, NEW path \in Path, NEW t \in Account \cup {None}, Reload(path, t)
    PROVE  DataInv'
<1>1. cache' = None /\ flight' = None /\ UNCHANGED <<owed, told>>
  BY Reloaded
<1> QED BY <1>1 DEF DataInv, FlightInv, SenderKnown, CacheInv, OwnWritesShown,
            OthersDataOrphaned, Shown

\* Nobody's fetch is under way, and what there is is known to be old or gone.
LEMMA FailedData ==
    ASSUME DataInv, UNCHANGED <<owed, told>>, flight' = None, old' = TRUE \/ cache' = None
    PROVE  DataInv'
<1>1. cache' = None \/ old'
  OBVIOUS
<1> QED BY <1>1 DEF DataInv, FlightInv, SenderKnown, CacheInv, OwnWritesShown,
            OthersDataOrphaned, Shown

\* What a mutation leaves unannounced on its own page it has not touched, or the page
\* leaves it alone.
LEMMA NothingOwed ==
    ASSUME TypeInv, CallInv, call # None, Mounted, query \notin Invalidates[call.m],
           ~call.away, query \notin LeftAlone(page)
    PROVE  call.v = 0
<1>1. user \in Account /\ page \in Path
  BY DEF Mounted, TypeInv, TypeOK
<1>2. call.m \in Mutation
  BY Fields DEF TypeInv
<1>3. call.m \in Screen(page, user).offers
  BY DEF CallInv
<1>4. query \in AppLayout \cup Screen(page, user).mounts
  BY DEF Mounted
<1>5. ~Affects(call.m)
  BY <1>1, <1>2, <1>3, <1>4, Offered DEF Affects
<1> QED BY <1>5 DEF CallInv

LEMMA DataStays ==
    ASSUME TypeInv, SessionInv, CallInv, DataInv, Next
    PROVE  DataInv'
<1>0. TypeOK /\ token \in Account \cup {None} /\ user \in Account \cup {None}
  BY DEF TypeInv, TypeOK
<1>1. ASSUME NEW path \in Path, Navigate(path)  PROVE DataInv'
  BY <1>0, <1>1, ArrivedData DEF Navigate, SessionInv
<1>2. ASSUME NEW m \in Mutation, Send(m)  PROVE DataInv'
  BY <1>2, DataSteady DEF Send
<1>3. ASSUME NEW a \in Account, EndAccess(a)  PROVE DataInv'
  BY <1>3, DataSteady DEF EndAccess
<1>4. CASE SomeoneElse
  BY <1>4, DataSteady DEF SomeoneElse
<1>5. ASSUME NEW a \in Account, Login(a)  PROVE DataInv'
  <2>1. /\ page = "/login" /\ token' = a /\ UNCHANGED <<query, owed, told>>
        /\ Arrive("/dashboard", a)
    BY <1>5 DEF Login
  <2>2. user = None
    BY <2>1 DEF SessionInv
  <2> QED BY <1>0, <2>1, <2>2, ArrivedData, PathsKnown
<1>6. CASE Logout
  <2>1. /\ UNCHANGED <<query, cache, owed, told, old>> /\ user' = None
    BY <1>6 DEF Logout
  <2>2. ~Mounted'
    BY <2>1 DEF Mounted
  <2>3. CASE flight = None
    <3>1. flight' = None
      BY <1>0, <1>6, <2>3, Abandoned DEF TypeOK
    <3> QED BY <2>1, <2>2, <3>1, CacheSteady
            DEF DataInv, FlightInv, SenderKnown, OwnWritesShown, OthersDataOrphaned, Shown
  <2>4. CASE flight # None
    <3>1. flight'.orphan /\ (~flight'.late => ~flight.late) /\ flight'.seen = flight.seen
      BY <1>0, <1>6, <2>4, Abandoned DEF TypeOK
    <3>2. ~flight'.late /\ flight'.seen # None => flight'.seen >= told'
      BY <2>1, <2>4, <3>1 DEF DataInv, FlightInv
    <3>3. FlightInv'
      BY <2>2, <3>1, <3>2, Zenon DEF FlightInv, SenderKnown
    <3> QED BY <2>1, <2>2, <3>3, CacheSteady
            DEF DataInv, OwnWritesShown, OthersDataOrphaned, Shown
  <2> QED BY <2>3, <2>4
<1>7. CASE Refresh
  <2>1. PICK path \in Path : Reload(path, token)
    BY <1>0, <1>7, PathsKnown DEF Refresh, TypeOK
  <2> QED BY <1>0, <2>1, ReloadedData
<1>8. CASE Restore
  BY <1>0, <1>8, ArrivedData DEF Restore, TypeOK, SessionInv
<1>9. CASE RestoreFails
  BY <1>0, <1>9, ArrivedData, PathsKnown DEF RestoreFails, SessionInv
<1>10. CASE Serve
  <2>1. /\ UNCHANGED <<query, session, cache, owed, told, old>>
        /\ flight # None /\ Welcome(flight.by)
        /\ flight' = [flight EXCEPT !.seen = version]
    BY <1>10 DEF Serve
  <2>2. flight \in Flight /\ version \in 0..MaxVersion /\ version >= owed /\ version >= told
    BY <1>0, <2>1, Fields, ClientAssumption
  <2>3. flight'.by = flight.by /\ flight'.seen = version
    BY <2>1, <2>2 DEF Flight
  <2>4. flight'.late = flight.late /\ flight'.orphan = flight.orphan
    BY <2>1, <2>2 DEF Flight
  <2>5. (flight'.late <=> flight.late) /\ (flight'.orphan <=> flight.orphan)
    BY <2>4, Zenon
  <2>6. flight' # None
    BY <2>1, <2>2, NoneApart DEF Flight
  <2>7. (Mounted' <=> Mounted) /\ user' = user
    BY <2>1 DEF Mounted, session
  <2>8. flight'.seen >= owed' /\ flight'.seen >= told'
    BY <2>1, <2>2, <2>3
  <2>9. SenderKnown'
    BY <2>1, <2>3, <2>5, <2>7 DEF DataInv, FlightInv, SenderKnown
  <2>10. FlightInv'
    BY <2>8, <2>9, Zenon DEF FlightInv
  <2>11. CacheInv' /\ told' <= owed'
    BY <2>1, CacheSteady DEF DataInv
  <2> QED BY <2>6, <2>10, <2>11 DEF DataInv, OwnWritesShown, OthersDataOrphaned
<1>11. CASE Receive
  <2>1. /\ UNCHANGED <<query, session, owed, told>>
        /\ flight # None /\ flight.seen # None
        /\ cache' = [by |-> flight.by, seen |-> flight.seen, orphan |-> flight.orphan]
        /\ flight' = None
    BY <1>11 DEF Receive
  <2>2. old' = flight.late
    BY <1>11 DEF Receive
  <2>3. old' <=> flight.late
    BY <2>2, Zenon
  <2>4. cache'.by = flight.by /\ cache'.seen = flight.seen
    BY <2>1
  <2>5. flight.orphan => cache'.orphan
    BY <2>1, Zenon
  <2>6. (Mounted' <=> Mounted) /\ user' = user
    BY <2>1 DEF Mounted, session
  <2>7. ~flight.late => flight.seen >= told
    BY <2>1 DEF DataInv, FlightInv
  <2>8. Mounted /\ ~flight.late => flight.seen >= owed
    BY <2>1 DEF DataInv, FlightInv
  <2>9. flight.orphan \/ flight.by = user
    BY <2>1 DEF DataInv, FlightInv, SenderKnown
  <2>10. ~old' => cache'.seen >= told'
    BY <2>1, <2>3, <2>4, <2>7
  <2>11. Mounted' /\ ~old' => cache'.seen >= owed'
    BY <2>1, <2>3, <2>4, <2>6, <2>8
  <2>12. cache'.by = user' \/ cache'.orphan
    BY <2>5, <2>4, <2>6, <2>9
  <2>13. CacheInv'
    BY <2>10 DEF CacheInv
  <2>14. OwnWritesShown' /\ OthersDataOrphaned'
    BY <2>11, <2>12 DEF OwnWritesShown, OthersDataOrphaned, Shown
  <2>15. FlightInv' /\ told' <= owed'
    BY <2>1 DEF FlightInv, SenderKnown, DataInv
  <2> QED BY <2>13, <2>14, <2>15 DEF DataInv
<1>12. CASE Retry
  BY <1>0, <1>12, Started, UnderwayData DEF Retry, Start, session
<1>13. CASE GiveUp
  BY <1>13, FailedData DEF GiveUp
<1>14. CASE Refused
  <2>1. CASE page # "/login"
    BY <1>14, <2>1, ReloadedData, PathsKnown DEF Refused, Unauthorized
  <2>2. CASE page = "/login"
    BY <1>14, <2>2, FailedData DEF Refused, Unauthorized
  <2> QED BY <2>1, <2>2
<1>15. CASE Poll \/ Focus
  BY <1>0, <1>15, Started, UnderwayData DEF Poll, Focus, Background, session
<1>16. CASE Sync
  BY <1>0, <1>16, Looked, UnderwayData DEF Sync, session, TypeOK
<1>17. CASE Collect
  BY <1>17, FailedData DEF Collect
<1>18. CASE Commit
  BY <1>18, DataSteady DEF Commit
<1>19. CASE Settle
  <2> DEFINE hit == query \in Invalidates[call.m]
             due == hit \/ (~call.away /\ query \notin LeftAlone(page))
  <2>1. UNCHANGED <<query, version, ended, told>> /\ UNCHANGED session /\ call # None
    BY <1>19 DEF Settle
  <2>2. owed' = IF due THEN Later(owed, call.v) ELSE owed
    BY <1>19 DEF Settle
  <2>3. IF hit /\ Mounted THEN Refetch ELSE UNCHANGED data
    BY <1>19 DEF Settle
  <2>4. version \in Nat /\ owed \in 0..version /\ call.v \in 0..version
    BY <1>0, <2>1, Fields DEF TypeInv
  <2>5. owed' \in Nat /\ owed' >= owed
    BY <2>2, <2>4, SeenLater
  <2>6. told' <= owed'
    BY <1>0, <2>1, <2>4, <2>5, Fields DEF DataInv
  <2>7. user' = user /\ (user # None => token' = user')
    BY <2>1 DEF SessionInv, session
  <2>8. CASE hit /\ Mounted
    <3>1. UNCHANGED <<cache, old>> /\ Underway
      BY <1>0, <2>1, <2>3, <2>8, Looked DEF TypeOK, session
    <3>2. FlightInv' /\ OwnWritesShown' /\ OthersDataOrphaned'
      BY <1>0, <2>1, <2>5, <2>7, <2>8, <3>1, UnderwayInv DEF DataInv, Mounted
    <3> QED BY <2>1, <2>6, <3>1, <3>2, CacheSteady DEF DataInv
  <2>9. CASE ~Mounted
    <3>1. UNCHANGED data /\ ~Mounted'
      BY <2>1, <2>3, <2>9 DEF Mounted, session
    <3>2. FlightInv' /\ OwnWritesShown' /\ OthersDataOrphaned'
      BY <2>1, <2>7, <3>1, UnmountedInv DEF DataInv, data
    <3> QED BY <2>1, <2>6, <3>1, <3>2, CacheSteady DEF DataInv, data
  <2>10. CASE ~hit /\ Mounted
    <3>1. due => call.v = 0
      BY <2>1, <2>10, NothingOwed
    <3>2. owed' = owed
      BY <2>2, <2>4, <3>1 DEF Later
    <3> QED BY <2>1, <2>3, <2>10, <3>2, DataSteady
  <2> QED BY <2>8, <2>9, <2>10
<1>20. CASE Finish
  <2> DEFINE waits == call.m \in Awaited /\ query \in Invalidates[call.m] /\ Mounted
  <2>1. UNCHANGED <<query, token, owed, loading, version, ended>> /\ call # None
    BY <1>20 DEF Finish
  <2>2. waits => flight = None
    BY <1>20 DEF Finish
  <2>3. told' = IF waits /\ ~call.away THEN Later(told, call.v) ELSE told
    BY <1>20 DEF Finish
  <2>4. \/ UNCHANGED <<user, page, data>>
        \/ After[call.m] # None /\ Arrive(After[call.m], user)
    BY <1>20 DEF Finish
  <2>5. After[call.m] # None => After[call.m] \in Path
    BY <1>0, <2>1, Fields, PathsKnown DEF After
  <2>6. user # None => token' = user
    BY <2>1 DEF SessionInv
  <2>7. call.phase = "settled"
    BY <1>20 DEF Finish
  <2>8. CASE ~(waits /\ ~call.away)
    <3>1. told' = told
      BY <2>3, <2>8
    <3>2. CASE UNCHANGED <<user, page, data>>
      BY <2>1, <3>1, <3>2, DataSteady DEF session
    <3>3. CASE After[call.m] # None /\ Arrive(After[call.m], user)
      BY <1>0, <2>1, <2>5, <2>6, <3>1, <3>3, ArrivedData
    <3> QED BY <2>4, <3>2, <3>3
  <2>9. CASE waits /\ ~call.away
    <3>1. Mounted /\ flight = None /\ query \in Invalidates[call.m]
      BY <2>2, <2>9
    <3>2. call.v <= owed /\ told <= owed
      BY <2>1, <2>7, <3>1 DEF CallInv, DataInv
    <3>3. /\ version \in Nat /\ told \in 0..version /\ call.v \in 0..version
          /\ owed \in Nat
      BY <1>0, <2>1, Fields DEF TypeInv
    <3>4. told' <= owed /\ told' \in Nat
      BY <2>3, <2>9, <3>2, <3>3, SeenLater
    <3>5. UNCHANGED <<cache, old>>
      BY <1>0, <2>1, <2>4, <2>5, Arrived DEF data, TypeOK
    <3>6. CacheInv'
      <4>1. cache # None /\ ~old => cache.seen >= owed
        BY <3>1 DEF DataInv, OwnWritesShown, Shown
      <4>2. cache # None => cache.seen \in Nat
        BY <1>0, Fields, ClientAssumption
      <4>3. cache # None /\ ~old => cache.seen >= told'
        BY <3>3, <3>4, <4>1, <4>2
      <4> QED BY <3>5, <4>3 DEF CacheInv
    <3>7. FlightInv' /\ OwnWritesShown' /\ OthersDataOrphaned'
      <4>1. CASE UNCHANGED <<user, page, data>>
        <5>1. flight' = None /\ (Mounted' <=> Mounted)
          BY <2>1, <3>1, <4>1 DEF data, Mounted
        <5>2. FlightInv'
          BY <5>1 DEF FlightInv, SenderKnown
        <5>3. OwnWritesShown' /\ OthersDataOrphaned'
          BY <2>1, <3>1, <4>1, <5>1 DEF DataInv, OwnWritesShown, OthersDataOrphaned, Shown, data
        <5> QED BY <5>2, <5>3
      <4>2. CASE After[call.m] # None /\ Arrive(After[call.m], user)
        <5>1. user' = user /\ ((Underway /\ user # None) \/ (UNCHANGED flight /\ ~Mounted'))
          BY <1>0, <2>1, <2>5, <4>2, Arrived DEF TypeOK
        <5> QED BY <1>0, <2>1, <2>6, <3>1, <3>3, <5>1, UnderwayInv, UnmountedInv DEF DataInv
      <4> QED BY <2>4, <4>1, <4>2
    <3> QED BY <2>1, <3>4, <3>6, <3>7 DEF DataInv
  <2> QED BY <2>8, <2>9
<1>21. CASE CallFails
  BY <1>21, DataSteady DEF CallFails
<1>22. CASE CallRefused
  <2>1. CASE page # "/login"
    BY <1>22, <2>1, ReloadedData, PathsKnown DEF CallRefused
  <2>2. CASE page = "/login"
    <3>1. UNCHANGED <<query, user, page, data, owed, told>>
      BY <1>22, <2>2 DEF CallRefused
    <3>2. Mounted' <=> Mounted
      BY <3>1 DEF Mounted
    <3> QED BY <3>1, <3>2
            DEF DataInv, FlightInv, SenderKnown, CacheInv, OwnWritesShown,
            OthersDataOrphaned, Shown, data
  <2> QED BY <2>1, <2>2
<1> QED BY <1>1, <1>2, <1>3, <1>4, <1>5, <1>6, <1>7, <1>8, <1>9, <1>10, <1>11, <1>12,
           <1>13, <1>14, <1>15, <1>16, <1>17, <1>18, <1>19, <1>20, <1>21, <1>22
        DEF Next, Step

-----------------------------------------------------------------------------
(* The theorems.                                                           *)

Inv == TypeInv /\ SessionInv /\ CallInv /\ DataInv

LEMMA InvBegins ==
    ASSUME Init
    PROVE  Inv
<1>1. TypeInv
  <2>1. 0 \in 0..MaxVersion /\ 0 \in 0..0
    BY ClientAssumption
  <2>2. /\ query \in Query /\ token = None /\ user = None /\ page = "/login"
        /\ cache = None /\ flight = None /\ call = None
        /\ version = 0 /\ owed = 0 /\ told = 0 /\ ended = {}
    BY DEF Init
  <2>3. loading \in BOOLEAN /\ old \in BOOLEAN
    BY DEF Init
  <2> QED BY <2>1, <2>2, <2>3, PathsKnown DEF TypeInv, TypeOK
<1>2. SessionInv /\ CallInv
  BY DEF Init, SessionInv, CallInv
<1>3. DataInv
  BY DEF Init, DataInv, FlightInv, SenderKnown, CacheInv, OwnWritesShown,
         OthersDataOrphaned, Shown
<1> QED BY <1>1, <1>2, <1>3 DEF Inv

LEMMA InvKept ==
    ASSUME Inv, [Next]_vars
    PROVE  Inv'
<1>1. CASE Next
  BY <1>1, TypeKept, SessionKept, CallKept, DataStays DEF Inv
<1>2. CASE UNCHANGED vars
  <2>1. UNCHANGED <<query, token, user, loading, page, cache, flight, call, version,
                    ended, owed, told, old>>
    BY <1>2 DEF vars
  <2>2. TypeInv'
    BY <2>1 DEF Inv, TypeInv, TypeOK
  <2>3. SessionInv'
    BY <2>1 DEF Inv, SessionInv
  <2>4. CallInv'
    BY <2>1, CallSteady DEF Inv
  <2>5. DataInv'
    BY <2>1, DataSteady DEF Inv, session, data
  <2> QED BY <2>2, <2>3, <2>4, <2>5 DEF Inv
<1> QED BY <1>1, <1>2

\* The inductive invariant behind what follows: the session, the mutation and the fetch
\* under way, and the cache, related to one another.
THEOREM ClientCorrect == Spec => []Inv
<1> QED BY InvBegins, InvKept, PTL DEF Spec

\* Every variable of the tab has its type in every reachable state.
THEOREM TypesHold == Spec => []TypeOK
<1>1. Inv => TypeOK
  BY DEF Inv, TypeInv
<1> QED BY <1>1, ClientCorrect, PTL

\* Whatever query is followed, whoever uses the tab and however its fetches, saves and
\* navigation interleave, a page that has come to rest shows what the tab itself changed.
THEOREM OwnWritesAreShown == Spec => []OwnWritesShown
<1>1. Inv => OwnWritesShown
  BY DEF Inv, DataInv
<1> QED BY <1>1, ClientCorrect, PTL

\* A save that announces itself after its refetch has its rows on the screen by then.
THEOREM SavesAreShown == Spec => []SavedThenShown
<1>1. Inv => SavedThenShown
  BY SavedIsShown DEF Inv, DataInv
<1> QED BY <1>1, ClientCorrect, PTL

\* A page that has come to rest shows data fetched for whoever is signed in, whoever was
\* before, unless it joined a fetch that its sender left under way when signing out.
THEOREM FormerDataGone == Spec => []OthersDataOrphaned
<1>1. Inv => OthersDataOrphaned
  BY DEF Inv, DataInv
<1> QED BY <1>1, ClientCorrect, PTL
=============================================================================
