------------------------------ MODULE Payslip ------------------------------
(***************************************************************************)
(* What a payslip says: the arithmetic of lib/payroll.ts, workingDays.ts   *)
(* and employment.ts over the records of one employee, as computeRows      *)
(* gathers them for a pay period.                                          *)
(*                                                                         *)
(* The state is what the tables hold between handlers; a handler that      *)
(* commits is one action (their interleavings are the subject of           *)
(* PeriodLock, LeaveLedger and Inbox).  A row is computed from the state:  *)
(* it is what a preview shows and what a finalization stores.              *)
(*                                                                         *)
(* Money is in whole units; a fraction that the code rounds is kept as a   *)
(* numerator and a denominator until it is.  The conversion to dollars is  *)
(* left out, and so is "today": where a handler compares with it, any day  *)
(* may be today.                                                           *)
(***************************************************************************)
EXTENDS Integers, FiniteSets, FiniteSetsExt

CONSTANTS
    Date,           \* calendar days, as integers
    Weekend,        \* those that are Saturdays and Sundays
    Period,         \* pay periods
    RangeOf,        \* Period -> <<first day, last day>>
    MonthlySalary,  \* of a full-timer
    HourlyRate,     \* of a part-timer
    Hours,          \* of an overtime entry or a daily log
    Amount,         \* of a reimbursement
    StandardDays,   \* 21 in the code: the days a month's salary is divided by
    StandardHours,  \* 8 in the code
    MaxEmployments, \* bound: employments of one employee
    MaxEntries,     \* bound: leave, claims, logs and holidays at a time
    None

ASSUME CalendarAssumption ==
    /\ Date \subseteq Int
    /\ Weekend \subseteq Date
    /\ RangeOf \in [Period -> {r \in Date \X Date : r[1] <= r[2] /\ r[1]..r[2] \subseteq Date}]
    /\ \A p, q \in Period : p # q => RangeOf[p][2] < RangeOf[q][1] \/ RangeOf[q][2] < RangeOf[p][1]
ASSUME PeriodAssumption == IsFiniteSet(Period)
ASSUME MoneyAssumption ==
    /\ {MonthlySalary, HourlyRate, Hours, Amount} \subseteq Nat
    /\ {StandardDays, StandardHours} \subseteq Nat \ {0}
\* How much of a period was employed.
Proration == [workedWorkingDays : Nat, monthWorkingDays : Nat]

ASSUME NoneAssumption == None \notin Int \cup Proration

VARIABLES
    type,           \* Employee.employmentType; None before the employee is created
    employments,    \* Employment rows
    leaves,         \* LeaveRequest rows
    entries,        \* Overtime, Reimbursement and DailyLog rows
    holidays        \* Holiday rows

vars == <<type, employments, leaves, entries, holidays>>

EmploymentType == {"FULL_TIME", "PART_TIME"}
LeaveType == {"PAID", "SICK", "UNPAID"}
HolidayType == {"NATIONAL", "COMPANY", "SPECIAL", "JOINT_LEAVE"}

\* The last day of an employment is worked; an open one has none.
EmploymentRow == [start : Date, end : Date \cup {None}]
LeaveRow == [type : LeaveType, start : Date, end : Date]
EntryRow ==
    [kind : {"overtime", "reimbursement"}, date : Date,
     status : {"PENDING", "APPROVED", "REJECTED"}]
    \cup [kind : {"log"}, date : Date, status : {"RECORDED"}]
HolidayRow == [date : Date, type : HolidayType]

TypeOK ==
    /\ type \in EmploymentType \cup {None}
    /\ employments \subseteq EmploymentRow
    /\ leaves \subseteq LeaveRow
    /\ entries \subseteq EntryRow
    /\ holidays \subseteq HolidayRow

-----------------------------------------------------------------------------
(* Working days.                                                           *)

IsWeekend(d) == d \in Weekend

OFF_DAY_HOLIDAY_TYPES == {"NATIONAL", "COMPANY", "SPECIAL"}

OffDayHolidayKeys == {h.date : h \in {k \in holidays : k.type \in OFF_DAY_HOLIDAY_TYPES}}

Weekdays(a, b) == {d \in a..b : ~IsWeekend(d)}

WeekendDays(a, b) == {d \in a..b : IsWeekend(d)}

WorkingDays(a, b) == Weekdays(a, b) \ OffDayHolidayKeys

\* A holiday on a weekend costs nobody a working day.
HolidaysOnWeekdays(types, a, b) ==
    {h.date : h \in {k \in holidays : k.type \in types}} \cap Weekdays(a, b)

\* The code adds up, over a list of ranges, the days it counts in each: a day
\* counts once for every range it is counted in.
SumOver(ranges, DaysOf(_, _)) ==
    Cardinality(UNION {{r} \X DaysOf(r.start, r.end) : r \in ranges})

-----------------------------------------------------------------------------
(* Employments.                                                            *)

IsEmployedOn(e, d) == e.start <= d /\ (e.end # None => d <= e.end)

IsEmployedOnAny(es, d) == es = {} \/ \E e \in es : IsEmployedOn(e, d)

\* What is left of employment e between days a and b.  "of" keeps apart what
\* the code has in a list: two employments never share a segment.
Segment(e, a, b) ==
    [of |-> e, start |-> Max({e.start, a}), end |-> IF e.end = None THEN b ELSE Min({e.end, b})]

EmploymentSegments(es, a, b) ==
    {s \in {Segment(e, a, b) : e \in es} : s.start <= s.end}

ClipRangeToEmployments(a, b, es) ==
    IF es = {} THEN {[of |-> None, start |-> a, end |-> b]} ELSE EmploymentSegments(es, a, b)

\* The working days of a range that some employment covers, and all of them.
ProrateMonth(es, a, b) ==
    LET month == Cardinality(WorkingDays(a, b)) IN
    [workedWorkingDays |->
        IF es = {} THEN month ELSE SumOver(EmploymentSegments(es, a, b), WorkingDays),
     monthWorkingDays |-> month]

IsFullMonth(proration) == proration.workedWorkingDays >= proration.monthWorkingDays

-----------------------------------------------------------------------------
(* The row of a period.                                                    *)

\* Math.round of n / d.
RoundIdr(n, d) == (2 * n + d) \div (2 * d)

\* Wrong version: the last day of a period is excluded.
InPeriodHalfOpen(d, p) == RangeOf[p][1] <= d /\ d < RangeOf[p][2]

InPeriod(d, p) == RangeOf[p][1] <= d /\ d <= RangeOf[p][2]

\* Wrong version: a leave that runs past the period is not clipped to its end.
DaysInPeriodByTypeUnclipped(clipped, types, p) ==
    SumOver({l \in clipped : l.type \in types},
            LAMBDA a, b : WorkingDays(Max({a, RangeOf[p][1]}), b))

DaysInPeriodByType(clipped, types, p) ==
    SumOver({l \in clipped : l.type \in types},
            LAMBDA a, b : WorkingDays(Max({a, RangeOf[p][1]}), Min({b, RangeOf[p][2]})))

\* The whole period, whatever part of it was employed.  As an answer to what is
\* covered it is a wrong version.
CoveredWhole(es, p) == {[of |-> None, start |-> RangeOf[p][1], end |-> RangeOf[p][2]]}

\* The parts of the period that the attendance speaks of.
Covered(es, p) ==
    LET segments == EmploymentSegments(es, RangeOf[p][1], RangeOf[p][2]) IN
    IF segments # {} THEN segments ELSE CoveredWhole(es, p)

ComputeAttendance(es, clipped, logs, p) ==
    LET covered == Covered(es, p)
        scheduled == SumOver(covered, Weekdays)
        national == SumOver(covered, LAMBDA a, b : HolidaysOnWeekdays({"NATIONAL"}, a, b))
        company == SumOver(covered,
                           LAMBDA a, b : HolidaysOnWeekdays({"COMPANY", "SPECIAL"}, a, b))
        leave == IF type = "PART_TIME" THEN 0 ELSE DaysInPeriodByType(clipped, LeaveType, p)
    IN
    [scheduledWorkingDays |-> scheduled,
     actualWorkingDays |-> IF type = "PART_TIME"
                             THEN Cardinality({l.date : l \in logs})
                             ELSE scheduled - national - company - leave,
     dayOffDays |-> SumOver(covered, WeekendDays),
     nationalHolidayDays |-> national,
     companyHolidayDays |-> company,
     leaveDays |-> leave]

\* Wrong version: without the cap at the basic salary.
LeaveDeductionUncapped(days, basicSalary) == RoundIdr(days * MonthlySalary, StandardDays)

LeaveDeduction(days, basicSalary) ==
    Min({RoundIdr(days * MonthlySalary, StandardDays), basicSalary})

\* What both kinds of employee have on their payslip, from what the period holds.
ComputeFullTime(es, clipped, approved, p) ==
    LET prorated == ProrateMonth(es, RangeOf[p][1], RangeOf[p][2])
        basic == IF prorated.monthWorkingDays = 0
                   THEN MonthlySalary
                   ELSE RoundIdr(MonthlySalary * prorated.workedWorkingDays, prorated.monthWorkingDays)
        overtimes == {r \in approved : r.kind = "overtime"}
        sick == DaysInPeriodByType(clipped, {"SICK"}, p)
        unpaid == DaysInPeriodByType(clipped, {"UNPAID"}, p)
    IN
    [basicSalary |-> basic,
     overtimePay |-> RoundIdr(Cardinality(overtimes) * Hours * MonthlySalary,
                              StandardDays * StandardHours),
     leaveDeduction |-> LeaveDeduction(sick + unpaid, basic),
     worked |-> overtimes,
     sickDays |-> sick,
     unpaidDays |-> unpaid,
     dailyRate |-> RoundIdr(MonthlySalary, StandardDays),
     proration |-> IF IsFullMonth(prorated) THEN None ELSE prorated]

ComputePartTime(logs) ==
    [basicSalary |-> Cardinality(logs) * Hours * HourlyRate,
     overtimePay |-> 0,
     leaveDeduction |-> 0,
     worked |-> logs,
     sickDays |-> 0,
     unpaidDays |-> 0,
     dailyRate |-> 0,
     proration |-> None]

\* computeRows for this employee: the employments that touch the period, the
\* entries dated on a day of one of them, and leave clipped to them.
EmploymentsIn(p) ==
    {e \in employments : e.start <= RangeOf[p][2] /\ (e.end # None => e.end >= RangeOf[p][1])}

EntriesIn(p) == {r \in entries : InPeriod(r.date, p) /\ IsEmployedOnAny(EmploymentsIn(p), r.date)}

Clipped(l, es) ==
    {[type |-> l.type, row |-> l, of |-> s.of, start |-> s.start, end |-> s.end] :
        s \in ClipRangeToEmployments(l.start, l.end, es)}

\* A leave that overlaps the period, part by part, as far as it is employed.
\* What lies outside the period is clipped by DaysInPeriodByType.
LeavesIn(p) ==
    UNION {Clipped(l, EmploymentsIn(p)) :
              l \in {k \in leaves : k.start <= RangeOf[p][2] /\ RangeOf[p][1] <= k.end}}

Logs(p) == {r \in EntriesIn(p) : r.kind = "log"}
Approved(p) == {r \in EntriesIn(p) : r.status = "APPROVED"}
Reimbursed(p) == {r \in Approved(p) : r.kind = "reimbursement"}

Pay(p) ==
    IF type = "FULL_TIME"
      THEN ComputeFullTime(EmploymentsIn(p), LeavesIn(p), Approved(p), p)
      ELSE ComputePartTime(Logs(p))

Attendance(p) == ComputeAttendance(EmploymentsIn(p), LeavesIn(p), Logs(p), p)

ComputeRow(p) ==
    LET pay == Pay(p)
        total == Cardinality(Reimbursed(p)) * Amount
    IN
    [pay |-> pay,
     reimbursementTotal |-> total,
     reimbursed |-> Reimbursed(p),
     attendance |-> Attendance(p),
     totalIdr |-> pay.basicSalary + pay.overtimePay + total - pay.leaveDeduction]

\* Whoever was employed at some time of the period has a row.
HasRow(p) == EmploymentsIn(p) # {}

\* Wrong version: sick leave is always priced at the rounded daily rate.
SplitLeaveDeductionByRate(pay) ==
    LET sick == RoundIdr(pay.sickDays * pay.dailyRate, 1) IN
    [sickDeduction |-> sick, unpaidDeduction |-> pay.leaveDeduction - sick]

\* The two lines a leave deduction is printed as.
SplitLeaveDeduction(pay) ==
    LET sick == IF pay.unpaidDays = 0 THEN pay.leaveDeduction
                                      ELSE RoundIdr(pay.sickDays * pay.dailyRate, 1) IN
    [sickDeduction |-> sick, unpaidDeduction |-> pay.leaveDeduction - sick]

-----------------------------------------------------------------------------
(* The handlers.                                                           *)

Room == Cardinality(leaves) + Cardinality(entries) + Cardinality(holidays) < MaxEntries

Init == type = None /\ employments = {} /\ leaves = {} /\ entries = {} /\ holidays = {}

CreateEmployee(t, join) ==
    /\ type = None
    /\ type' = t
    /\ employments' = {[start |-> join, end |-> None]}
    /\ UNCHANGED <<leaves, entries, holidays>>

IsEarliest(e) == e \in employments /\ \A f \in employments : e.start <= f.start
IsLatest(e) == e \in employments /\ \A f \in employments : f.start <= e.start

\* A corrected join date moves the start of the first employment; a conversion
\* leaves behind what was recorded under the old employment type.
UpdateEmployee(t, join) ==
    /\ type' = t
    /\ \E e \in employments :
          /\ IsEarliest(e)
          /\ e.end # None => join <= e.end
          /\ employments' = (employments \ {e}) \cup {[e EXCEPT !.start = join]}
    /\ UNCHANGED <<leaves, entries, holidays>>

TerminateEmployee(end) ==
    /\ \E e \in employments :
          /\ IsLatest(e)
          /\ e.end = None /\ e.start <= end
          /\ employments' = (employments \ {e}) \cup {[e EXCEPT !.end = end]}
    /\ UNCHANGED <<type, leaves, entries, holidays>>

\* Wrong version: the day of the termination may be the day of the rehire.
RehireEmployeeSameDay(start) ==
    /\ Cardinality(employments) < MaxEmployments
    /\ \E e \in employments : IsLatest(e) /\ e.end # None /\ e.end <= start
    /\ employments' = employments \cup {[start |-> start, end |-> None]}
    /\ UNCHANGED <<type, leaves, entries, holidays>>

RehireEmployee(start) ==
    /\ Cardinality(employments) < MaxEmployments
    /\ \E e \in employments : IsLatest(e) /\ e.end # None /\ e.end < start
    /\ employments' = employments \cup {[start |-> start, end |-> None]}
    /\ UNCHANGED <<type, leaves, entries, holidays>>

\* The dates need not lie in an employment.  Whether a balance covers paid leave
\* is for LeaveLedger.
SubmitLeave(t, a, b) ==
    /\ Room
    /\ type = "FULL_TIME"
    /\ a <= b /\ WorkingDays(a, b) # {}
    /\ ~\E l \in leaves : l.start <= b /\ a <= l.end
    /\ leaves' = leaves \cup {[type |-> t, start |-> a, end |-> b]}
    /\ UNCHANGED <<type, employments, entries, holidays>>

CancelLeave(l) ==
    /\ leaves' = leaves \ {l}
    /\ UNCHANGED <<type, employments, entries, holidays>>

Employed(d) == \E e \in employments : IsEmployedOn(e, d)

CreateOvertime(d) ==
    /\ Room
    /\ type = "FULL_TIME" /\ Employed(d)
    /\ ~\E r \in entries : r.kind = "overtime" /\ r.date = d /\ r.status \in {"PENDING", "APPROVED"}
    /\ entries' = entries \cup {[kind |-> "overtime", date |-> d, status |-> "PENDING"]}
    /\ UNCHANGED <<type, employments, leaves, holidays>>

\* One claim per date, where the code has any number.
CreateReimbursement(d) ==
    /\ Room
    /\ Employed(d)
    /\ ~\E r \in entries : r.kind = "reimbursement" /\ r.date = d
    /\ entries' = entries \cup {[kind |-> "reimbursement", date |-> d, status |-> "PENDING"]}
    /\ UNCHANGED <<type, employments, leaves, holidays>>

\* Wrong version: whatever has not got that verdict yet may be reviewed.
ReviewAnything(r, verdict) ==
    /\ r.status # verdict
    /\ entries' = (entries \ {r}) \cup {[r EXCEPT !.status = verdict]}
    /\ UNCHANGED <<type, employments, leaves, holidays>>

Review(r, verdict) ==
    /\ r.status = "PENDING"
    /\ entries' = (entries \ {r}) \cup {[r EXCEPT !.status = verdict]}
    /\ UNCHANGED <<type, employments, leaves, holidays>>

\* A pending claim is withdrawn, or a daily log deleted.
Withdraw(r) ==
    /\ r.status \in {"PENDING", "RECORDED"}
    /\ entries' = entries \ {r}
    /\ UNCHANGED <<type, employments, leaves, holidays>>

CreateDailyLog(d) ==
    /\ Room
    /\ type = "PART_TIME" /\ Employed(d)
    /\ ~\E r \in entries : r.kind = "log" /\ r.date = d
    /\ entries' = entries \cup {[kind |-> "log", date |-> d, status |-> "RECORDED"]}
    /\ UNCHANGED <<type, employments, leaves, holidays>>

\* Nothing checks that the employee was employed on the new date.
UpdateDailyLog(r, d) ==
    /\ r.kind = "log"
    /\ ~\E k \in entries \ {r} : k.kind = "log" /\ k.date = d
    /\ entries' = (entries \ {r}) \cup {[r EXCEPT !.date = d]}
    /\ UNCHANGED <<type, employments, leaves, holidays>>

\* Wrong version: without the unique index on the date.
CreateHolidayTwice(d, t) ==
    /\ Room
    /\ holidays' = holidays \cup {[date |-> d, type |-> t]}
    /\ UNCHANGED <<type, employments, leaves, entries>>

CreateHoliday(d, t) ==
    /\ Room
    /\ ~\E h \in holidays : h.date = d
    /\ holidays' = holidays \cup {[date |-> d, type |-> t]}
    /\ UNCHANGED <<type, employments, leaves, entries>>

UpdateHoliday(h, d, t) ==
    /\ ~\E k \in holidays \ {h} : k.date = d
    /\ holidays' = (holidays \ {h}) \cup {[date |-> d, type |-> t]}
    /\ UNCHANGED <<type, employments, leaves, entries>>

DeleteHoliday(h) ==
    /\ holidays' = holidays \ {h}
    /\ UNCHANGED <<type, employments, leaves, entries>>

Next ==
    \/ \E d \in Date :
          \/ \E t \in EmploymentType : CreateEmployee(t, d) \/ UpdateEmployee(t, d)
          \/ TerminateEmployee(d) \/ RehireEmployee(d)
          \/ CreateOvertime(d) \/ CreateReimbursement(d) \/ CreateDailyLog(d)
          \/ \E t \in HolidayType : CreateHoliday(d, t)
    \/ \E t \in LeaveType, a, b \in Date : SubmitLeave(t, a, b)
    \/ \E l \in leaves : CancelLeave(l)
    \/ \E r \in entries :
          \/ \E verdict \in {"APPROVED", "REJECTED"} : Review(r, verdict)
          \/ Withdraw(r)
          \/ \E d \in Date : UpdateDailyLog(r, d)
    \/ \E h \in holidays :
          \/ DeleteHoliday(h)
          \/ \E d \in Date, t \in HolidayType : UpdateHoliday(h, d, t)

Spec == Init /\ [][Next]_vars

-----------------------------------------------------------------------------
(* What a payslip must say, in terms of days rather than of the code's     *)
(* counts and segments.                                                    *)

Days(p) == RangeOf[p][1]..RangeOf[p][2]
DaysToWork(p) == WorkingDays(RangeOf[p][1], RangeOf[p][2])
OnLeave(d, types) == \E l \in leaves : l.type \in types /\ l.start <= d /\ d <= l.end

FullTimers == {p \in Period : type = "FULL_TIME" /\ HasRow(p)}

\* A payslip never comes to less than nothing (payroll.ts:346: "a payroll system
\* must never hand somebody a negative net"), though leave and proration divide
\* by different numbers of days.
NetNeverNegative == \A p \in Period : HasRow(p) => ComputeRow(p).totalIdr >= 0

\* A full-timer's basic salary is the share of the period's working days on which
\* some employment held: no day counts twice around a termination and a rehire,
\* and the salary is never exceeded (employment.ts:66).
PaidByTheDay ==
    \A p \in FullTimers :
       LET basic == Pay(p).basicSalary
           days == DaysToWork(p)
           worked == {d \in days : Employed(d)}
       IN basic = IF worked = days
                    THEN MonthlySalary
                    ELSE RoundIdr(MonthlySalary * Cardinality(worked), Cardinality(days))

\* The attendance of a full-timer adds up to days (payroll.ts:204): those marked
\* as worked are the working days employed and not on leave, and the block covers
\* exactly the days employed.
AttendanceHonest ==
    \A p \in FullTimers :
       LET att == Attendance(p)
           employed == {d \in Days(p) : Employed(d)}
       IN /\ att.actualWorkingDays =
                Cardinality({d \in DaysToWork(p) : Employed(d) /\ ~OnLeave(d, LeaveType)})
          /\ att.scheduledWorkingDays + att.dayOffDays = Cardinality(employed)

\* The attendance never contradicts the proration line beside it
\* (payroll.ts:226): together they count the same working days, and there is no
\* line exactly when no working day of the period is missing.
ProrationAgrees ==
    \A p \in FullTimers :
       LET att == Attendance(p)
           proration == Pay(p).proration
           present == att.actualWorkingDays + att.leaveDays
       IN IF proration = None
            THEN present = Cardinality(DaysToWork(p))
            ELSE /\ present = proration.workedWorkingDays
                 /\ present < Cardinality(DaysToWork(p))

\* Neither line of the printed deduction takes money for days that were not taken
\* (splitLeaveDeduction, payroll.ts:145).
SplitFair ==
    \A p \in FullTimers :
       LET pay == Pay(p)
           parts == SplitLeaveDeduction(pay)
       IN /\ pay.sickDays = 0 => parts.sickDeduction = 0
          /\ pay.unpaidDays = 0 => parts.unpaidDeduction = 0

\* A leave that runs across pay periods, or past an employment, is counted once:
\* the periods together count the working days on leave and employed, each of
\* them in the period it falls in (domain-rules: "only the in-period days count").
LeaveCountedOnce ==
    type = "FULL_TIME" =>
       MapThenSumSet(LAMBDA p : IF HasRow(p) THEN Attendance(p).leaveDays ELSE 0, Period)
         = Cardinality({d \in UNION {DaysToWork(p) : p \in Period} :
                           Employed(d) /\ OnLeave(d, LeaveType)})

\* Every entry that counts is paid by one period: approved overtime of a
\* full-timer and logs of a part-timer, and approved reimbursements, dated on a
\* day of an employment; nothing else is.
PaidOnce ==
    LET paid == [p \in Period |-> IF HasRow(p) THEN Reimbursed(p) \cup Pay(p).worked ELSE {}] IN
    \A r \in entries :
       LET payable == /\ Employed(r.date)
                      /\ \E p \in Period : r.date \in Days(p)
                      /\ \/ r.status = "APPROVED" /\ r.kind = "reimbursement"
                         \/ r.status = "APPROVED" /\ r.kind = "overtime" /\ type = "FULL_TIME"
                         \/ r.kind = "log" /\ type = "PART_TIME"
       IN Cardinality({p \in Period : r \in paid[p]}) = IF payable THEN 1 ELSE 0
=============================================================================
