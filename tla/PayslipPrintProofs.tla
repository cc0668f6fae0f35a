------------------------- MODULE PayslipPrintProofs -------------------------
(***************************************************************************)
(* Proofs about PayslipPrint: the rows that finalizations store and the    *)
(* documents printed from them, for every calendar and any number of       *)
(* periods, employments, claims and leaves.                                *)
(***************************************************************************)
EXTENDS PayslipPrint, PayslipProofs

-----------------------------------------------------------------------------
(* Adding up lines.                                                        *)

\* L is a section whose labels are in S.
Lines(L, S) == IsFiniteSet(L) /\ \A x \in L : x.amount \in Int /\ x.label \in S

\* M is the line x, or is left out because x is nothing.
Line(M, x) == M = {x} \/ (M = {} /\ x.amount = 0)

\* A section adds up as the sum of its amounts.
LEMMA LinesSum ==
    ASSUME NEW L, IsFiniteSet(L), NEW f, \A x \in L : f[x] = x.amount
    PROVE  Sum(L) = SumOn(f, L)
<1> DEFINE Adds(g) == g = [S \in SUBSET L |->
                             IF S = {} THEN 0 ELSE Pick(S).amount + g[S \ {Pick(S)}]]
<1>1. \A g : Adds(g) <=> Sums(g, f, L)
  <2>1. \A S \in SUBSET L : S # {} => f[Pick(S)] = Pick(S).amount
    BY PickIn
  <2>2. ASSUME NEW g
        PROVE  [S \in SUBSET L |-> IF S = {} THEN 0 ELSE Pick(S).amount + g[S \ {Pick(S)}]]
                 = [S \in SUBSET L |-> IF S = {} THEN 0 ELSE f[Pick(S)] + g[S \ {Pick(S)}]]
    BY <2>1
  <2> QED BY <2>2 DEF Sums
<1>2. \E g : Adds(g)
  BY <1>1, SumsExist
<1>3. Sum(L) = (CHOOSE g : Adds(g))[L]
  BY DEF Sum, MapThenSumSet, MapThenFoldSet, Pick
<1>4. PICK g : g = CHOOSE h : Adds(h)
  OBVIOUS
<1>5. Adds(g)
  BY <1>2, <1>4
<1> HIDE DEF Adds
<1>6. Sums(g, f, L)
  BY <1>1, <1>5
<1>7. SumOn(f, L) = g[L]
  BY <1>6, SumIs
<1> QED BY <1>3, <1>4, <1>7

\* An empty section adds up to nothing.
LEMMA NoLines == Lines({}, {}) /\ Sum({}) = 0
<1>1. Sum({}) = SumOn(<<>>, {})
  BY LinesSum, FS_EmptySet
<1> QED BY <1>1, SumEmpty, FS_EmptySet DEF Lines

\* A line that is printed, or left out because it is nothing, adds its amount.
LEMMA AddLine ==
    ASSUME NEW L, NEW S, Lines(L, S), NEW x, x.label \notin S, x.amount \in Int,
           NEW M, Line(M, x)
    PROVE  /\ Lines(L \cup M, S \cup {x.label})
           /\ Sum(L \cup M) = Sum(L) + x.amount
           /\ Sum(L) \in Int
<1>1. PICK f : f = [y \in L \cup M |-> y.amount]
  OBVIOUS
<1>2. M = {x} \/ (M = {} /\ x.amount = 0)
  BY DEF Line
<1>3. x \notin L
  BY DEF Lines
<1>4. IsFiniteSet(L) /\ IsFiniteSet(L \cup {x})
  BY FS_AddElement DEF Lines
<1>5. Lines(L \cup M, S \cup {x.label})
  BY <1>2, <1>4 DEF Lines
<1>6. \A y \in L \cup M : f[y] = y.amount /\ f[y] \in Int
  BY <1>1, <1>2 DEF Lines
<1>7. Sum(L) = SumOn(f, L)
  BY <1>4, <1>6, LinesSum
<1>8. Sum(L) \in Int
  BY <1>4, <1>6, <1>7, SumInt
<1>9. CASE M = {x}
  <2>1. Sum(L \cup {x}) = SumOn(f, L \cup {x})
    BY <1>4, <1>6, <1>9, LinesSum
  <2>2. SumOn(f, L \cup {x}) = f[x] + SumOn(f, (L \cup {x}) \ {x})
    BY <1>4, <1>6, <1>9, SumTake
  <2>3. (L \cup {x}) \ {x} = L /\ f[x] = x.amount
    BY <1>3, <1>6, <1>9
  <2>4. PICK n : n = x.amount
    OBVIOUS
  <2>5. SumOn(f, L \cup {x}) = n + SumOn(f, L)
    BY <2>2, <2>3, <2>4
  <2>6. Sum(L \cup {x}) = Sum(L) + n
    BY <1>7, <1>8, <2>1, <2>4, <2>5
  <2> QED BY <1>5, <1>8, <1>9, <2>4, <2>6
<1>10. CASE M = {} /\ x.amount = 0
  <2>1. L \cup M = L
    BY <1>10
  <2> QED BY <1>5, <1>8, <1>10, <2>1
<1> QED BY <1>2, <1>9, <1>10

\* What is left out of a list of amounts because it is nothing does not change the sum.
LEMMA NothingLeftOut ==
    ASSUME NEW L, IsFiniteSet(L), \A x \in L : x.amount \in Int,
           NEW K \in SUBSET L, \A x \in L \ K : x.amount = 0
    PROVE  Sum(L) = Sum(K)
<1>1. PICK f : f = [x \in L |-> x.amount]
  OBVIOUS
<1>2. IsFiniteSet(K)
  BY FS_Subset
<1>3. Sum(L) = SumOn(f, L) /\ Sum(K) = SumOn(f, K)
  BY <1>1, <1>2, LinesSum
<1>4. SumOn(f, L) = SumOn(f, K)
  BY <1>1, SumZeros
<1> QED BY <1>3, <1>4

-----------------------------------------------------------------------------
(* Arithmetic of the deduction lines.                                      *)

\* Rounding changes a quotient by half a unit at most.
LEMMA RoundingClose ==
    ASSUME NEW n \in Nat, NEW d \in Nat \ {0}, NEW r, r = RoundIdr(n, d)
    PROVE  /\ r \in Nat
           /\ 2 * (d * r) <= 2 * n + d
           /\ 2 * n < 2 * (d * r) + d
<1>1. r = (2 * n + d) \div (2 * d) /\ r \in Nat
  BY RoundingNat DEF RoundIdr
<1>2. PICK m : m = 2 * n + d
  OBVIOUS
<1>3. PICK k : k = 2 * d
  OBVIOUS
<1>4. m \in Nat /\ k \in Nat \ {0} /\ r = m \div k
  BY <1>1, <1>2, <1>3
<1>5. k * r <= m /\ m < k * r + k
  BY <1>4, Z3T(30)
<1>6. k * r = 2 * (d * r)
  BY <1>1, <1>3
<1> QED BY <1>1, <1>2, <1>3, <1>5, <1>6

\* As long as a day is worth half of what the days of a period divide a salary by, what
\* is left for the unpaid line is not negative.
LEMMA UnpaidLineFair ==
    ASSUME NEW s \in Nat, NEW u \in Nat \ {0}, NEW m \in Nat, NEW d \in Nat \ {0},
           (s - 1) * d <= 2 * m, NEW r, r = RoundIdr(m, d),
           NEW f, f = RoundIdr((s + u) * m, d)
    PROVE  RoundIdr(s * r, 1) <= f
<1>1. PICK v : v = (s + u) * m
  OBVIOUS
<1>2. v \in Nat
  BY <1>1
<1>3. /\ r \in Nat /\ 2 * (d * r) <= 2 * m + d
      /\ f \in Nat /\ 2 * v < 2 * (d * f) + d
  BY <1>1, <1>2, RoundingClose
<1>4. PICK k : k = s * r
  OBVIOUS
<1>5. k \in Nat
  BY <1>3, <1>4
<1>6. RoundIdr(k, 1) = k
  <2>1. (2 * k + 1) \div 2 = k
    BY <1>5
  <2> QED BY <2>1 DEF RoundIdr
<1>7. SUFFICES ASSUME f + 1 <= k PROVE FALSE
  BY <1>3, <1>4, <1>5, <1>6
<1>8. d * f + d <= d * k
  <2>1. d * (f + 1) <= d * k
    BY <1>3, <1>5, <1>7
  <2> QED BY <1>3, <1>5, <2>1
<1>9. 2 * (d * k) <= 2 * (s * m) + s * d
  <2>1. s * (2 * (d * r)) <= s * (2 * m + d)
    <3>1. PICK x, y : x = 2 * (d * r) /\ y = 2 * m + d
      OBVIOUS
    <3>2. x \in Nat /\ y \in Nat /\ x <= y
      BY <1>3, <3>1
    <3>3. s * x <= s * y
      BY <3>2
    <3> QED BY <3>1, <3>3
  <2>2. s * (2 * (d * r)) = 2 * (d * k)
    BY <1>3, <1>4
  <2>3. s * (2 * m + d) = 2 * (s * m) + s * d
    OBVIOUS
  <2> QED BY <2>1, <2>2, <2>3
<1>10. v = s * m + u * m /\ m <= u * m
  BY <1>1
<1>11. s * d - d <= 2 * m
  <2>1. (s - 1) * d = s * d - d
    OBVIOUS
  <2> QED BY <2>1
<1>12. PICK df, dk, sm, um, sd : df = d * f /\ dk = d * k /\ sm = s * m /\ um = u * m /\ sd = s * d
  OBVIOUS
<1>13. /\ df \in Nat /\ dk \in Nat /\ sm \in Nat /\ um \in Nat /\ sd \in Nat
       /\ df + d <= dk /\ 2 * dk <= 2 * sm + sd /\ m <= um /\ sd - d <= 2 * m
       /\ 2 * (sm + um) < 2 * df + d
  BY <1>3, <1>5, <1>8, <1>9, <1>10, <1>11, <1>12
<1> QED BY <1>13

-----------------------------------------------------------------------------
(* What a finalization stores.                                             *)

\* Neither kind of leave takes more days than the period has besides the other's.
LEMMA LeaveDaysFit ==
    ASSUME PayInv, NEW p \in FullTimers
    PROVE  LET pay == Pay(p) IN
           /\ pay.sickDays \in Nat /\ pay.unpaidDays \in Nat
           /\ pay.unpaidDays # 0 => pay.sickDays <= RangeOf[p][2] - RangeOf[p][1]
<1>1. p \in Period /\ HasRow(p) /\ type = "FULL_TIME"
  BY DEF FullTimers
<1>2. PICK a, b : a = RangeOf[p][1] /\ b = RangeOf[p][2]
  OBVIOUS
<1>3. PICK S, U : S = LeaveDays(p, {"SICK"}) /\ U = LeaveDays(p, {"UNPAID"})
  OBVIOUS
<1>4. /\ Pay(p).sickDays = DaysInPeriodByType(LeavesIn(p), {"SICK"}, p)
      /\ Pay(p).unpaidDays = DaysInPeriodByType(LeavesIn(p), {"UNPAID"}, p)
  BY <1>1 DEF Pay, ComputeFullTime
<1>5. Pay(p).sickDays = Cardinality(S) /\ Pay(p).unpaidDays = Cardinality(U)
  BY <1>1, <1>3, <1>4, LeaveCounts
<1>6. a \in Int /\ b \in Int /\ a <= b
  BY <1>1, <1>2, CalendarAssumption
<1>7. IsFiniteSet(a..b) /\ Cardinality(a..b) = b - a + 1
  BY <1>6, FS_Interval
<1>8. S \subseteq a..b /\ U \subseteq a..b
  <2>1. DaysToWork(p) \subseteq a..b
    BY <1>1, <1>2, <1>6, WorkingDaysFinite DEF DaysToWork
  <2> QED BY <1>3, <2>1 DEF LeaveDays, WorkedDays
<1>9. S \cap U = {}
  <2>1. SUFFICES ASSUME NEW d \in S, d \in U PROVE FALSE
    OBVIOUS
  <2>2. PICK k \in leaves : k.type = "SICK" /\ k.start <= d /\ d <= k.end
    BY <1>3, <2>1 DEF LeaveDays, OnLeave
  <2>3. PICK l \in leaves : l.type = "UNPAID" /\ l.start <= d /\ d <= l.end
    BY <1>3, <2>1 DEF LeaveDays, OnLeave
  <2>4. d \in Int /\ k.start \in Int /\ k.end \in Int /\ l.start \in Int /\ l.end \in Int
    <3>1. d \in Int
      BY <1>6, <1>8, <2>1
    <3>2. k \in LeaveRow /\ l \in LeaveRow
      BY DEF PayInv, TypeOK
    <3> QED BY <3>1, <3>2, CalendarAssumption DEF LeaveRow
  <2>5. k # l
    BY <2>2, <2>3
  <2> QED BY <2>2, <2>3, <2>4, <2>5 DEF PayInv, LeavesApart
<1>10. IsFiniteSet(S) /\ IsFiniteSet(U)
  BY <1>7, <1>8, FS_Subset
<1>11. Cardinality(S) \in Nat /\ Cardinality(U) \in Nat
  BY <1>10, FS_CardinalityType
<1>12. Cardinality(S) + Cardinality(U) <= b - a + 1
  <2>1. Cardinality(S \cup U) = Cardinality(S) + Cardinality(U)
    BY <1>9, <1>10, PutTogether
  <2>2. (S \cup U) \in SUBSET (a..b)
    BY <1>8
  <2>3. Cardinality(S \cup U) <= Cardinality(a..b)
    BY <1>7, <2>2, FS_Subset
  <2> QED BY <1>7, <2>1, <2>3
<1>13. Cardinality(U) # 0 => Cardinality(S) <= b - a
  BY <1>6, <1>11, <1>12
<1> QED BY <1>2, <1>5, <1>11, <1>13

\* The counts of an attendance block are numbers, and a full-timer's weekdays are all
\* accounted for.
LEMMA BlockAddsUp ==
    ASSUME PayInv, NEW p \in Period, HasRow(p)
    PROVE  LET att == Attendance(p) IN
           /\ att \in [scheduledWorkingDays : Nat, actualWorkingDays : Int, dayOffDays : Nat,
                       nationalHolidayDays : Nat, companyHolidayDays : Nat, leaveDays : Nat]
           /\ type = "FULL_TIME" =>
                att.scheduledWorkingDays = att.actualWorkingDays + att.leaveDays
                                             + att.nationalHolidayDays + att.companyHolidayDays
<1> DEFINE att == Attendance(p)
<1>1. /\ att.scheduledWorkingDays \in Nat /\ att.dayOffDays \in Nat
      /\ att.nationalHolidayDays \in Nat /\ att.companyHolidayDays \in Nat
  BY BlockCounts, WorkedDaysCount
<1>2. att = ComputeAttendance(EmploymentsIn(p), LeavesIn(p), Logs(p), p)
  BY DEF Attendance
<1>3. /\ att.leaveDays = IF type = "PART_TIME" THEN 0
                           ELSE DaysInPeriodByType(LeavesIn(p), LeaveType, p)
      /\ att.actualWorkingDays =
           IF type = "PART_TIME" THEN Cardinality({l.date : l \in Logs(p)})
             ELSE att.scheduledWorkingDays - att.nationalHolidayDays
                    - att.companyHolidayDays - att.leaveDays
  <2> HIDE DEF att
  <2> QED BY <1>2 DEF ComputeAttendance
<1>4. att = [scheduledWorkingDays |-> att.scheduledWorkingDays,
             actualWorkingDays |-> att.actualWorkingDays,
             dayOffDays |-> att.dayOffDays,
             nationalHolidayDays |-> att.nationalHolidayDays,
             companyHolidayDays |-> att.companyHolidayDays,
             leaveDays |-> att.leaveDays]
  <2> HIDE DEF att
  <2> QED BY <1>2 DEF ComputeAttendance
<1>5. Cardinality({l.date : l \in Logs(p)}) \in Nat
  <2>1. Logs(p) \in SUBSET entries
    BY DEF Logs, EntriesIn
  <2>2. IsFiniteSet(Logs(p))
    BY <2>1, FS_Subset DEF PayInv, Counted
  <2>3. PICK D : D = {l.date : l \in Logs(p)}
    OBVIOUS
  <2>4. PICK g : g = [l \in Logs(p) |-> l.date]
    OBVIOUS
  <2>5. g \in Surjection(Logs(p), D)
    BY <2>3, <2>4 DEF Surjection
  <2>6. IsFiniteSet(D)
    BY <2>2, <2>5, FS_Surjection
  <2> QED BY <2>3, <2>6, FS_CardinalityType
<1>6. DaysInPeriodByType(LeavesIn(p), LeaveType, p) \in Nat
  BY LeaveDaysNat
<1>7. att.leaveDays \in Nat
  BY <1>3, <1>6
<1>8. att.actualWorkingDays \in Int
  <2>1. CASE type = "PART_TIME"
    BY <1>3, <1>5, <2>1
  <2>2. CASE type # "PART_TIME"
    <3> HIDE DEF att
    <3> QED BY <1>1, <1>3, <1>7, <2>2
  <2> QED BY <2>1, <2>2
<1>9. type = "FULL_TIME" =>
        att.scheduledWorkingDays = att.actualWorkingDays + att.leaveDays
                                     + att.nationalHolidayDays + att.companyHolidayDays
  <2>1. type = "FULL_TIME" => type # "PART_TIME"
    OBVIOUS
  <2> HIDE DEF att
  <2> QED BY <1>1, <1>3, <1>7, <2>1
<1> HIDE DEF att
<1>10. att \in [scheduledWorkingDays : Nat, actualWorkingDays : Int, dayOffDays : Nat,
                nationalHolidayDays : Nat, companyHolidayDays : Nat, leaveDays : Nat]
  BY <1>1, <1>4, <1>7, <1>8
<1> QED BY <1>9, <1>10 DEF att

\* What is true of a full-timer's stored row, and of a part-timer's.
FullTimeFine(row, p) ==
    /\ row.sickDays = 0 => SplitLeaveDeduction(row).sickDeduction = 0
    /\ row.unpaidDays = 0 => SplitLeaveDeduction(row).unpaidDeduction = 0
    /\ row.dailyRate = RoundIdr(MonthlySalary, StandardDays)
    /\ row.leaveDeduction <= RoundIdr((row.sickDays + row.unpaidDays) * MonthlySalary,
                                      StandardDays)
    /\ row.unpaidDays # 0 => row.sickDays <= RangeOf[p][2] - RangeOf[p][1]
    /\ row.attendance.scheduledWorkingDays
         = row.attendance.actualWorkingDays + row.attendance.leaveDays
             + row.attendance.nationalHolidayDays + row.attendance.companyHolidayDays

WholeMonthFine(row) == ~row.partialMonth => row.basicSalary = MonthlySalary

PartTimeFine(row) ==
    /\ row.overtimePay = 0 /\ row.leaveDeduction = 0
    /\ row.sickDays = 0 /\ row.unpaidDays = 0
    /\ ~row.partialMonth

RowFine(row, p) ==
    /\ row \in PayslipRow
    /\ row.totalIdr = row.basicSalary + row.overtimePay + row.reimbursementTotal
                        - row.leaveDeduction
    /\ row.employmentType = "FULL_TIME" => FullTimeFine(row, p) /\ WholeMonthFine(row)
    /\ row.employmentType = "PART_TIME" => PartTimeFine(row)

\* The amounts and counts of a row are numbers.
LEMMA PayNumbers ==
    ASSUME PayInv, NEW p \in Period, HasRow(p)
    PROVE  LET pay == Pay(p) IN
           /\ pay.sickDays \in Nat /\ pay.unpaidDays \in Nat /\ pay.dailyRate \in Nat
           /\ pay.worked \subseteq entries
           /\ type # "FULL_TIME" =>
                 /\ pay.overtimePay = 0 /\ pay.leaveDeduction = 0
                 /\ pay.sickDays = 0 /\ pay.unpaidDays = 0
<1>1. CASE type = "FULL_TIME"
  <2>1. p \in FullTimers
    BY <1>1 DEF FullTimers
  <2>2. /\ Pay(p).dailyRate = RoundIdr(MonthlySalary, StandardDays)
        /\ Pay(p).worked = {r \in Approved(p) : r.kind = "overtime"}
    BY <1>1 DEF Pay, ComputeFullTime
  <2>3. Pay(p).dailyRate \in Nat
    BY <2>2, RoundingNat, MoneyAssumption
  <2>4. Pay(p).worked \subseteq entries
    BY <2>2 DEF Approved, EntriesIn
  <2> QED BY <1>1, <2>1, <2>3, <2>4, LeaveDaysFit
<1>2. CASE type # "FULL_TIME"
  <2>1. Pay(p) = ComputePartTime(Logs(p))
    BY <1>2 DEF Pay
  <2>2. Logs(p) \subseteq entries
    BY DEF Logs, EntriesIn
  <2> QED BY <1>2, <2>1, <2>2 DEF ComputePartTime
<1> QED BY <1>1, <1>2

\* A deduction is no more than the leave is worth.
LEMMA DeductionCapped ==
    ASSUME PayInv, NEW p \in FullTimers
    PROVE  LET pay == Pay(p) IN
           pay.leaveDeduction <= RoundIdr((pay.sickDays + pay.unpaidDays) * MonthlySalary,
                                          StandardDays)
<1>1. p \in Period /\ HasRow(p) /\ type = "FULL_TIME"
  BY DEF FullTimers
<1>2. PICK pay : pay = Pay(p)
  OBVIOUS
<1>3. PICK n : n = pay.sickDays + pay.unpaidDays
  OBVIOUS
<1>4. pay.leaveDeduction = LeaveDeduction(n, pay.basicSalary)
  BY <1>1, <1>2, <1>3 DEF Pay, ComputeFullTime
<1>5. n \in Nat /\ pay.basicSalary \in Nat
  <2>1. pay.sickDays \in Nat /\ pay.unpaidDays \in Nat
    BY <1>1, <1>2, PayNumbers
  <2> QED BY <1>1, <1>2, <1>3, <2>1, AmountsOf
<1>6. PICK full : full = RoundIdr(n * MonthlySalary, StandardDays)
  OBVIOUS
<1>7. full \in Nat
  <2>1. PICK k : k = n * MonthlySalary
    OBVIOUS
  <2>2. k \in Nat
    BY <1>5, <2>1, MoneyAssumption
  <2> QED BY <1>6, <2>1, <2>2, RoundingNat, MoneyAssumption
<1>8. PICK m : m = Min({full, pay.basicSalary})
  OBVIOUS
<1>9. m \in Int /\ m <= full
  <2>1. /\ Min({full, pay.basicSalary}) \in Int
        /\ \A z \in Int : z <= Min({full, pay.basicSalary}) <=>
                             z <= full /\ z <= pay.basicSalary
    BY <1>5, <1>7, MinOfTwo
  <2> QED BY <1>8, <2>1
<1> QED BY <1>2, <1>3, <1>4, <1>6, <1>8, <1>9 DEF LeaveDeduction

\* A whole month is paid the monthly salary.
LEMMA WholeMonth ==
    ASSUME PayInv, NEW p \in FullTimers, Pay(p).proration = None
    PROVE  Pay(p).basicSalary = MonthlySalary
<1>1. p \in Period /\ HasRow(p) /\ type = "FULL_TIME"
  BY DEF FullTimers
<1>2. PICK w, m : w = Cardinality(WorkedDays(p)) /\ m = Cardinality(DaysToWork(p))
  OBVIOUS
<1>3. PICK full : full = [workedWorkingDays |-> w, monthWorkingDays |-> m]
  OBVIOUS
<1>4. ProrateMonth(EmploymentsIn(p), RangeOf[p][1], RangeOf[p][2]) = full
  BY <1>1, <1>2, <1>3, SegmentsCountDays DEF ProrateMonth, HasRow, DaysToWork
<1>5. Pay(p).proration = IF w >= m THEN None ELSE full
  BY <1>1, <1>3, <1>4 DEF Pay, ComputeFullTime, IsFullMonth
<1>6. w \in Nat /\ m \in Nat /\ (w >= m <=> WorkedDays(p) = DaysToWork(p))
  BY <1>1, <1>2, WorkedDaysFinite
<1>7. full # None
  BY <1>3, <1>6, NoneAssumption DEF Proration
<1> QED BY <1>5, <1>6, <1>7, BasicSalary

\* Each field of a stored row, by its name.
LEMMA SnapshotFields ==
    ASSUME NEW p, NEW s, s = Snapshot(p)
    PROVE  LET pay == Pay(p) IN
           /\ s.basicSalary = pay.basicSalary
           /\ s.overtimePay = pay.overtimePay
           /\ s.reimbursementTotal = Cardinality(Reimbursed(p)) * Amount
           /\ s.leaveDeduction = pay.leaveDeduction
           /\ s.totalIdr = pay.basicSalary + pay.overtimePay
                             + Cardinality(Reimbursed(p)) * Amount - pay.leaveDeduction
           /\ s.employmentType = type
           /\ s.overtimes = Cardinality({r \in pay.worked : r.kind = "overtime"})
           /\ s.dailyLogs = Cardinality({r \in pay.worked : r.kind = "log"})
           /\ s.reimbursements = Cardinality(Reimbursed(p))
           /\ s.sickDays = pay.sickDays
           /\ s.unpaidDays = pay.unpaidDays
           /\ s.dailyRate = pay.dailyRate
           /\ s.attendance = Attendance(p)
BY DEF Snapshot, ComputeRow

LEMMA SnapshotMonth ==
    ASSUME NEW p, NEW s, s = Snapshot(p)
    PROVE  /\ s.partialMonth \in BOOLEAN
           /\ s.partialMonth <=> Pay(p).proration # None
BY DEF Snapshot, ComputeRow

LEMMA SnapshotRecord ==
    ASSUME NEW p, NEW s, s = Snapshot(p)
    PROVE  s = [basicSalary |-> s.basicSalary, overtimePay |-> s.overtimePay,
                reimbursementTotal |-> s.reimbursementTotal,
                leaveDeduction |-> s.leaveDeduction, totalIdr |-> s.totalIdr,
                employmentType |-> s.employmentType, overtimes |-> s.overtimes,
                dailyLogs |-> s.dailyLogs, reimbursements |-> s.reimbursements,
                sickDays |-> s.sickDays, unpaidDays |-> s.unpaidDays,
                dailyRate |-> s.dailyRate, partialMonth |-> s.partialMonth,
                attendance |-> s.attendance]
BY DEF Snapshot

\* A row that is stored is in range, its amounts make up its net, and its deduction
\* and attendance are those of its type.
LEMMA SnapshotFine ==
    ASSUME PayInv, Hired, NEW p \in Period, HasRow(p)
    PROVE  RowFine(Snapshot(p), p)
<1>1. PICK s : s = Snapshot(p)
  OBVIOUS
<1>2. PICK pay : pay = Pay(p)
  OBVIOUS
<1>3. PICK re : re = Cardinality(Reimbursed(p)) * Amount
  OBVIOUS
<1>4. /\ s.basicSalary = pay.basicSalary /\ s.overtimePay = pay.overtimePay
      /\ s.reimbursementTotal = re /\ s.leaveDeduction = pay.leaveDeduction
      /\ s.totalIdr = pay.basicSalary + pay.overtimePay + re - pay.leaveDeduction
      /\ s.employmentType = type /\ s.reimbursements = Cardinality(Reimbursed(p))
      /\ s.sickDays = pay.sickDays /\ s.unpaidDays = pay.unpaidDays
      /\ s.dailyRate = pay.dailyRate /\ s.attendance = Attendance(p)
  BY <1>1, <1>2, <1>3, SnapshotFields
<1>5. /\ pay.basicSalary \in Nat /\ pay.overtimePay \in Nat
      /\ pay.leaveDeduction \in Nat /\ re \in Nat
      /\ pay.leaveDeduction <= pay.basicSalary
  BY <1>2, <1>3, AmountsOf
<1>6. pay.sickDays \in Nat /\ pay.unpaidDays \in Nat /\ pay.dailyRate \in Nat
  BY <1>2, PayNumbers
<1>7. type \in EmploymentType
  BY DEF Hired, HasRow, EmploymentsIn
<1>8. s.totalIdr \in Nat
  BY <1>4, <1>5
<1>9. s.overtimes \in Nat /\ s.dailyLogs \in Nat /\ s.reimbursements \in Nat
  <2>1. Pay(p).worked \subseteq entries
    BY PayNumbers
  <2>2. PICK X, Y : /\ X = {r \in Pay(p).worked : r.kind = "overtime"}
                    /\ Y = {r \in Pay(p).worked : r.kind = "log"}
    OBVIOUS
  <2>3. X \subseteq entries /\ Y \subseteq entries
    BY <2>1, <2>2
  <2>4. s.overtimes = Cardinality(X) /\ s.dailyLogs = Cardinality(Y)
    BY <1>1, <2>2, SnapshotFields
  <2>5. Reimbursed(p) \subseteq entries
    BY DEF Reimbursed, Approved, EntriesIn
  <2> QED BY <1>4, <2>3, <2>4, <2>5, SomeEntries
<1>10. s.attendance \in [scheduledWorkingDays : Nat, actualWorkingDays : Int, dayOffDays : Nat,
                         nationalHolidayDays : Nat, companyHolidayDays : Nat, leaveDays : Nat]
  BY <1>4, BlockAddsUp
<1>11. s.partialMonth \in BOOLEAN
  BY <1>1, SnapshotMonth
<1>12. s \in PayslipRow
  <2>1. /\ s.basicSalary \in Nat /\ s.overtimePay \in Nat /\ s.reimbursementTotal \in Nat
        /\ s.leaveDeduction \in Nat /\ s.employmentType \in EmploymentType
        /\ s.sickDays \in Nat /\ s.unpaidDays \in Nat /\ s.dailyRate \in Nat
    BY <1>4, <1>5, <1>6, <1>7
  <2>2. s = [basicSalary |-> s.basicSalary, overtimePay |-> s.overtimePay,
             reimbursementTotal |-> s.reimbursementTotal,
             leaveDeduction |-> s.leaveDeduction, totalIdr |-> s.totalIdr,
             employmentType |-> s.employmentType, overtimes |-> s.overtimes,
             dailyLogs |-> s.dailyLogs, reimbursements |-> s.reimbursements,
             sickDays |-> s.sickDays, unpaidDays |-> s.unpaidDays,
             dailyRate |-> s.dailyRate, partialMonth |-> s.partialMonth,
             attendance |-> s.attendance]
    BY <1>1, SnapshotRecord
  <2> QED BY <1>8, <1>9, <1>10, <1>11, <2>1, <2>2, Zenon DEF PayslipRow
<1>13. s.totalIdr = s.basicSalary + s.overtimePay + s.reimbursementTotal - s.leaveDeduction
  BY <1>4
<1>14. ASSUME s.employmentType = "FULL_TIME"
       PROVE  FullTimeFine(s, p) /\ WholeMonthFine(s)
  <2>1. p \in FullTimers
    BY <1>4, <1>14 DEF FullTimers
  <2>2. WholeMonthFine(s)
    <3>1. SUFFICES ASSUME ~s.partialMonth PROVE s.basicSalary = MonthlySalary
      BY DEF WholeMonthFine
    <3>2. Pay(p).proration = None
      BY <1>1, <3>1, SnapshotMonth, Zenon
    <3>3. Pay(p).basicSalary = MonthlySalary
      BY <2>1, <3>2, WholeMonth
    <3> QED BY <1>2, <1>4, <3>3
  <2>3. SplitLeaveDeduction(s) = SplitLeaveDeduction(pay)
    BY <1>4 DEF SplitLeaveDeduction
  <2>4. /\ pay.sickDays = 0 => SplitLeaveDeduction(pay).sickDeduction = 0
        /\ pay.unpaidDays = 0 => SplitLeaveDeduction(pay).unpaidDeduction = 0
    BY <1>2, <2>1, SplitOf
  <2>5. pay.dailyRate = RoundIdr(MonthlySalary, StandardDays)
    BY <1>2, <2>1 DEF FullTimers, Pay, ComputeFullTime
  <2>6. pay.unpaidDays # 0 => pay.sickDays <= RangeOf[p][2] - RangeOf[p][1]
    BY <1>2, <2>1, LeaveDaysFit
  <2>7. Attendance(p).scheduledWorkingDays
          = Attendance(p).actualWorkingDays + Attendance(p).leaveDays
              + Attendance(p).nationalHolidayDays + Attendance(p).companyHolidayDays
    BY <1>4, <1>14, BlockAddsUp
  <2>8. pay.leaveDeduction <= RoundIdr((pay.sickDays + pay.unpaidDays) * MonthlySalary,
                                      StandardDays)
    BY <1>2, <2>1, DeductionCapped
  <2> QED BY <1>4, <2>2, <2>3, <2>4, <2>5, <2>6, <2>7, <2>8 DEF FullTimeFine
<1>15. s.employmentType = "PART_TIME" => PartTimeFine(s)
  <2>1. type # "FULL_TIME" =>
          /\ pay.overtimePay = 0 /\ pay.leaveDeduction = 0
          /\ pay.sickDays = 0 /\ pay.unpaidDays = 0
    BY <1>2, PayNumbers
  <2>2. type # "FULL_TIME" => Pay(p).proration = None
    BY DEF Pay, ComputePartTime
  <2>3. s.partialMonth <=> Pay(p).proration # None
    BY <1>1, SnapshotMonth
  <2> QED BY <1>4, <2>1, <2>2, <2>3 DEF PartTimeFine
<1> QED BY <1>1, <1>12, <1>13, <1>14, <1>15 DEF RowFine

-----------------------------------------------------------------------------
(* Printing a stored row.                                                  *)

\* The fields of a row in range.
LEMMA RowNumbers ==
    ASSUME NEW row \in PayslipRow
    PROVE  /\ row.basicSalary \in Nat /\ row.overtimePay \in Nat
           /\ row.reimbursementTotal \in Nat /\ row.leaveDeduction \in Nat
           /\ row.totalIdr \in Nat /\ row.employmentType \in EmploymentType
           /\ row.overtimes \in Nat /\ row.reimbursements \in Nat
           /\ row.sickDays \in Nat /\ row.unpaidDays \in Nat /\ row.dailyRate \in Nat
           /\ row.attendance.scheduledWorkingDays \in Nat
           /\ row.attendance.actualWorkingDays \in Int
           /\ row.attendance.nationalHolidayDays \in Nat
           /\ row.attendance.companyHolidayDays \in Nat
           /\ row.attendance.leaveDays \in Nat
BY DEF PayslipRow

\* The parts of a split deduction are numbers.
LEMMA SplitNumbers ==
    ASSUME NEW row \in PayslipRow, NEW x, x = SplitLeaveDeduction(row)
    PROVE  /\ x.sickDeduction \in Int /\ x.unpaidDeduction \in Int
           /\ x.sickDeduction + x.unpaidDeduction = row.leaveDeduction
<1>1. row.leaveDeduction \in Nat /\ row.sickDays \in Nat /\ row.dailyRate \in Nat
  BY RowNumbers
<1>2. PICK k : k = row.sickDays * row.dailyRate
  OBVIOUS
<1>3. RoundIdr(k, 1) \in Nat
  BY <1>1, <1>2, RoundingNat
<1>4. PICK y : y = IF row.unpaidDays = 0 THEN row.leaveDeduction ELSE RoundIdr(k, 1)
  OBVIOUS
<1>5. x = [sickDeduction |-> y, unpaidDeduction |-> row.leaveDeduction - y]
  BY <1>2, <1>4 DEF SplitLeaveDeduction
<1>6. y \in Nat
  BY <1>1, <1>3, <1>4
<1> QED BY <1>1, <1>5, <1>6

\* Three lines, printed or left out.
LEMMA ThreeLines ==
    ASSUME NEW x, NEW y, NEW z, x.amount \in Int, y.amount \in Int, z.amount \in Int,
           x.label # y.label, x.label # z.label, y.label # z.label,
           NEW A, Line(A, x), NEW B, Line(B, y), NEW C, Line(C, z)
    PROVE  Sum((A \cup B) \cup C) = x.amount + y.amount + z.amount
<1>1. Lines(A, {x.label}) /\ Sum(A) = x.amount
  <2>1. PICK E : E = {}
    OBVIOUS
  <2>2. Lines(E, E) /\ Sum(E) = 0 /\ x.label \notin E
    BY <2>1, NoLines
  <2>3. Lines(E \cup A, E \cup {x.label}) /\ Sum(E \cup A) = Sum(E) + x.amount
    BY <2>2, AddLine
  <2>4. E \cup A = A /\ E \cup {x.label} = {x.label}
    BY <2>1
  <2> QED BY <2>2, <2>3, <2>4
<1>2. Lines(A \cup B, {x.label} \cup {y.label}) /\ Sum(A \cup B) = x.amount + y.amount
  <2>1. y.label \notin {x.label}
    OBVIOUS
  <2> QED BY <1>1, <2>1, AddLine
<1>3. Sum((A \cup B) \cup C) = Sum(A \cup B) + z.amount
  <2>1. z.label \notin {x.label} \cup {y.label}
    OBVIOUS
  <2> QED BY <1>2, <2>1, AddLine
<1> QED BY <1>2, <1>3

\* The deduction lines add up to the deduction.
LEMMA DeductionsSum ==
    ASSUME NEW row \in PayslipRow,
           row.sickDays = 0 => SplitLeaveDeduction(row).sickDeduction = 0,
           row.unpaidDays = 0 => SplitLeaveDeduction(row).unpaidDeduction = 0
    PROVE  Sum(Deductions(row)) = row.leaveDeduction
<1>1. PICK a, b : /\ a = SplitLeaveDeduction(row).sickDeduction
                  /\ b = SplitLeaveDeduction(row).unpaidDeduction
  OBVIOUS
<1>2. a \in Int /\ b \in Int /\ a + b = row.leaveDeduction
  BY <1>1, SplitNumbers
<1>3. /\ row.sickDays \in Nat /\ row.unpaidDays \in Nat
      /\ row.sickDays = 0 => a = 0
      /\ row.unpaidDays = 0 => b = 0
  BY <1>1, RowNumbers
<1>4. PICK x, y, z : /\ x = [label |-> "Sick leave", amount |-> a]
                     /\ y = [label |-> "Unpaid leave", amount |-> b]
                     /\ z = [label |-> "neither", amount |-> 0]
  OBVIOUS
<1>5. /\ x.amount = a /\ y.amount = b /\ z.amount = 0
      /\ x.label # y.label /\ x.label # z.label /\ y.label # z.label
  BY <1>4
<1>6. PICK A, B, C : /\ A = IF row.sickDays > 0 THEN {x} ELSE {}
                     /\ B = IF row.unpaidDays > 0 THEN {y} ELSE {}
                     /\ C = {}
  OBVIOUS
<1>7. Deductions(row) = (A \cup B) \cup C
  BY <1>1, <1>4, <1>6 DEF Deductions
<1>8. Line(A, x) /\ Line(B, y) /\ Line(C, z)
  BY <1>3, <1>5, <1>6 DEF Line
<1>9. Sum((A \cup B) \cup C) = a + b + 0
  BY <1>2, <1>5, <1>8, ThreeLines
<1> QED BY <1>2, <1>7, <1>9

\* The earnings lines add up to the earnings, a part-timer's to all but the overtime.
LEMMA EarningsSum ==
    ASSUME NEW row \in PayslipRow, NEW t
    PROVE  Sum(Earnings(row, t)) =
             row.basicSalary + (IF t = "FULL_TIME" THEN row.overtimePay ELSE 0)
               + row.reimbursementTotal
<1>1. PICK a, b, c : /\ a = row.basicSalary /\ b = row.overtimePay
                     /\ c = row.reimbursementTotal
  OBVIOUS
<1>2. /\ a \in Nat /\ b \in Nat /\ c \in Nat
      /\ row.overtimes \in Nat /\ row.reimbursements \in Nat
  BY <1>1, RowNumbers
<1>3. PICK w, x, y, z : /\ w = [label |-> "Logged hours", amount |-> a]
                        /\ x = [label |-> "Basic salary", amount |-> a]
                        /\ y = [label |-> "Overtime", amount |-> b]
                        /\ z = [label |-> "Reimbursements", amount |-> c]
  OBVIOUS
<1>4. /\ w.amount = a /\ x.amount = a /\ y.amount = b /\ z.amount = c
      /\ x.label # y.label /\ x.label # z.label /\ y.label # z.label
      /\ w.label # y.label /\ w.label # z.label
  BY <1>3
<1>5. PICK C : C = IF c > 0 \/ row.reimbursements > 0 THEN {z} ELSE {}
  OBVIOUS
<1>6. Line(C, z)
  BY <1>2, <1>4, <1>5 DEF Line
<1>7. CASE t = "FULL_TIME"
  <2>1. PICK A, B : A = {x} /\ B = IF b > 0 \/ row.overtimes > 0 THEN {y} ELSE {}
    OBVIOUS
  <2>2. Line(A, x) /\ Line(B, y)
    BY <1>2, <1>4, <2>1 DEF Line
  <2>3. Earnings(row, t) = (A \cup B) \cup C
    BY <1>1, <1>3, <1>5, <1>7, <2>1 DEF Earnings
  <2>4. Sum((A \cup B) \cup C) = a + b + c
    BY <1>2, <1>4, <1>6, <2>2, ThreeLines
  <2> QED BY <1>1, <1>7, <2>3, <2>4
<1>8. CASE t # "FULL_TIME"
  <2>1. PICK A, B : A = {w} /\ B = {}
    OBVIOUS
  <2>2. PICK v : v = [label |-> "Overtime", amount |-> 0]
    OBVIOUS
  <2>3. /\ Line(A, w) /\ Line(B, v) /\ v.amount = 0
        /\ w.label # v.label /\ v.label # z.label
    BY <1>3, <1>4, <2>1, <2>2 DEF Line
  <2>4. Earnings(row, t) = (A \cup B) \cup C
    BY <1>1, <1>3, <1>5, <1>8, <2>1 DEF Earnings
  <2>5. Sum((A \cup B) \cup C) = a + 0 + c
    BY <1>2, <1>4, <1>6, <2>3, ThreeLines
  <2> QED BY <1>1, <1>2, <1>8, <2>4, <2>5
<1> QED BY <1>7, <1>8

\* The columns of the sheet add up to the same.
LEMMA SheetSum ==
    ASSUME NEW p, payslip[p] \in PayslipRow
    PROVE  Sum(SheetRow(p).plus) = payslip[p].basicSalary + payslip[p].overtimePay
                                     + payslip[p].reimbursementTotal
<1>1. PICK row : row = payslip[p]
  OBVIOUS
<1>2. PICK a, b, c : /\ a = row.basicSalary /\ b = row.overtimePay
                     /\ c = row.reimbursementTotal
  OBVIOUS
<1>3. a \in Nat /\ b \in Nat /\ c \in Nat
  BY <1>1, <1>2, RowNumbers
<1>4. PICK x, y, z : /\ x = [label |-> "Basic", amount |-> a]
                     /\ y = [label |-> "Overtime", amount |-> b]
                     /\ z = [label |-> "Reimbursement", amount |-> c]
  OBVIOUS
<1>5. /\ x.amount = a /\ y.amount = b /\ z.amount = c
      /\ x.label # y.label /\ x.label # z.label /\ y.label # z.label
  BY <1>4
<1>6. PICK A, B, C : A = {x} /\ B = {y} /\ C = {z}
  OBVIOUS
<1>7. SheetRow(p).plus = (A \cup B) \cup C
  <2>1. SheetRow(p).plus = {x, y, z}
    BY <1>1, <1>2, <1>4 DEF SheetRow
  <2> QED BY <1>6, <2>1
<1>8. Line(A, x) /\ Line(B, y) /\ Line(C, z)
  BY <1>6 DEF Line
<1>9. Sum((A \cup B) \cup C) = a + b + c
  BY <1>3, <1>5, <1>8, ThreeLines
<1> QED BY <1>1, <1>2, <1>7, <1>9

\* What is on the screen: a full-timer's monthly salary stands in for the basic one.
LEMMA ScreenSum ==
    ASSUME NEW row \in PayslipRow, row.employmentType = "PART_TIME" => row.overtimePay = 0
    PROVE  Sum(Breakdown(row, row.employmentType).plus)
             = (IF row.employmentType = "FULL_TIME" THEN MonthlySalary ELSE row.basicSalary)
                 + row.overtimePay + row.reimbursementTotal
<1>1. PICK a, b, c : /\ a = row.basicSalary /\ b = row.overtimePay
                     /\ c = row.reimbursementTotal
  OBVIOUS
<1>2. /\ a \in Nat /\ b \in Nat /\ c \in Nat /\ MonthlySalary \in Nat
      /\ row.employmentType \in EmploymentType
  BY <1>1, RowNumbers, MoneyAssumption
<1>3. PICK w, x, y, z : /\ w = [label |-> "Logged hours", amount |-> a]
                        /\ x = [label |-> "Monthly salary", amount |-> MonthlySalary]
                        /\ y = [label |-> "Overtime", amount |-> b]
                        /\ z = [label |-> "Reimbursements", amount |-> c]
  OBVIOUS
<1>4. /\ w.amount = a /\ x.amount = MonthlySalary /\ y.amount = b /\ z.amount = c
      /\ x.label # y.label /\ x.label # z.label /\ y.label # z.label
      /\ w.label # y.label /\ w.label # z.label
  BY <1>3
<1>5. PICK C : C = {z}
  OBVIOUS
<1>6. Line(C, z)
  BY <1>5 DEF Line
<1>7. CASE row.employmentType = "FULL_TIME"
  <2>1. PICK A, B : A = {x} /\ B = {y}
    OBVIOUS
  <2>2. Line(A, x) /\ Line(B, y)
    BY <2>1 DEF Line
  <2>3. Breakdown(row, row.employmentType).plus = (A \cup B) \cup C
    <3>1. Breakdown(row, row.employmentType).plus = {z} \cup {x, y}
      BY <1>1, <1>3, <1>7 DEF Breakdown
    <3> QED BY <1>5, <2>1, <3>1
  <2>4. Sum((A \cup B) \cup C) = MonthlySalary + b + c
    BY <1>2, <1>4, <1>6, <2>2, ThreeLines
  <2> QED BY <1>1, <1>7, <2>3, <2>4
<1>8. CASE row.employmentType # "FULL_TIME"
  <2>1. PICK A, B : A = {w} /\ B = {}
    OBVIOUS
  <2>2. b = 0
    BY <1>1, <1>2, <1>8 DEF EmploymentType
  <2>3. Line(A, w) /\ Line(B, y)
    BY <1>4, <2>1, <2>2 DEF Line
  <2>4. Breakdown(row, row.employmentType).plus = (A \cup B) \cup C
    <3>1. Breakdown(row, row.employmentType).plus = {z} \cup {w}
      BY <1>1, <1>3, <1>8 DEF Breakdown
    <3> QED BY <1>5, <2>1, <3>1
  <2>5. Sum((A \cup B) \cup C) = a + b + c
    BY <1>2, <1>4, <1>6, <2>3, ThreeLines
  <2> QED BY <1>1, <1>8, <2>4, <2>5
<1> QED BY <1>7, <1>8

\* The value of a cell whose label appears once.
LEMMA CellValue ==
    ASSUME NEW C, NEW l, NEW c \in C, c.label = l, \A k \in C : k.label = l => k.value = c.value
    PROVE  (CHOOSE cell \in C : cell.label = l).value = c.value
OBVIOUS

\* The bank is sent what the sheet comes to: a row that is left out of the file is nothing.
LEMMA PayoutSum ==
    ASSUME IsFiniteSet(finalized), \A p \in Issued : payslip[p].totalIdr \in Nat
    PROVE  Sum(Payout) = Sum(SheetTotal)
<1>1. PICK g : g = [p \in Issued |-> [label |-> p, amount |-> payslip[p].totalIdr]]
  OBVIOUS
<1>2. PICK L, K : L = SheetTotal /\ K = Payout
  OBVIOUS
<1>3. \A x : x \in L <=> \E p \in Issued : x = g[p]
  BY <1>1, <1>2 DEF SheetTotal
<1>4. \A x : x \in K <=> \E p \in Issued : IsPayable(p) /\ x = g[p]
  BY <1>1, <1>2 DEF Payout
<1>5. \A p \in Issued : g[p].amount = payslip[p].totalIdr
  BY <1>1
<1>6. IsFiniteSet(Issued)
  <2>1. Issued \in SUBSET finalized
    BY DEF Issued
  <2> QED BY <2>1, FS_Subset
<1>7. IsFiniteSet(L)
  <2>1. DOMAIN g = Issued /\ \A p \in Issued : g[p] \in L
    BY <1>1, <1>3
  <2>2. g \in [Issued -> L]
    BY <1>1, <2>1
  <2>3. g \in Surjection(Issued, L)
    BY <1>3, <2>2 DEF Surjection
  <2> QED BY <1>6, <2>3, FS_Surjection
<1>8. \A x \in L : x.amount \in Int
  BY <1>3, <1>5
<1>9. K \in SUBSET L
  BY <1>3, <1>4
<1>10. \A x \in L \ K : x.amount = 0
  BY <1>3, <1>4, <1>5 DEF IsPayable
<1> QED BY <1>2, <1>7, <1>8, <1>9, <1>10, NothingLeftOut

-----------------------------------------------------------------------------
(* The invariant of the stored rows.                                       *)

RowsFine == \A p \in Period : payslip[p] # None => RowFine(payslip[p], p)

PrintInv == PayInv /\ Hired /\ PrintTypeOK /\ RowsFine

\* At first nothing is finalized.
LEMMA PrintBegins == PrintInit => PrintInv
<1> SUFFICES ASSUME PrintInit PROVE PrintInv
  OBVIOUS
<1>1. PayInv /\ Hired
  BY PayInvBegins DEF PrintInit, Init, Hired
<1>2. PrintTypeOK /\ RowsFine
  BY DEF PrintInit, PrintTypeOK, RowsFine
<1> QED BY <1>1, <1>2 DEF PrintInv

\* The handlers leave the stored rows alone, and a finalization stores one that is fine.
LEMMA PrintKept == PrintInv /\ [PrintNext]_printVars => PrintInv'
<1> SUFFICES ASSUME PrintInv, [PrintNext]_printVars PROVE PrintInv'
  OBVIOUS
<1>1. CASE Handler \/ UNCHANGED printVars
  <2>1. [Next]_vars /\ UNCHANGED <<finalized, payslip>>
    BY <1>1 DEF Handler, printVars, vars
  <2>2. PayInv' /\ Hired'
    BY <2>1, PayInvKept, HiredKept DEF PrintInv
  <2>3. PrintTypeOK' /\ RowsFine'
    BY <2>1 DEF PrintInv, PrintTypeOK, RowsFine
  <2> QED BY <2>2, <2>3 DEF PrintInv
<1>2. ASSUME NEW p \in Period, FinalizePeriod(p)
      PROVE  PrintInv'
  <2>1. UNCHANGED vars
    BY <1>2 DEF FinalizePeriod
  <2>2. PayInv' /\ Hired'
    <3>1. [Next]_vars
      BY <2>1
    <3> QED BY <3>1, PayInvKept, HiredKept DEF PrintInv
  <2>3. PICK s : s = IF HasRow(p) THEN Snapshot(p) ELSE None
    OBVIOUS
  <2>4. payslip' = [payslip EXCEPT ![p] = s] /\ finalized' = finalized \cup {p}
    BY <1>2, <2>3 DEF FinalizePeriod
  <2>5. s # None => RowFine(s, p)
    BY <2>3, SnapshotFine DEF PrintInv
  <2>6. s \in PayslipRow \cup {None}
    BY <2>5 DEF RowFine
  <2>7. PrintTypeOK'
    BY <2>4, <2>6 DEF PrintInv, PrintTypeOK
  <2>8. RowsFine'
    <3>1. SUFFICES ASSUME NEW q \in Period, payslip'[q] # None
                   PROVE  RowFine(payslip'[q], q)
      BY DEF RowsFine
    <3>2. CASE q = p
      <4>1. payslip'[q] = s
        BY <2>4, <3>2 DEF PrintInv, PrintTypeOK
      <4> QED BY <2>5, <3>1, <3>2, <4>1
    <3>3. CASE q # p
      <4>1. payslip'[q] = payslip[q]
        BY <2>4, <3>3 DEF PrintInv, PrintTypeOK
      <4> QED BY <3>1, <4>1 DEF PrintInv, RowsFine
    <3> QED BY <3>2, <3>3
  <2> QED BY <2>2, <2>7, <2>8 DEF PrintInv
<1> QED BY <1>1, <1>2 DEF PrintNext

\* Every stored row is fine, whenever its period was finalized and whatever followed.
THEOREM StoredRowsFine == PrintSpec => []PrintInv
BY PrintBegins, PrintKept, PTL DEF PrintSpec

-----------------------------------------------------------------------------
(* The documents.                                                          *)

\* Twice a monthly salary covers one unit for each day it is divided by and each day of
\* a period after its first: so does any salary from 315 rupiah on, for 21 days and periods
\* of up to 31.  The code takes any number, and under a smaller salary the rounding of the
\* daily rate can leave the unpaid line below zero.
SalaryWorthDays ==
    \A p \in Period : (RangeOf[p][2] - RangeOf[p][1]) * StandardDays <= 2 * MonthlySalary

\* The lines of a payslip make up its net, whatever its employee has been converted to,
\* but for the overtime that a part-timer's has no line for.
LEMMA MoneyFine ==
    ASSUME PrintInv, NEW p \in Issued
    PROVE  Sum(PrintedPayslip(p).earnings) - Sum(PrintedPayslip(p).deductions)
             = PrintedPayslip(p).net - Unprinted(p)
<1>1. PICK row : row = payslip[p]
  OBVIOUS
<1>2. RowFine(row, p) /\ row \in PayslipRow
  BY <1>1 DEF Issued, PrintInv, PrintTypeOK, RowsFine, RowFine
<1>3. row.employmentType \in EmploymentType
  BY <1>2, RowNumbers
<1>4. /\ row.sickDays = 0 => SplitLeaveDeduction(row).sickDeduction = 0
      /\ row.unpaidDays = 0 => SplitLeaveDeduction(row).unpaidDeduction = 0
  <2>1. CASE row.employmentType = "FULL_TIME"
    BY <1>2, <2>1 DEF RowFine, FullTimeFine
  <2>2. CASE row.employmentType = "PART_TIME"
    <3>1. row.leaveDeduction = 0 /\ row.unpaidDays = 0
      BY <1>2, <2>2 DEF RowFine, PartTimeFine
    <3> QED BY <3>1 DEF SplitLeaveDeduction
  <2> QED BY <1>3, <2>1, <2>2 DEF EmploymentType
<1>5. PICK printed : printed = IF type = "FULL_TIME" THEN row.overtimePay ELSE 0
  OBVIOUS
<1>6. Sum(Earnings(row, type)) = row.basicSalary + printed + row.reimbursementTotal
  BY <1>2, <1>5, EarningsSum
<1>7. Sum(Deductions(row)) = row.leaveDeduction
  BY <1>2, <1>4, DeductionsSum
<1>8. row.totalIdr = row.basicSalary + row.overtimePay + row.reimbursementTotal
                       - row.leaveDeduction
  BY <1>2 DEF RowFine
<1>9. /\ PrintedPayslip(p).earnings = Earnings(row, type)
      /\ PrintedPayslip(p).deductions = Deductions(row)
      /\ PrintedPayslip(p).net = row.totalIdr
  BY <1>1 DEF PrintedPayslip
<1>10. /\ row.basicSalary \in Nat /\ row.overtimePay \in Nat
       /\ row.reimbursementTotal \in Nat /\ row.leaveDeduction \in Nat
  BY <1>2, RowNumbers
<1>11. printed \in Nat /\ printed = row.overtimePay - Unprinted(p)
  BY <1>1, <1>5, <1>10 DEF Unprinted
<1>12. Unprinted(p) \in Nat
  BY <1>1, <1>10 DEF Unprinted
<1> QED BY <1>6, <1>7, <1>8, <1>9, <1>10, <1>11, <1>12

\* And the weekdays of a full-timer's row are all accounted for in its cells.
LEMMA DaysFine ==
    ASSUME PrintInv, NEW p \in Issued, payslip[p].employmentType = "FULL_TIME"
    PROVE  DaysAddUp(p)
<1>1. SUFFICES ASSUME type = "FULL_TIME"
               PROVE  LET value(label) ==
                            (CHOOSE cell \in PrintedPayslip(p).cells : cell.label = label).value
                      IN value("Scheduled working") =
                           value("Actual working") + value("Leave taken")
                           + value("National holiday") + value("Company holiday")
  BY DEF DaysAddUp
<1>2. PICK row : row = payslip[p]
  OBVIOUS
<1>3. RowFine(row, p)
  BY <1>2 DEF Issued, PrintInv, PrintTypeOK, RowsFine
<1>4. PICK att : att = row.attendance
  OBVIOUS
<1>5. att.scheduledWorkingDays = att.actualWorkingDays + att.leaveDays
                                   + att.nationalHolidayDays + att.companyHolidayDays
  BY <1>1, <1>2, <1>3, <1>4 DEF RowFine, FullTimeFine
<1>6. PICK n, c, d, a, s, l :
         /\ n = [label |-> "National holiday", value |-> att.nationalHolidayDays]
         /\ c = [label |-> "Company holiday", value |-> att.companyHolidayDays]
         /\ d = [label |-> "Day off", value |-> att.dayOffDays]
         /\ a = [label |-> "Actual working", value |-> att.actualWorkingDays]
         /\ s = [label |-> "Scheduled working", value |-> att.scheduledWorkingDays]
         /\ l = [label |-> "Leave taken", value |-> att.leaveDays]
  OBVIOUS
<1>7. PICK C : C = PrintedPayslip(p).cells
  OBVIOUS
<1>8. C = {n, c, d} \cup {a, s, l}
  BY <1>1, <1>2, <1>4, <1>6, <1>7 DEF PrintedPayslip, Cells
<1>9. /\ n.label = "National holiday" /\ c.label = "Company holiday" /\ d.label = "Day off"
      /\ a.label = "Actual working" /\ s.label = "Scheduled working"
      /\ l.label = "Leave taken"
      /\ n.value = att.nationalHolidayDays /\ c.value = att.companyHolidayDays
      /\ a.value = att.actualWorkingDays /\ s.value = att.scheduledWorkingDays
      /\ l.value = att.leaveDays
  BY <1>6
<1>10. \A x \in {n, c, a, s, l} : x \in C /\ \A k \in C : k.label = x.label => k.value = x.value
  BY <1>8, <1>9
<1>11. \A x \in {n, c, a, s, l} : (CHOOSE cell \in C : cell.label = x.label).value = x.value
  <2>1. SUFFICES ASSUME NEW x \in {n, c, a, s, l}
                 PROVE  (CHOOSE cell \in C : cell.label = x.label).value = x.value
    OBVIOUS
  <2>2. PICK m : m = x.label
    OBVIOUS
  <2>3. (CHOOSE cell \in C : cell.label = m).value = x.value
    BY <1>10, <2>1, <2>2, CellValue
  <2> QED BY <2>2, <2>3
<1>12. /\ (CHOOSE cell \in C : cell.label = "National holiday").value = att.nationalHolidayDays
       /\ (CHOOSE cell \in C : cell.label = "Company holiday").value = att.companyHolidayDays
       /\ (CHOOSE cell \in C : cell.label = "Actual working").value = att.actualWorkingDays
       /\ (CHOOSE cell \in C : cell.label = "Scheduled working").value
             = att.scheduledWorkingDays
       /\ (CHOOSE cell \in C : cell.label = "Leave taken").value = att.leaveDays
  BY <1>9, <1>11, ZenonT(60)
<1> QED BY <1>5, <1>7, <1>12

\* Only the unpaid line of a deduction that was capped is negative.
LEMMA LinesFine ==
    ASSUME SalaryWorthDays, NEW p \in Period, NEW row, RowFine(row, p)
    PROVE  \A line \in Deductions(row) :
              line.amount < 0 =>
                 /\ line.label = "Unpaid leave"
                 /\ row.leaveDeduction <
                       RoundIdr((row.sickDays + row.unpaidDays) * MonthlySalary, StandardDays)
<1>1. row \in PayslipRow
  BY DEF RowFine
<1>2. PICK s, u, f, r : /\ s = row.sickDays /\ u = row.unpaidDays
                        /\ f = row.leaveDeduction /\ r = row.dailyRate
  OBVIOUS
<1>3. /\ s \in Nat /\ u \in Nat /\ f \in Nat /\ r \in Nat
      /\ row.employmentType \in EmploymentType
  BY <1>1, <1>2, RowNumbers
<1>4. PICK a : a = IF u = 0 THEN f ELSE RoundIdr(s * r, 1)
  OBVIOUS
<1>5. SplitLeaveDeduction(row) = [sickDeduction |-> a, unpaidDeduction |-> f - a]
  BY <1>2, <1>4 DEF SplitLeaveDeduction
<1>6. a \in Nat
  <2>1. PICK k : k = s * r
    OBVIOUS
  <2>2. RoundIdr(k, 1) \in Nat
    BY <1>3, <2>1, RoundingNat
  <2> QED BY <1>3, <1>4, <2>1, <2>2
<1>7. PICK full : full = RoundIdr((s + u) * MonthlySalary, StandardDays)
  OBVIOUS
<1>8. full \in Nat
  <2>1. PICK k : k = (s + u) * MonthlySalary
    OBVIOUS
  <2>2. k \in Nat
    <3>1. PICK n : n = s + u
      OBVIOUS
    <3>2. n \in Nat
      BY <1>3, <3>1
    <3> QED BY <2>1, <3>1, <3>2, MoneyAssumption
  <2> QED BY <1>7, <2>1, <2>2, RoundingNat, MoneyAssumption
<1>9. ASSUME u # 0
      PROVE  a <= f \/ f < full
  <2>1. row.employmentType = "FULL_TIME"
    BY <1>2, <1>3, <1>9 DEF RowFine, PartTimeFine, EmploymentType
  <2>2. /\ r = RoundIdr(MonthlySalary, StandardDays) /\ f <= full
        /\ s <= RangeOf[p][2] - RangeOf[p][1]
    BY <1>2, <1>7, <1>9, <2>1 DEF RowFine, FullTimeFine
  <2>3. SUFFICES ASSUME f = full PROVE a <= f
    BY <1>3, <1>8, <2>2
  <2>4. PICK m, d, w : /\ m = MonthlySalary /\ d = StandardDays
                       /\ w = RangeOf[p][2] - RangeOf[p][1]
    OBVIOUS
  <2>5. m \in Nat /\ d \in Nat \ {0} /\ w \in Int
    BY <2>4, MoneyAssumption, PeriodEnds
  <2>6. w * d <= 2 * m /\ s <= w
    BY <2>2, <2>4 DEF SalaryWorthDays
  <2>7. (s - 1) * d <= 2 * m
    <3>1. (s - 1) * d <= w * d
      <4>1. s - 1 \in Int /\ s - 1 <= w
        BY <1>3, <2>5, <2>6
      <4>2. PICK t : t = s - 1
        OBVIOUS
      <4>3. t * d <= w * d
        BY <2>5, <4>1, <4>2
      <4> QED BY <4>2, <4>3
    <3>2. PICK x, y : x = (s - 1) * d /\ y = w * d
      OBVIOUS
    <3>3. x \in Int /\ y \in Int
      BY <1>3, <2>5, <3>2
    <3> QED BY <2>5, <2>6, <3>1, <3>2, <3>3
  <2>8. r = RoundIdr(m, d) /\ f = RoundIdr((s + u) * m, d)
    BY <1>7, <2>2, <2>3, <2>4
  <2>9. RoundIdr(s * r, 1) <= f
    BY <1>3, <1>9, <2>5, <2>7, <2>8, UnpaidLineFair
  <2> QED BY <1>4, <1>9, <2>9
<1>10. PICK x, y : /\ x = [label |-> "Sick leave", amount |-> a]
                   /\ y = [label |-> "Unpaid leave", amount |-> f - a]
  OBVIOUS
<1>11. PICK A, B : A = (IF s > 0 THEN {x} ELSE {}) /\ B = (IF u > 0 THEN {y} ELSE {})
  OBVIOUS
<1>12. Deductions(row) = A \cup B
  <2>1. PICK b : b = f - a
    OBVIOUS
  <2>2. a = SplitLeaveDeduction(row).sickDeduction /\ b = SplitLeaveDeduction(row).unpaidDeduction
    BY <1>5, <2>1
  <2>3. y = [label |-> "Unpaid leave", amount |-> b]
    BY <1>10, <2>1
  <2> QED BY <1>2, <1>10, <1>11, <2>2, <2>3 DEF Deductions
<1>13. x.amount >= 0 /\ (u > 0 /\ y.amount < 0 => f < full) /\ y.label = "Unpaid leave"
  <2>1. x.amount = a /\ y.amount = f - a /\ y.label = "Unpaid leave"
    BY <1>10
  <2>2. u > 0 => a <= f \/ f < full
    BY <1>3, <1>9
  <2>3. a \in Int /\ f \in Int
    BY <1>3, <1>6
  <2>4. a <= f => ~(f - a < 0)
    BY <2>3
  <2>5. x.amount >= 0
    <3>1. a >= 0
      BY <1>6
    <3> QED BY <2>1, <3>1, Zenon
  <2>6. y.amount < 0 => ~(a <= f)
    BY <2>1, <2>4
  <2> QED BY <2>1, <2>2, <2>5, <2>6
<1>14. SUFFICES ASSUME NEW line \in Deductions(row), line.amount < 0
                PROVE  line.label = "Unpaid leave" /\ f < full
  BY <1>2, <1>7
<1>15. line = x \/ (u > 0 /\ line = y)
  BY <1>11, <1>12, <1>14
<1>16. line # x
  <2>1. x.amount = a
    BY <1>10
  <2> QED BY <1>6, <1>14, <2>1
<1> QED BY <1>13, <1>14, <1>15, <1>16

\* What the employee sees makes up the net, but for what the salary of a whole month is
\* more than that of a partial one.
LEMMA ScreenFine ==
    ASSUME PrintInv, NEW p \in Issued
    PROVE  Sum(MyPayslip(p).plus) - MyPayslip(p).minus = MyPayslip(p).total + Overstated(p)
<1>1. PICK row : row = payslip[p]
  OBVIOUS
<1>2. RowFine(row, p) /\ row \in PayslipRow
  BY <1>1 DEF Issued, PrintInv, PrintTypeOK, RowsFine, RowFine
<1>3. /\ row.basicSalary \in Nat /\ row.overtimePay \in Nat /\ row.reimbursementTotal \in Nat
      /\ row.leaveDeduction \in Nat /\ row.employmentType \in EmploymentType
      /\ MonthlySalary \in Nat
  BY <1>2, RowNumbers, MoneyAssumption
<1>4. row.totalIdr = row.basicSalary + row.overtimePay + row.reimbursementTotal
                       - row.leaveDeduction
  BY <1>2 DEF RowFine
<1>5. row.employmentType = "PART_TIME" =>
         row.overtimePay = 0 /\ row.leaveDeduction = 0 /\ ~row.partialMonth
  BY <1>2 DEF RowFine, PartTimeFine
<1>6. PICK salary : salary = IF row.employmentType = "FULL_TIME" THEN MonthlySalary
                                                                  ELSE row.basicSalary
  OBVIOUS
<1>7. PICK more : more = Overstated(p)
  OBVIOUS
<1>8. salary \in Nat /\ more = salary - row.basicSalary
  <2>1. more = IF row.partialMonth THEN MonthlySalary - row.basicSalary ELSE 0
    BY <1>1, <1>7 DEF Overstated
  <2>2. CASE row.employmentType = "FULL_TIME"
    <3>1. ~row.partialMonth => row.basicSalary = MonthlySalary
      BY <1>2, <2>2 DEF RowFine, WholeMonthFine
    <3> QED BY <1>3, <1>6, <2>1, <2>2, <3>1
  <2>3. CASE row.employmentType = "PART_TIME"
    BY <1>3, <1>5, <1>6, <2>1, <2>3
  <2> QED BY <1>3, <2>2, <2>3 DEF EmploymentType
<1>9. Sum(Breakdown(row, row.employmentType).plus)
        = salary + row.overtimePay + row.reimbursementTotal
  BY <1>2, <1>5, <1>6, ScreenSum
<1>10. /\ MyPayslip(p).plus = Breakdown(row, row.employmentType).plus
       /\ MyPayslip(p).minus = IF row.employmentType = "FULL_TIME" THEN row.leaveDeduction
                                                                    ELSE 0
       /\ MyPayslip(p).total = row.totalIdr
  BY <1>1 DEF MyPayslip, Breakdown
<1>11. MyPayslip(p).minus = row.leaveDeduction
  BY <1>3, <1>5, <1>10 DEF EmploymentType
<1> QED BY <1>3, <1>4, <1>7, <1>8, <1>9, <1>10, <1>11

\* The columns of the sheet make up the net, always.
LEMMA SheetFine ==
    ASSUME PrintInv, NEW p \in Issued
    PROVE  /\ Sum(SheetRow(p).plus) - SheetRow(p).minus = SheetRow(p).net
           /\ payslip[p].totalIdr \in Nat
<1>1. RowFine(payslip[p], p) /\ payslip[p] \in PayslipRow
  BY DEF Issued, PrintInv, PrintTypeOK, RowsFine, RowFine
<1>2. Sum(SheetRow(p).plus) = payslip[p].basicSalary + payslip[p].overtimePay
                                + payslip[p].reimbursementTotal
  BY <1>1, SheetSum
<1>3. SheetRow(p).minus = payslip[p].leaveDeduction /\ SheetRow(p).net = payslip[p].totalIdr
  BY DEF SheetRow
<1>4. payslip[p].totalIdr = payslip[p].basicSalary + payslip[p].overtimePay
                              + payslip[p].reimbursementTotal - payslip[p].leaveDeduction
  BY <1>1 DEF RowFine
<1> QED BY <1>1, <1>2, <1>3, <1>4, RowNumbers

\* Whatever happens after a finalization, the documents printed from the stored row come to
\* its net but for exactly what is named: the lines of the payslip, its days, the screen,
\* the sheet, and what the bank is sent.
THEOREM PrintsStayHonest ==
    ASSUME SalaryWorthDays
    PROVE  PrintSpec => []PrintsAddUp
<1>1. ASSUME PrintInv
      PROVE  PrintsAddUp
  <2>1. ASSUME NEW p \in Issued
        PROVE  LET row == payslip[p]
                   full == RoundIdr((row.sickDays + row.unpaidDays) * MonthlySalary,
                                    StandardDays)
               IN
               /\ Sum(PrintedPayslip(p).earnings) - Sum(PrintedPayslip(p).deductions)
                     = PrintedPayslip(p).net - Unprinted(p)
               /\ row.employmentType = "FULL_TIME" => DaysAddUp(p)
               /\ \A line \in Deductions(row) :
                     line.amount < 0 =>
                        line.label = "Unpaid leave" /\ row.leaveDeduction < full
               /\ Sum(MyPayslip(p).plus) - MyPayslip(p).minus
                     = MyPayslip(p).total + Overstated(p)
               /\ Sum(SheetRow(p).plus) - SheetRow(p).minus = SheetRow(p).net
    <3>1. Sum(PrintedPayslip(p).earnings) - Sum(PrintedPayslip(p).deductions)
            = PrintedPayslip(p).net - Unprinted(p)
      BY <1>1, <2>1, MoneyFine, Zenon
    <3>2. payslip[p].employmentType = "FULL_TIME" => DaysAddUp(p)
      BY <1>1, <2>1, DaysFine
    <3>3. \A line \in Deductions(payslip[p]) :
             line.amount < 0 =>
                /\ line.label = "Unpaid leave"
                /\ payslip[p].leaveDeduction <
                      RoundIdr((payslip[p].sickDays + payslip[p].unpaidDays) * MonthlySalary,
                               StandardDays)
      <4>1. p \in Period /\ RowFine(payslip[p], p)
        BY <1>1, <2>1 DEF Issued, PrintInv, PrintTypeOK, RowsFine
      <4>2. PICK row : row = payslip[p]
        OBVIOUS
      <4> QED BY <4>1, <4>2, LinesFine
    <3>4. Sum(MyPayslip(p).plus) - MyPayslip(p).minus = MyPayslip(p).total + Overstated(p)
      BY <1>1, <2>1, ScreenFine, Zenon
    <3>5. Sum(SheetRow(p).plus) - SheetRow(p).minus = SheetRow(p).net
      BY <1>1, <2>1, SheetFine
    <3> QED BY <3>1, <3>2, <3>3, <3>4, <3>5, Zenon
  <2>2. Sum(Payout) = Sum(SheetTotal)
    <3>1. IsFiniteSet(finalized)
      BY <1>1, PeriodAssumption, FS_Subset DEF PrintInv, PrintTypeOK
    <3> QED BY <1>1, <3>1, SheetFine, PayoutSum
  <2> QED BY <2>1, <2>2, Zenon DEF PrintsAddUp
<1> QED BY <1>1, StoredRowsFine, PTL
=============================================================================
