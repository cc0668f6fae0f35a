--------------------------- MODULE PayslipProofs ---------------------------
(***************************************************************************)
(* Proofs about Payslip, for every calendar, salary and rate, and for any  *)
(* number of employments, leaves, entries and holidays.                    *)
(***************************************************************************)
EXTENDS Payslip, FiniteSums, FiniteSetTheorems, TLAPS

\* e has ended before f begins.
Before(e, f) == e.end # None /\ e.end < f.start

Proper == \A e \in employments : e.end # None => e.start <= e.end
Apart == \A e, f \in employments : e # f => Before(e, f) \/ Before(f, e)
Counted == IsFiniteSet(employments) /\ IsFiniteSet(leaves) /\ IsFiniteSet(entries)

\* No day belongs to two leaves, and no date to two holidays.
LeavesApart == \A k, l \in leaves : k # l => k.end < l.start \/ l.end < k.start
OneHoliday == \A h, k \in holidays : h.date = k.date => h = k

PayInv == TypeOK /\ Proper /\ Apart /\ Counted /\ LeavesApart /\ OneHoliday

-----------------------------------------------------------------------------
(* The invariant.                                                          *)

\* The steps that change something else leave the employments as they are.
LEMMA OtherSteps ==
    ASSUME PayInv, TypeOK', UNCHANGED employments,
           IsFiniteSet(leaves)', IsFiniteSet(entries)', LeavesApart', OneHoliday'
    PROVE  PayInv'
BY DEF PayInv, Proper, Apart, Counted, Before

\* A row more, a row less or a row changed leaves a finite table finite.
LEMMA RowsFinite ==
    ASSUME NEW S, IsFiniteSet(S), NEW r, NEW q
    PROVE  /\ IsFiniteSet(S \cup {r})
           /\ IsFiniteSet(S \ {r})
           /\ IsFiniteSet((S \ {r}) \cup {q})
BY FS_AddElement, FS_RemoveElement

\* Dates are integers, so they can be compared, and None is none of them.
LEMMA RowsOrdered ==
    ASSUME TypeOK
    PROVE  \A e \in employments : /\ e \in EmploymentRow
                                  /\ e.start \in Int
                                  /\ e.end # None => e.end \in Int
BY CalendarAssumption DEF TypeOK, EmploymentRow

\* The first employment is the only one.
LEMMA CreateKeeps ==
    ASSUME PayInv, NEW t \in EmploymentType, NEW d \in Date, CreateEmployee(t, d)
    PROVE  PayInv'
<1>1. TypeOK'
  BY DEF PayInv, TypeOK, CreateEmployee, EmploymentRow
<1>2. Proper' /\ Apart'
  BY DEF CreateEmployee, Proper, Apart
<1>3. Counted'
  BY FS_Singleton DEF PayInv, Counted, CreateEmployee
<1>4. LeavesApart' /\ OneHoliday'
  BY DEF PayInv, LeavesApart, OneHoliday, CreateEmployee
<1> QED BY <1>1, <1>2, <1>3, <1>4 DEF PayInv

\* The first employment comes before all others, so its start may move to any day up to
\* its end.
LEMMA UpdateKeeps ==
    ASSUME PayInv, NEW t \in EmploymentType, NEW d \in Date, UpdateEmployee(t, d)
    PROVE  PayInv'
<1>1. PICK e \in employments :
         /\ IsEarliest(e)
         /\ e.end # None => d <= e.end
         /\ employments' = (employments \ {e}) \cup {[e EXCEPT !.start = d]}
  BY DEF UpdateEmployee
<1> DEFINE n == [e EXCEPT !.start = d]
<1>2. /\ \A f \in employments : /\ f \in EmploymentRow
                                /\ f.start \in Int
                                /\ f.end # None => f.end \in Int
      /\ d \in Int
  BY RowsOrdered, CalendarAssumption DEF PayInv
<1>3. n \in EmploymentRow /\ n.start = d /\ n.end = e.end
  BY <1>2 DEF EmploymentRow
<1>4. TypeOK'
  BY <1>1, <1>3 DEF PayInv, TypeOK, UpdateEmployee
<1>5. Proper'
  BY <1>1, <1>3 DEF PayInv, Proper
<1>6. \A f \in employments \ {e} : Before(e, f)
  BY <1>1, <1>2 DEF PayInv, Proper, Apart, Before, IsEarliest
<1>7. \A f \in employments \ {e} : Before(n, f)
  BY <1>3, <1>6 DEF Before
<1>8. Apart'
  BY <1>1, <1>7 DEF PayInv, Apart, Before
<1>9. Counted'
  BY <1>1, RowsFinite DEF PayInv, Counted, UpdateEmployee
<1>10. LeavesApart' /\ OneHoliday'
  BY DEF PayInv, LeavesApart, OneHoliday, UpdateEmployee
<1> QED BY <1>4, <1>5, <1>8, <1>9, <1>10 DEF PayInv

\* The last employment, ended, still comes after all others.
LEMMA TerminateKeeps ==
    ASSUME PayInv, NEW d \in Date, TerminateEmployee(d)
    PROVE  PayInv'
<1>1. PICK e \in employments :
         /\ IsLatest(e)
         /\ e.end = None /\ e.start <= d
         /\ employments' = (employments \ {e}) \cup {[e EXCEPT !.end = d]}
  BY DEF TerminateEmployee
<1> DEFINE n == [e EXCEPT !.end = d]
<1>2. \A f \in employments : f \in EmploymentRow
  BY RowsOrdered DEF PayInv
<1>3. n \in EmploymentRow /\ n.start = e.start /\ n.end = d
  BY <1>2 DEF EmploymentRow
<1>4. TypeOK'
  BY <1>1, <1>3 DEF PayInv, TypeOK, TerminateEmployee
<1>5. Proper'
  BY <1>1, <1>3 DEF PayInv, Proper
<1>6. \A f \in employments \ {e} : Before(f, e)
  BY <1>1 DEF PayInv, Apart, Before
<1>7. \A f \in employments \ {e} : Before(f, n)
  BY <1>3, <1>6 DEF Before
<1>8. Apart'
  BY <1>1, <1>7 DEF PayInv, Apart, Before
<1>9. Counted'
  BY <1>1, RowsFinite DEF PayInv, Counted, TerminateEmployee
<1>10. LeavesApart' /\ OneHoliday'
  BY DEF PayInv, LeavesApart, OneHoliday, TerminateEmployee
<1> QED BY <1>4, <1>5, <1>8, <1>9, <1>10 DEF PayInv

\* What starts after the last employment ended comes after all others.
LEMMA RehireKeeps ==
    ASSUME PayInv, NEW d \in Date, RehireEmployee(d)
    PROVE  PayInv'
<1>1. PICK e \in employments : IsLatest(e) /\ e.end # None /\ e.end < d
  BY DEF RehireEmployee
<1> DEFINE n == [start |-> d, end |-> None]
<1>2. /\ \A f \in employments : /\ f \in EmploymentRow
                                /\ f.start \in Int
                                /\ f.end # None => f.end \in Int
      /\ d \in Int
  BY RowsOrdered, CalendarAssumption DEF PayInv
<1>3. employments' = employments \cup {n}
  BY DEF RehireEmployee
<1>4. TypeOK'
  BY <1>3 DEF PayInv, TypeOK, EmploymentRow, RehireEmployee
<1>5. Proper'
  BY <1>3 DEF PayInv, Proper
<1>6. \A f \in employments : Before(f, n)
  BY <1>1, <1>2 DEF PayInv, Proper, Apart, Before, IsLatest
<1>7. Apart'
  BY <1>3, <1>6, SMTT(30) DEF PayInv, Apart, Before
<1>8. Counted'
  BY <1>3, RowsFinite DEF PayInv, Counted, RehireEmployee
<1>9. LeavesApart' /\ OneHoliday'
  BY DEF PayInv, LeavesApart, OneHoliday, RehireEmployee
<1> QED BY <1>4, <1>5, <1>7, <1>8, <1>9 DEF PayInv

\* Every step keeps the invariant.
LEMMA PayInvKept == PayInv /\ [Next]_vars => PayInv'
<1> SUFFICES ASSUME PayInv, [Next]_vars PROVE PayInv'
  OBVIOUS
<1> USE DEF PayInv
<1>1. ASSUME NEW d \in Date, NEW t \in EmploymentType,
             CreateEmployee(t, d) \/ UpdateEmployee(t, d)
      PROVE  PayInv'
  BY <1>1, CreateKeeps, UpdateKeeps
<1>2. ASSUME NEW d \in Date, TerminateEmployee(d) \/ RehireEmployee(d)
      PROVE  PayInv'
  BY <1>2, TerminateKeeps, RehireKeeps
<1>3. ASSUME NEW d \in Date, CreateOvertime(d) \/ CreateReimbursement(d) \/ CreateDailyLog(d)
      PROVE  PayInv'
  <2>1. TypeOK'
    BY <1>3 DEF TypeOK, EntryRow, CreateOvertime, CreateReimbursement, CreateDailyLog
  <2>2. IsFiniteSet(entries)'
    <3>1. PICK r : entries' = entries \cup {r}
      BY <1>3 DEF CreateOvertime, CreateReimbursement, CreateDailyLog
    <3> QED BY <3>1, FS_AddElement DEF Counted
  <2>3. UNCHANGED <<employments, leaves, holidays>>
    BY <1>3 DEF CreateOvertime, CreateReimbursement, CreateDailyLog
  <2> QED BY <2>1, <2>2, <2>3, OtherSteps DEF Counted, LeavesApart, OneHoliday
<1>4. ASSUME NEW d \in Date, NEW t \in HolidayType, CreateHoliday(d, t)
      PROVE  PayInv'
  <2>1. TypeOK'
    BY <1>4 DEF TypeOK, HolidayRow, CreateHoliday
  <2>2. OneHoliday'
    BY <1>4 DEF OneHoliday, CreateHoliday
  <2> QED BY <1>4, <2>1, <2>2, OtherSteps DEF Counted, LeavesApart, CreateHoliday
<1>5. ASSUME NEW t \in LeaveType, NEW a \in Date, NEW b \in Date, SubmitLeave(t, a, b)
      PROVE  PayInv'
  <2>1. TypeOK'
    BY <1>5 DEF TypeOK, LeaveRow, SubmitLeave
  <2>2. IsFiniteSet(leaves)'
    BY <1>5, RowsFinite DEF Counted, SubmitLeave
  <2>3. LeavesApart'
    <3> DEFINE n == [type |-> t, start |-> a, end |-> b]
    <3>1. leaves' = leaves \cup {n} /\ n.start = a /\ n.end = b
      BY <1>5 DEF SubmitLeave
    <3>2. \A l \in leaves : n.end < l.start \/ l.end < n.start
      <4>1. /\ a \in Int /\ b \in Int
            /\ \A l \in leaves : l.start \in Int /\ l.end \in Int
        BY CalendarAssumption DEF TypeOK, LeaveRow
      <4>2. ~\E l \in leaves : l.start <= b /\ a <= l.end
        BY <1>5 DEF SubmitLeave
      <4> HIDE DEF n
      <4> QED BY <3>1, <4>1, <4>2
    <3> HIDE DEF n
    <3> QED BY <3>1, <3>2 DEF LeavesApart
  <2> QED BY <1>5, <2>1, <2>2, <2>3, OtherSteps DEF Counted, OneHoliday, SubmitLeave
<1>6. ASSUME NEW l \in leaves, CancelLeave(l)
      PROVE  PayInv'
  <2>1. TypeOK'
    BY <1>6 DEF TypeOK, CancelLeave
  <2>2. IsFiniteSet(leaves)'
    BY <1>6, RowsFinite DEF Counted, CancelLeave
  <2>3. LeavesApart'
    BY <1>6 DEF LeavesApart, CancelLeave
  <2> QED BY <1>6, <2>1, <2>2, <2>3, OtherSteps DEF Counted, OneHoliday, CancelLeave
<1>7. ASSUME NEW r \in entries, NEW v \in {"APPROVED", "REJECTED"}, Review(r, v)
      PROVE  PayInv'
  <2>1. TypeOK'
    BY <1>7 DEF TypeOK, EntryRow, Review
  <2>2. IsFiniteSet(entries)'
    BY <1>7, RowsFinite DEF Counted, Review
  <2> QED BY <1>7, <2>1, <2>2, OtherSteps DEF Counted, LeavesApart, OneHoliday, Review
<1>8. ASSUME NEW r \in entries, Withdraw(r)
      PROVE  PayInv'
  <2>1. TypeOK'
    BY <1>8 DEF TypeOK, Withdraw
  <2>2. IsFiniteSet(entries)'
    BY <1>8, RowsFinite DEF Counted, Withdraw
  <2> QED BY <1>8, <2>1, <2>2, OtherSteps DEF Counted, LeavesApart, OneHoliday, Withdraw
<1>9. ASSUME NEW r \in entries, NEW d \in Date, UpdateDailyLog(r, d)
      PROVE  PayInv'
  <2>1. TypeOK'
    BY <1>9 DEF TypeOK, EntryRow, UpdateDailyLog
  <2>2. IsFiniteSet(entries)'
    BY <1>9, RowsFinite DEF Counted, UpdateDailyLog
  <2> QED BY <1>9, <2>1, <2>2, OtherSteps DEF Counted, LeavesApart, OneHoliday, UpdateDailyLog
<1>10. ASSUME NEW h \in holidays,
              \/ DeleteHoliday(h)
              \/ \E d \in Date, t \in HolidayType : UpdateHoliday(h, d, t)
       PROVE  PayInv'
  <2>1. TypeOK'
    BY <1>10 DEF TypeOK, HolidayRow, DeleteHoliday, UpdateHoliday
  <2>2. OneHoliday'
    BY <1>10 DEF OneHoliday, DeleteHoliday, UpdateHoliday
  <2>3. UNCHANGED <<employments, leaves, entries>>
    BY <1>10 DEF DeleteHoliday, UpdateHoliday
  <2> QED BY <2>1, <2>2, <2>3, OtherSteps DEF Counted, LeavesApart
<1>11. CASE UNCHANGED vars
  <2>1. TypeOK'
    BY <1>11 DEF TypeOK, vars
  <2> QED BY <1>11, <2>1, OtherSteps DEF Counted, LeavesApart, OneHoliday, vars
<1> QED
  BY <1>1, <1>2, <1>3, <1>4, <1>5, <1>6, <1>7, <1>8, <1>9, <1>10, <1>11 DEF Next

\* Nothing is recorded at first.
LEMMA PayInvBegins == Init => PayInv
BY FS_EmptySet DEF Init, PayInv, TypeOK, Proper, Apart, Counted, LeavesApart, OneHoliday

\* Employments are proper, employments and leaves never share a day, holidays
\* never a date, and there are finitely many rows, whatever the handlers did before.
THEOREM PayInvHolds == Spec => []PayInv
BY PayInvBegins, PayInvKept, PTL DEF Spec

\* The tables hold rows of their types.
THEOREM TypesHold == Spec => []TypeOK
<1>1. PayInv => TypeOK
  BY DEF PayInv
<1> QED BY <1>1, PayInvHolds, PTL

-----------------------------------------------------------------------------
(* Arithmetic.                                                             *)

\* The later of two days bounds like both.
LEMMA MaxOfTwo ==
    ASSUME NEW x \in Int, NEW y \in Int
    PROVE  /\ Max({x, y}) \in Int
           /\ \A z \in Int : z >= Max({x, y}) <=> z >= x /\ z >= y
<1>1. \E m \in {x, y} : \A z \in {x, y} : m >= z
  <2>1. CASE x >= y
    BY <2>1
  <2>2. CASE ~(x >= y)
    BY <2>2
  <2> QED BY <2>1, <2>2
<1> QED BY <1>1 DEF Max

\* And so does the earlier.
LEMMA MinOfTwo ==
    ASSUME NEW x \in Int, NEW y \in Int
    PROVE  /\ Min({x, y}) \in Int
           /\ \A z \in Int : z <= Min({x, y}) <=> z <= x /\ z <= y
<1>1. \E m \in {x, y} : \A z \in {x, y} : m <= z
  <2>1. CASE x <= y
    BY <2>1
  <2>2. CASE ~(x <= y)
    BY <2>2
  <2> QED BY <2>1, <2>2
<1> QED BY <1>1 DEF Min

\* Rounding gives a number, and none below zero.
LEMMA RoundingNat ==
    ASSUME NEW n \in Nat, NEW d \in Nat \ {0}
    PROVE  RoundIdr(n, d) \in Nat
BY DEF RoundIdr

\* A salary for all its days is the salary, whatever the rounding.
LEMMA WholeShare ==
    ASSUME NEW s \in Nat, NEW n \in Nat \ {0}
    PROVE  RoundIdr(s * n, n) = s
BY Z3T(30) DEF RoundIdr

-----------------------------------------------------------------------------
(* Days and segments.                                                      *)

\* A period begins and ends on a day.
LEMMA PeriodEnds ==
    ASSUME NEW p \in Period
    PROVE  RangeOf[p][1] \in Int /\ RangeOf[p][2] \in Int
BY CalendarAssumption

\* Working days are days of their range, finitely many.
LEMMA WorkingDaysFinite ==
    ASSUME NEW a \in Int, NEW b \in Int
    PROVE  /\ WorkingDays(a, b) \subseteq a..b
           /\ IsFiniteSet(WorkingDays(a, b))
           /\ Cardinality(WorkingDays(a, b)) \in Nat
<1>1. WorkingDays(a, b) \subseteq a..b
  BY DEF WorkingDays, Weekdays
<1>2. IsFiniteSet(WorkingDays(a, b))
  BY <1>1, FS_Interval, FS_Subset
<1> QED BY <1>1, <1>2, FS_CardinalityType

\* Being a working day does not depend on the range.
LEMMA WorkingDayOf ==
    ASSUME NEW a \in Int, NEW b \in Int, NEW x \in Int, NEW y \in Int, NEW d \in Int
    PROVE  d \in WorkingDays(x, y) /\ a <= d /\ d <= b
             => d \in WorkingDays(a, b)
BY DEF WorkingDays, Weekdays

\* A segment holds the days of the range on which its employment holds.
LEMMA SegmentDays ==
    ASSUME TypeOK, NEW e \in employments, NEW a \in Int, NEW b \in Int
    PROVE  /\ Segment(e, a, b).of = e
           /\ Segment(e, a, b).start \in Int /\ Segment(e, a, b).end \in Int
           /\ \A d \in Int : Segment(e, a, b).start <= d /\ d <= Segment(e, a, b).end
                               <=> IsEmployedOn(e, d) /\ a <= d /\ d <= b
<1>1. e.start \in Int /\ (e.end # None => e.end \in Int)
  BY RowsOrdered
<1>2. CASE e.end = None
  BY <1>1, <1>2, MaxOfTwo DEF Segment, IsEmployedOn
<1>3. CASE e.end # None
  BY <1>1, <1>3, MaxOfTwo, MinOfTwo DEF Segment, IsEmployedOn
<1> QED BY <1>2, <1>3

\* No day belongs to two employments.
LEMMA OneEmployment ==
    ASSUME PayInv, NEW e \in employments, NEW f \in employments, NEW d \in Int,
           IsEmployedOn(e, d), IsEmployedOn(f, d)
    PROVE  e = f
<1>1. \A g \in employments : g.start \in Int /\ (g.end # None => g.end \in Int)
  BY RowsOrdered DEF PayInv
<1> QED BY <1>1 DEF PayInv, Apart, Before, IsEmployedOn

\* The employments a period selects are those that hold on one of its days.
LEMMA SelectedEmployments ==
    ASSUME TypeOK, NEW p \in Period, NEW d \in Int, RangeOf[p][1] <= d, d <= RangeOf[p][2]
    PROVE  \A e \in employments : IsEmployedOn(e, d) => e \in EmploymentsIn(p)
<1>1. \A g \in employments : g.start \in Int /\ (g.end # None => g.end \in Int)
  BY RowsOrdered
<1> QED BY <1>1, PeriodEnds DEF EmploymentsIn, IsEmployedOn

-----------------------------------------------------------------------------
(* Proration.                                                              *)

\* The working days of a period on which the employee was employed.
WorkedDays(p) == {d \in DaysToWork(p) : Employed(d)}

\* Adding up the days of any kind G over the segments counts each of them once.
LEMMA SegmentsCount ==
    ASSUME PayInv, NEW p \in Period, NEW G
    PROVE  LET a == RangeOf[p][1]
               b == RangeOf[p][2]
               Segs == EmploymentSegments(EmploymentsIn(p), a, b)
               E == {d \in (a..b) \cap G : Employed(d)}
           IN /\ IsFiniteSet(E)
              /\ Cardinality(UNION {{r} \X ((r.start..r.end) \cap G) : r \in Segs})
                   = Cardinality(E)
<1> DEFINE a == RangeOf[p][1]
           b == RangeOf[p][2]
           Segs == EmploymentSegments(EmploymentsIn(p), a, b)
           E == {d \in (a..b) \cap G : Employed(d)}
           P == UNION {{r} \X ((r.start..r.end) \cap G) : r \in Segs}
           g == [x \in P |-> x[2]]
<1>1. a \in Int /\ b \in Int
  BY PeriodEnds
<1>2. \A r \in Segs : /\ r.of \in employments /\ r = Segment(r.of, a, b)
                      /\ r.start \in Int /\ r.end \in Int
  <2>1. ASSUME NEW r \in Segs
        PROVE  \E e \in employments : r = Segment(e, a, b)
    BY <2>1 DEF EmploymentSegments, EmploymentsIn
  <2> HIDE DEF Segs, a, b
  <2> QED BY <2>1, <1>1, SegmentDays DEF PayInv
<1>3. \A x \in P : /\ x[1] \in Segs
                   /\ x[2] \in (x[1].start .. x[1].end) \cap G
                   /\ x = <<x[1], x[2]>>
  BY DEF P
<1>4. ASSUME NEW x \in P
      PROVE  x[2] \in (a..b) \cap G /\ IsEmployedOn(x[1].of, x[2])
  <2> HIDE DEF Segs, P, a, b
  <2>1. /\ x[2] \in Int /\ x[1].start <= x[2] /\ x[2] <= x[1].end
        /\ x[1].of \in employments
    BY <1>2, <1>3
  <2>2. IsEmployedOn(x[1].of, x[2]) /\ a <= x[2] /\ x[2] <= b
    BY <1>1, <1>2, <1>3, <2>1, SegmentDays DEF PayInv
  <2> QED BY <1>1, <1>3, <2>1, <2>2
<1>5. g \in [P -> E]
  <2> HIDE DEF Segs, P, a, b
  <2>1. \A x \in P : x[2] \in E
    BY <1>2, <1>3, <1>4 DEF Employed
  <2> HIDE DEF E
  <2> QED BY <2>1
<1>6. \A x, y \in P : g[x] = g[y] => x = y
  <2> HIDE DEF Segs, P
  <2> SUFFICES ASSUME NEW x \in P, NEW y \in P, x[2] = y[2]
               PROVE  x = y
    OBVIOUS
  <2>1. x[1].of = y[1].of
    BY <1>2, <1>3, <1>4, OneEmployment
  <2>2. x[1] = y[1]
    BY <2>1, <1>2, <1>3
  <2> QED BY <2>2, <1>3
<1>7. \A d \in E : \E x \in P : g[x] = d
  <2> SUFFICES ASSUME NEW d \in E
               PROVE  \E x \in P : x[2] = d
    OBVIOUS
  <2>1. d \in G /\ d \in Int /\ a <= d /\ d <= b
    <3> HIDE DEF a, b
    <3> QED BY <1>1
  <2>2. PICK e \in employments : IsEmployedOn(e, d)
    BY DEF Employed
  <2>3. e \in EmploymentsIn(p)
    BY <2>1, <2>2, SelectedEmployments DEF PayInv
  <2> DEFINE r == Segment(e, a, b)
  <2>4. r.start \in Int /\ r.end \in Int /\ r.start <= d /\ d <= r.end
    <3> HIDE DEF a, b
    <3> QED BY <1>1, <2>1, <2>2, SegmentDays DEF PayInv
  <2>5. r \in Segs
    <3>1. r.start <= r.end
      <4> HIDE DEF r
      <4> QED BY <2>1, <2>4
    <3> QED BY <2>3, <3>1 DEF EmploymentSegments
  <2>6. <<r, d>> \in P
    <3> HIDE DEF r
    <3> QED BY <2>1, <2>4, <2>5
  <2> WITNESS <<r, d>> \in P
  <2> QED OBVIOUS
<1>8. IsFiniteSet(E)
  <2> HIDE DEF a, b
  <2> QED BY <1>1, FS_Interval, FS_Subset
<1>9. g \in Injection(P, E) /\ g \in Surjection(P, E)
  <2> HIDE DEF P, g, E
  <2> QED BY <1>5, <1>6, <1>7 DEF Injection, Surjection, IsInjective
<1>10. Cardinality(P) = Cardinality(E)
  <2> HIDE DEF P, g, E
  <2> QED BY <1>8, <1>9, FS_Injection
<1> QED BY <1>8, <1>10

\* The segments of a period begin and end on days.
LEMMA SegmentsDated ==
    ASSUME PayInv, NEW p \in Period,
           NEW r \in EmploymentSegments(EmploymentsIn(p), RangeOf[p][1], RangeOf[p][2])
    PROVE  r.start \in Int /\ r.end \in Int
<1>1. PICK e \in employments : r = Segment(e, RangeOf[p][1], RangeOf[p][2])
  BY DEF EmploymentSegments, EmploymentsIn
<1> QED BY <1>1, PeriodEnds, SegmentDays DEF PayInv

\* In particular the working days, however often the employee was rehired.
LEMMA SegmentsCountDays ==
    ASSUME PayInv, NEW p \in Period
    PROVE  SumOver(EmploymentSegments(EmploymentsIn(p), RangeOf[p][1], RangeOf[p][2]), WorkingDays)
             = Cardinality(WorkedDays(p))
<1> DEFINE G == {d \in Int : ~IsWeekend(d) /\ d \notin OffDayHolidayKeys}
           Segs == EmploymentSegments(EmploymentsIn(p), RangeOf[p][1], RangeOf[p][2])
<1>1. \A x, y \in Int : WorkingDays(x, y) = (x..y) \cap G
  BY DEF WorkingDays, Weekdays
<1>2. \A r \in Segs : WorkingDays(r.start, r.end) = (r.start..r.end) \cap G
  BY <1>1, SegmentsDated
<1>3. UNION {{r} \X WorkingDays(r.start, r.end) : r \in Segs}
        = UNION {{r} \X ((r.start..r.end) \cap G) : r \in Segs}
  <2> HIDE DEF Segs, G
  <2> QED BY <1>2
<1>4. WorkedDays(p) = {d \in (RangeOf[p][1]..RangeOf[p][2]) \cap G : Employed(d)}
  BY <1>1, PeriodEnds DEF WorkedDays, DaysToWork
<1> HIDE DEF G
<1> QED BY <1>3, <1>4, SegmentsCount DEF SumOver

\* What ProrateMonth says of a period in which somebody was employed.
LEMMA ProrationCounts ==
    ASSUME PayInv, NEW p \in Period, HasRow(p)
    PROVE  LET pr == ProrateMonth(EmploymentsIn(p), RangeOf[p][1], RangeOf[p][2]) IN
           /\ pr.workedWorkingDays = Cardinality(WorkedDays(p))
           /\ pr.monthWorkingDays = Cardinality(DaysToWork(p))
BY SegmentsCountDays DEF ProrateMonth, HasRow, DaysToWork

\* The days worked are some of the period's working days.
LEMMA WorkedDaysFinite ==
    ASSUME NEW p \in Period
    PROVE  /\ IsFiniteSet(DaysToWork(p)) /\ Cardinality(DaysToWork(p)) \in Nat
           /\ WorkedDays(p) \subseteq DaysToWork(p)
           /\ IsFiniteSet(WorkedDays(p)) /\ Cardinality(WorkedDays(p)) \in Nat
           /\ Cardinality(WorkedDays(p)) >= Cardinality(DaysToWork(p))
                 <=> WorkedDays(p) = DaysToWork(p)
           /\ Cardinality(DaysToWork(p)) = 0 => WorkedDays(p) = DaysToWork(p)
<1>1. IsFiniteSet(DaysToWork(p))
  BY PeriodEnds, WorkingDaysFinite DEF DaysToWork
<1>2. WorkedDays(p) \subseteq DaysToWork(p)
  BY DEF WorkedDays
<1>3. /\ IsFiniteSet(WorkedDays(p))
      /\ Cardinality(WorkedDays(p)) <= Cardinality(DaysToWork(p))
      /\ Cardinality(WorkedDays(p)) = Cardinality(DaysToWork(p)) => WorkedDays(p) = DaysToWork(p)
  BY <1>1, <1>2, FS_Subset
<1>4. Cardinality(DaysToWork(p)) \in Nat /\ Cardinality(WorkedDays(p)) \in Nat
  BY <1>1, <1>3, FS_CardinalityType
<1>5. Cardinality(DaysToWork(p)) = 0 => WorkedDays(p) = DaysToWork(p)
  BY <1>1, <1>2, FS_EmptySet
<1> QED BY <1>1, <1>2, <1>3, <1>4, <1>5

\* The basic salary of a full-timer is a share of the monthly salary.
LEMMA BasicSalary ==
    ASSUME PayInv, NEW p \in FullTimers
    PROVE  LET basic == Pay(p).basicSalary IN
           /\ basic = IF WorkedDays(p) = DaysToWork(p)
                        THEN MonthlySalary
                        ELSE RoundIdr(MonthlySalary * Cardinality(WorkedDays(p)),
                                      Cardinality(DaysToWork(p)))
           /\ basic \in Nat
<1> DEFINE worked == Cardinality(WorkedDays(p))
           month == Cardinality(DaysToWork(p))
           basic == Pay(p).basicSalary
<1>1. p \in Period /\ HasRow(p) /\ type = "FULL_TIME"
  BY DEF FullTimers
<1>2. basic = IF month = 0 THEN MonthlySalary ELSE RoundIdr(MonthlySalary * worked, month)
  BY <1>1, ProrationCounts DEF Pay, ComputeFullTime
<1>3. /\ worked \in Nat /\ month \in Nat
      /\ month = 0 => WorkedDays(p) = DaysToWork(p)
  BY <1>1, WorkedDaysFinite
<1>4. MonthlySalary \in Nat
  BY MoneyAssumption
<1> HIDE DEF basic
<1>5. CASE WorkedDays(p) = DaysToWork(p)
  <2>1. worked = month
    BY <1>5
  <2> HIDE DEF worked, month
  <2>2. basic = MonthlySalary
    BY <1>2, <1>3, <1>4, <2>1, WholeShare
  <2> QED BY <1>4, <1>5, <2>2 DEF basic
<1>6. CASE WorkedDays(p) # DaysToWork(p)
  <2>1. month # 0 /\ basic = RoundIdr(MonthlySalary * worked, month)
    BY <1>2, <1>3, <1>6
  <2>2. MonthlySalary * worked \in Nat
    <3> HIDE DEF worked, month
    <3> QED BY <1>3, <1>4
  <2>3. basic \in Nat
    <3> HIDE DEF worked, month
    <3> QED BY <1>3, <2>1, <2>2, RoundingNat
  <2> QED BY <1>6, <2>1, <2>3 DEF basic
<1> QED BY <1>5, <1>6

\* A full-timer is paid for each working day of a period once, however often they
\* were terminated and rehired.
THEOREM DaysPaidOnce == Spec => []PaidByTheDay
<1>1. PayInv => PaidByTheDay
  BY BasicSalary DEF PaidByTheDay, WorkedDays
<1> QED BY <1>1, PayInvHolds, PTL

-----------------------------------------------------------------------------
(* The net.                                                                *)

\* Leave is clipped into finitely many parts: one for each leave and employment.
LEMMA PartsFinite ==
    ASSUME PayInv, NEW p \in Period, HasRow(p)
    PROVE  /\ IsFiniteSet(LeavesIn(p))
           /\ \A l \in LeavesIn(p) : l.start \in Int /\ l.end \in Int
<1> DEFINE Pairs == leaves \X employments
           g == [l \in LeavesIn(p) |-> <<l.row, l.of>>]
           Part(k, e) == [type |-> k.type, row |-> k, of |-> e,
                          start |-> Segment(e, k.start, k.end).start,
                          end |-> Segment(e, k.start, k.end).end]
<1>1. \A k \in leaves : k.start \in Int /\ k.end \in Int
  BY CalendarAssumption DEF PayInv, TypeOK, LeaveRow
<1>2. \A l \in LeavesIn(p) : \E k \in leaves, e \in employments : l = Part(k, e)
  <2> SUFFICES ASSUME NEW l \in LeavesIn(p)
               PROVE  \E k \in leaves, e \in employments : l = Part(k, e)
    OBVIOUS
  <2>1. PICK k \in leaves : l \in Clipped(k, EmploymentsIn(p))
    BY DEF LeavesIn
  <2>2. PICK s \in EmploymentSegments(EmploymentsIn(p), k.start, k.end) :
           l = [type |-> k.type, row |-> k, of |-> s.of, start |-> s.start, end |-> s.end]
    BY <2>1 DEF Clipped, ClipRangeToEmployments, HasRow
  <2>3. PICK e \in employments : s = Segment(e, k.start, k.end)
    BY DEF EmploymentSegments, EmploymentsIn
  <2>4. s.of = e
    BY <2>3 DEF Segment
  <2> QED BY <2>2, <2>3, <2>4
<1>3. \A l \in LeavesIn(p) : /\ l.row \in leaves /\ l.of \in employments
                             /\ l = Part(l.row, l.of)
  BY <1>2
<1>4. \A l \in LeavesIn(p) : l.start \in Int /\ l.end \in Int
  <2> SUFFICES ASSUME NEW l \in LeavesIn(p)
               PROVE  l.start \in Int /\ l.end \in Int
    OBVIOUS
  <2>1. PICK k \in leaves, e \in employments : l = Part(k, e)
    BY <1>2
  <2>2. /\ Segment(e, k.start, k.end).start \in Int
        /\ Segment(e, k.start, k.end).end \in Int
    BY <1>1, SegmentDays DEF PayInv
  <2> QED BY <2>1, <2>2
<1>5. g \in Injection(LeavesIn(p), Pairs)
  <2>1. g \in [LeavesIn(p) -> Pairs]
    BY <1>3
  <2>2. ASSUME NEW l \in LeavesIn(p), NEW m \in LeavesIn(p), g[l] = g[m]
        PROVE  l = m
    <3>1. l.row = m.row /\ l.of = m.of
      BY <2>2
    <3> HIDE DEF Part
    <3> QED BY <1>3, <3>1
  <2> HIDE DEF g
  <2> QED BY <2>1, <2>2 DEF Injection, IsInjective
<1>6. IsFiniteSet(Pairs)
  BY FS_Product DEF PayInv, Counted
<1> QED
  <2> HIDE DEF g, Pairs
  <2> QED BY <1>4, <1>5, <1>6, FS_Injection

\* So the days of leave in a period are a number.
LEMMA LeaveDaysNat ==
    ASSUME PayInv, NEW p \in Period, HasRow(p), NEW types
    PROVE  DaysInPeriodByType(LeavesIn(p), types, p) \in Nat
<1> DEFINE L == {l \in LeavesIn(p) : l.type \in types}
           In(x, y) == WorkingDays(Max({x, RangeOf[p][1]}), Min({y, RangeOf[p][2]}))
           P == UNION {{l} \X In(l.start, l.end) : l \in L}
<1>1. RangeOf[p][1] \in Int /\ RangeOf[p][2] \in Int
  BY PeriodEnds
<1>2. ASSUME NEW x \in Int, NEW y \in Int
      PROVE  In(x, y) \subseteq RangeOf[p][1] .. RangeOf[p][2]
  <2>1. /\ Max({x, RangeOf[p][1]}) \in Int /\ Min({y, RangeOf[p][2]}) \in Int
        /\ \A d \in Int : d >= Max({x, RangeOf[p][1]}) => d >= RangeOf[p][1]
        /\ \A d \in Int : d <= Min({y, RangeOf[p][2]}) => d <= RangeOf[p][2]
    BY <1>1, MaxOfTwo, MinOfTwo
  <2>2. In(x, y) \subseteq Max({x, RangeOf[p][1]}) .. Min({y, RangeOf[p][2]})
    BY <2>1, WorkingDaysFinite
  <2> HIDE DEF In
  <2> QED BY <1>1, <2>1, <2>2
<1>3. P \subseteq LeavesIn(p) \X (RangeOf[p][1] .. RangeOf[p][2])
  <2> HIDE DEF In
  <2> QED BY <1>2, PartsFinite
<1>4. IsFiniteSet(LeavesIn(p) \X (RangeOf[p][1] .. RangeOf[p][2]))
  BY <1>1, PartsFinite, FS_Interval, FS_Product
<1>5. Cardinality(P) \in Nat
  <2> HIDE DEF P
  <2> QED BY <1>3, <1>4, FS_Subset, FS_CardinalityType
<1> QED BY <1>5 DEF DaysInPeriodByType, SumOver

\* Some of the entries are a number of entries.
LEMMA SomeEntries ==
    ASSUME PayInv, NEW S, S \subseteq entries
    PROVE  Cardinality(S) \in Nat
BY FS_Subset, FS_CardinalityType DEF PayInv, Counted

\* A full-timer's deduction is covered by the basic salary, and overtime adds to it.
LEMMA FullTimeNet ==
    ASSUME PayInv, NEW p \in FullTimers
    PROVE  LET pay == Pay(p) IN
           /\ pay.basicSalary \in Nat
           /\ pay.overtimePay \in Nat
           /\ pay.leaveDeduction \in Nat
           /\ pay.leaveDeduction <= pay.basicSalary
<1> DEFINE pay == Pay(p)
           overtimes == {r \in Approved(p) : r.kind = "overtime"}
           sick == DaysInPeriodByType(LeavesIn(p), {"SICK"}, p)
           unpaid == DaysInPeriodByType(LeavesIn(p), {"UNPAID"}, p)
<1>1. p \in Period /\ HasRow(p) /\ type = "FULL_TIME"
  BY DEF FullTimers
<1>2. pay.basicSalary \in Nat
  BY BasicSalary
<1>3. pay.overtimePay = RoundIdr(Cardinality(overtimes) * Hours * MonthlySalary,
                                 StandardDays * StandardHours)
  BY <1>1 DEF Pay, ComputeFullTime
<1>4. pay.leaveDeduction = LeaveDeduction(sick + unpaid, pay.basicSalary)
  BY <1>1 DEF Pay, ComputeFullTime
<1>5. Cardinality(overtimes) \in Nat
  BY SomeEntries DEF Approved, EntriesIn
<1>6. sick \in Nat /\ unpaid \in Nat
  BY <1>1, LeaveDaysNat
<1> HIDE DEF pay, overtimes, sick, unpaid
<1>7. pay.overtimePay \in Nat
  <2>1. /\ Cardinality(overtimes) * Hours * MonthlySalary \in Nat
        /\ StandardDays * StandardHours \in Nat \ {0}
    BY <1>5, MoneyAssumption
  <2> QED BY <1>3, <2>1, RoundingNat
<1>8. RoundIdr((sick + unpaid) * MonthlySalary, StandardDays) \in Nat
  <2>1. (sick + unpaid) * MonthlySalary \in Nat
    BY <1>6, MoneyAssumption
  <2> QED BY <2>1, RoundingNat, MoneyAssumption
<1>9. pay.leaveDeduction \in Nat /\ pay.leaveDeduction <= pay.basicSalary
  <2>1. ASSUME NEW x \in Nat, NEW y \in Nat
        PROVE  Min({x, y}) \in Nat /\ Min({x, y}) <= y
    <3>1. PICK m : m = Min({x, y})
      OBVIOUS
    <3>2. m \in Int /\ (m <= m <=> m <= x /\ m <= y) /\ (0 <= m <=> 0 <= x /\ 0 <= y)
      BY <3>1, MinOfTwo
    <3> QED BY <3>1, <3>2
  <2> QED BY <1>2, <1>4, <1>8, <2>1 DEF LeaveDeduction
<1> QED BY <1>2, <1>7, <1>9 DEF pay

\* Whoever has a row: no amount is negative and the basic salary covers the deduction.
LEMMA AmountsOf ==
    ASSUME PayInv, NEW p \in Period, HasRow(p)
    PROVE  LET pay == Pay(p) IN
           /\ pay.basicSalary \in Nat
           /\ pay.overtimePay \in Nat
           /\ pay.leaveDeduction \in Nat
           /\ pay.leaveDeduction <= pay.basicSalary
           /\ Cardinality(Reimbursed(p)) * Amount \in Nat
<1>1. Cardinality(Reimbursed(p)) * Amount \in Nat
  <2>1. Cardinality(Reimbursed(p)) \in Nat
    BY SomeEntries DEF Reimbursed, Approved, EntriesIn
  <2> QED BY <2>1, MoneyAssumption
<1>2. CASE type = "FULL_TIME"
  BY <1>1, <1>2, FullTimeNet DEF FullTimers
<1>3. CASE type # "FULL_TIME"
  <2>1. Pay(p) = ComputePartTime(Logs(p))
    BY <1>3 DEF Pay
  <2>2. Cardinality(Logs(p)) \in Nat
    BY SomeEntries DEF Logs, EntriesIn
  <2>3. Cardinality(Logs(p)) * Hours * HourlyRate \in Nat
    BY <2>2, MoneyAssumption
  <2> QED BY <1>1, <2>1, <2>3 DEF ComputePartTime
<1> QED BY <1>2, <1>3

\* No payslip is negative, whatever the lengths of months, rates and leave.
THEOREM NetHolds == Spec => []NetNeverNegative
<1>1. ASSUME PayInv, NEW p \in Period, HasRow(p)
      PROVE  ComputeRow(p).totalIdr >= 0
  <2> DEFINE pay == Pay(p)
  <2>1. ComputeRow(p).totalIdr = pay.basicSalary + pay.overtimePay
                                   + Cardinality(Reimbursed(p)) * Amount - pay.leaveDeduction
    BY DEF ComputeRow
  <2>2. /\ pay.basicSalary \in Nat /\ pay.overtimePay \in Nat /\ pay.leaveDeduction \in Nat
        /\ pay.leaveDeduction <= pay.basicSalary
        /\ Cardinality(Reimbursed(p)) * Amount \in Nat
    BY <1>1, AmountsOf
  <2> HIDE DEF pay
  <2> QED BY <2>1, <2>2
<1>2. PayInv => NetNeverNegative
  BY <1>1 DEF NetNeverNegative
<1> QED BY <1>2, PayInvHolds, PTL

-----------------------------------------------------------------------------
(***************************************************************************)
(* Proofs about the attendance block, the proration line, the deduction    *)
(* lines and the entries of a payslip.                                     *)
(***************************************************************************)

\* The working days of a period on leave of some types.
LeaveDays(p, types) == {d \in WorkedDays(p) : OnLeave(d, types)}

\* Adding up the clipped parts of the leaves counts each day on leave once.
LEMMA LeaveCounts ==
    ASSUME PayInv, NEW p \in Period, HasRow(p), NEW types
    PROVE  DaysInPeriodByType(LeavesIn(p), types, p) = Cardinality(LeaveDays(p, types))
<1> DEFINE a == RangeOf[p][1]
           b == RangeOf[p][2]
           L == {l \in LeavesIn(p) : l.type \in types}
           In(x, y) == WorkingDays(Max({x, a}), Min({y, b}))
           P == UNION {{l} \X In(l.start, l.end) : l \in L}
           g == [x \in P |-> x[2]]
           D == LeaveDays(p, types)
           Part(k, e) == [type |-> k.type, row |-> k, of |-> e,
                          start |-> Segment(e, k.start, k.end).start,
                          end |-> Segment(e, k.start, k.end).end]
<1>1. a \in Int /\ b \in Int
  BY PeriodEnds
<1>2. \A k \in leaves : k.start \in Int /\ k.end \in Int
  BY CalendarAssumption DEF PayInv, TypeOK, LeaveRow
<1>3. \A l \in L : /\ l.row \in leaves /\ l.of \in employments
                   /\ l.row.type \in types
                   /\ l = Part(l.row, l.of)
  <2> SUFFICES ASSUME NEW l \in L
               PROVE  /\ l.row \in leaves /\ l.of \in employments
                      /\ l.row.type \in types
                      /\ l = Part(l.row, l.of)
    OBVIOUS
  <2>1. PICK k \in leaves : l \in Clipped(k, EmploymentsIn(p))
    BY DEF LeavesIn
  <2>2. PICK s \in EmploymentSegments(EmploymentsIn(p), k.start, k.end) :
           l = [type |-> k.type, row |-> k, of |-> s.of, start |-> s.start, end |-> s.end]
    BY <2>1 DEF Clipped, ClipRangeToEmployments, HasRow
  <2>3. PICK e \in employments : s = Segment(e, k.start, k.end)
    BY DEF EmploymentSegments, EmploymentsIn
  <2>4. s.of = e
    BY <2>3 DEF Segment
  <2> QED BY <2>2, <2>3, <2>4
<1>4. \A x, y, d \in Int : d \in In(x, y) <=> d \in WorkingDays(a, b) /\ x <= d /\ d <= y
  <2> HIDE DEF a, b
  <2> SUFFICES ASSUME NEW x \in Int, NEW y \in Int, NEW d \in Int
               PROVE  d \in In(x, y) <=> d \in WorkingDays(a, b) /\ x <= d /\ d <= y
    OBVIOUS
  <2>1. /\ Max({x, a}) \in Int /\ Min({y, b}) \in Int
        /\ d >= Max({x, a}) <=> d >= x /\ d >= a
        /\ d <= Min({y, b}) <=> d <= y /\ d <= b
    BY <1>1, MaxOfTwo, MinOfTwo
  <2> QED BY <1>1, <2>1 DEF WorkingDays, Weekdays
<1>5. \A x \in P : /\ x[1] \in L
                   /\ x[2] \in In(x[1].start, x[1].end)
                   /\ x = <<x[1], x[2]>>
  <2> HIDE DEF L, In
  <2> QED OBVIOUS
<1>6. ASSUME NEW x \in P
      PROVE  /\ x[2] \in Int /\ x[2] \in WorkingDays(a, b)
             /\ x[1].row.start <= x[2] /\ x[2] <= x[1].row.end
             /\ IsEmployedOn(x[1].of, x[2])
  <2> HIDE DEF L, P, In, a, b
  <2> DEFINE k == x[1].row
             e == x[1].of
             s == Segment(e, k.start, k.end)
  <2>1. k \in leaves /\ e \in employments /\ x[1].start = s.start /\ x[1].end = s.end
    BY <1>3, <1>5
  <2>2. k.start \in Int /\ k.end \in Int /\ s.start \in Int /\ s.end \in Int
    BY <1>2, <2>1, SegmentDays DEF PayInv
  <2>3. x[2] \in Int
    <3>1. /\ Max({s.start, a}) \in Int /\ Min({s.end, b}) \in Int
      BY <1>1, <2>2, MaxOfTwo, MinOfTwo
    <3> HIDE DEF s, k, e
    <3>2. x[2] \in WorkingDays(Max({s.start, a}), Min({s.end, b}))
      BY <1>5, <2>1 DEF In
    <3> DEFINE m == Max({s.start, a})
               n == Min({s.end, b})
    <3>3. m \in Int /\ n \in Int /\ x[2] \in WorkingDays(m, n)
      BY <3>1, <3>2
    <3> HIDE DEF m, n
    <3>4. x[2] \in m..n
      BY <3>3 DEF WorkingDays, Weekdays
    <3> QED BY <3>3, <3>4
  <2>4. x[2] \in WorkingDays(a, b) /\ s.start <= x[2] /\ x[2] <= s.end
    <3> HIDE DEF s, k, e
    <3> QED BY <1>4, <1>5, <2>1, <2>2, <2>3
  <2> QED BY <2>1, <2>2, <2>3, <2>4, SegmentDays DEF PayInv
<1>7. g \in [P -> D]
  <2> HIDE DEF L, P
  <2>1. \A x \in P : x[2] \in D
    BY <1>3, <1>5, <1>6 DEF LeaveDays, WorkedDays, DaysToWork, Employed, OnLeave
  <2> HIDE DEF D
  <2> QED BY <2>1
<1>8. \A x, y \in P : g[x] = g[y] => x = y
  <2> HIDE DEF L, P
  <2> SUFFICES ASSUME NEW x \in P, NEW y \in P, x[2] = y[2]
               PROVE  x = y
    OBVIOUS
  <2>1. x[1].of = y[1].of
    BY <1>3, <1>5, <1>6, OneEmployment
  <2>2. x[1].row = y[1].row
    <3> DEFINE k == x[1].row
               l == y[1].row
               d == x[2]
    <3>1. /\ k \in leaves /\ l \in leaves /\ d \in Int
          /\ k.start <= d /\ d <= k.end /\ l.start <= d /\ d <= l.end
      BY <1>3, <1>5, <1>6
    <3> HIDE DEF k, l, d
    <3>2. k = l
      BY <1>2, <3>1 DEF PayInv, LeavesApart
    <3> QED BY <3>2 DEF k, l
  <2>3. x[1] = y[1]
    <3> HIDE DEF Part
    <3> QED BY <1>3, <1>5, <2>1, <2>2, ZenonT(60)
  <2> QED BY <1>5, <2>3
<1>9. \A d \in D : \E x \in P : g[x] = d
  <2> SUFFICES ASSUME NEW d \in D
               PROVE  \E x \in P : x[2] = d
    OBVIOUS
  <2>1. d \in Int /\ d \in WorkingDays(a, b) /\ a <= d /\ d <= b
    <3>1. d \in WorkingDays(a, b)
      BY DEF LeaveDays, WorkedDays, DaysToWork
    <3> HIDE DEF a, b, D
    <3> QED BY <1>1, <3>1, WorkingDaysFinite
  <2>2. PICK e \in employments : IsEmployedOn(e, d)
    BY DEF LeaveDays, WorkedDays, Employed
  <2>3. PICK k \in leaves : k.type \in types /\ k.start <= d /\ d <= k.end
    BY DEF LeaveDays, OnLeave
  <2>4. e \in EmploymentsIn(p)
    BY <2>1, <2>2, SelectedEmployments DEF PayInv
  <2>5. k.start <= b /\ a <= k.end
    <3> HIDE DEF a, b
    <3> QED BY <1>1, <1>2, <2>1, <2>3
  <2> DEFINE s == Segment(e, k.start, k.end)
             l == Part(k, e)
  <2>6. /\ s.start \in Int /\ s.end \in Int /\ s.of = e
        /\ s.start <= d /\ d <= s.end
    BY <1>2, <2>1, <2>2, <2>3, SegmentDays DEF PayInv
  <2>7. s \in EmploymentSegments(EmploymentsIn(p), k.start, k.end)
    <3>1. s.start <= s.end
      <4> HIDE DEF s
      <4> QED BY <2>1, <2>6
    <3> QED BY <2>4, <3>1 DEF EmploymentSegments
  <2>8. l \in Clipped(k, EmploymentsIn(p))
    <3>1. l = [type |-> k.type, row |-> k, of |-> s.of, start |-> s.start, end |-> s.end]
      BY <2>6
    <3> HIDE DEF s, l
    <3> QED BY <2>4, <2>7, <3>1 DEF Clipped, ClipRangeToEmployments
  <2>9. l \in L
    <3>1. l.type = k.type
      OBVIOUS
    <3> HIDE DEF l
    <3> QED BY <2>3, <2>5, <2>8, <3>1 DEF LeavesIn
  <2>10. d \in In(l.start, l.end)
    <3>1. l.start = s.start /\ l.end = s.end
      OBVIOUS
    <3> HIDE DEF l, s, In, a, b
    <3> QED BY <1>4, <2>1, <2>6, <3>1
  <2>11. <<l, d>> \in P
    <3> HIDE DEF l, L, In
    <3> QED BY <2>9, <2>10
  <2> WITNESS <<l, d>> \in P
  <2> QED OBVIOUS
<1>10. IsFiniteSet(D)
  BY WorkedDaysFinite, FS_Subset DEF LeaveDays
<1>11. Cardinality(P) = Cardinality(D)
  <2> HIDE DEF P, g, D
  <2>1. g \in Injection(P, D) /\ g \in Surjection(P, D)
    BY <1>7, <1>8, <1>9 DEF Injection, Surjection, IsInjective
  <2> QED BY <1>10, <2>1, FS_Injection
<1> QED BY <1>11 DEF DaysInPeriodByType, SumOver

-----------------------------------------------------------------------------
(* The attendance block.                                                   *)

\* The days of a period of some kind G on which the employee was employed.
EmployedDays(p, G) == {d \in (RangeOf[p][1]..RangeOf[p][2]) \cap G : Employed(d)}

WeekdayDates == {d \in Int : ~IsWeekend(d)}
WeekendDates == {d \in Int : IsWeekend(d)}
HolidayDates(types) == {h.date : h \in {k \in holidays : k.type \in types}} \cap WeekdayDates

\* Each count of the attendance block is one of employed days.
LEMMA BlockCounts ==
    ASSUME PayInv, NEW p \in Period, HasRow(p)
    PROVE  LET att == Attendance(p) IN
           /\ att.scheduledWorkingDays = Cardinality(EmployedDays(p, WeekdayDates))
           /\ att.nationalHolidayDays = Cardinality(EmployedDays(p, HolidayDates({"NATIONAL"})))
           /\ att.companyHolidayDays
                = Cardinality(EmployedDays(p, HolidayDates({"COMPANY", "SPECIAL"})))
           /\ att.dayOffDays = Cardinality(EmployedDays(p, WeekendDates))
<1> DEFINE a == RangeOf[p][1]
           b == RangeOf[p][2]
           Segs == EmploymentSegments(EmploymentsIn(p), a, b)
           att == Attendance(p)
<1>2. Covered(EmploymentsIn(p), p) = Segs
  <2>1. PICK e \in employments : e \in EmploymentsIn(p)
    BY DEF HasRow, EmploymentsIn
  <2>2. /\ a \in Int /\ b \in Int /\ a <= b
        /\ e.start \in Int /\ (e.end # None => e.end \in Int)
    BY PeriodEnds, CalendarAssumption, RowsOrdered DEF PayInv
  <2>3. /\ e.start <= b /\ (e.end # None => e.end >= a)
        /\ e.end # None => e.start <= e.end
    BY <2>1 DEF EmploymentsIn, PayInv, Proper
  <2>4. Segment(e, a, b).start <= Segment(e, a, b).end
    <3> HIDE DEF a, b
    <3>1. CASE e.end = None
      BY <2>2, <2>3, <3>1, MaxOfTwo DEF Segment
    <3>2. CASE e.end # None
      <4> DEFINE d == IF e.start >= a THEN e.start ELSE a
      <4>1. /\ d \in Int /\ e.start <= d /\ a <= d /\ d <= b
            /\ IsEmployedOn(e, d)
        BY <2>2, <2>3, <3>2 DEF IsEmployedOn
      <4> HIDE DEF d
      <4>2. /\ Segment(e, a, b).start \in Int /\ Segment(e, a, b).end \in Int
            /\ Segment(e, a, b).start <= d /\ d <= Segment(e, a, b).end
        BY <2>2, <4>1, SegmentDays DEF PayInv
      <4> QED BY <4>1, <4>2
    <3> QED BY <3>1, <3>2
  <2>5. Segs # {}
    BY <2>1, <2>4 DEF EmploymentSegments
  <2> QED BY <2>5 DEF Covered
<1>3. ASSUME NEW G
      PROVE  Cardinality(UNION {{r} \X ((r.start..r.end) \cap G) : r \in Segs})
               = Cardinality(EmployedDays(p, G))
  BY SegmentsCount DEF EmployedDays
<1>4. \A r \in Segs : r.start \in Int /\ r.end \in Int
  BY SegmentsDated
<1>5. SumOver(Segs, Weekdays) = Cardinality(EmployedDays(p, WeekdayDates))
  <2>1. \A r \in Segs : Weekdays(r.start, r.end) = (r.start..r.end) \cap WeekdayDates
    BY <1>4 DEF Weekdays, WeekdayDates
  <2> HIDE DEF Segs
  <2>2. UNION {{r} \X Weekdays(r.start, r.end) : r \in Segs}
          = UNION {{r} \X ((r.start..r.end) \cap WeekdayDates) : r \in Segs}
    BY <2>1
  <2> QED BY <1>3, <2>2 DEF SumOver
<1>6. SumOver(Segs, WeekendDays) = Cardinality(EmployedDays(p, WeekendDates))
  <2>1. \A r \in Segs : WeekendDays(r.start, r.end) = (r.start..r.end) \cap WeekendDates
    BY <1>4 DEF WeekendDays, WeekendDates
  <2> HIDE DEF Segs
  <2>2. UNION {{r} \X WeekendDays(r.start, r.end) : r \in Segs}
          = UNION {{r} \X ((r.start..r.end) \cap WeekendDates) : r \in Segs}
    BY <2>1
  <2> QED BY <1>3, <2>2 DEF SumOver
<1>7. ASSUME NEW types
      PROVE  SumOver(Segs, LAMBDA x, y : HolidaysOnWeekdays(types, x, y))
               = Cardinality(EmployedDays(p, HolidayDates(types)))
  <2>1. \A r \in Segs : HolidaysOnWeekdays(types, r.start, r.end)
                          = (r.start..r.end) \cap HolidayDates(types)
    BY <1>4 DEF HolidaysOnWeekdays, HolidayDates, Weekdays, WeekdayDates
  <2> HIDE DEF Segs
  <2>2. UNION {{r} \X HolidaysOnWeekdays(types, r.start, r.end) : r \in Segs}
          = UNION {{r} \X ((r.start..r.end) \cap HolidayDates(types)) : r \in Segs}
    BY <2>1
  <2> QED BY <1>3, <2>2 DEF SumOver
<1>8. att = ComputeAttendance(EmploymentsIn(p), LeavesIn(p), Logs(p), p)
  BY DEF Attendance
<1>9. /\ att.scheduledWorkingDays = SumOver(Segs, Weekdays)
      /\ att.nationalHolidayDays
           = SumOver(Segs, LAMBDA x, y : HolidaysOnWeekdays({"NATIONAL"}, x, y))
      /\ att.companyHolidayDays
           = SumOver(Segs, LAMBDA x, y : HolidaysOnWeekdays({"COMPANY", "SPECIAL"}, x, y))
      /\ att.dayOffDays = SumOver(Segs, WeekendDays)
  <2> HIDE DEF att, Segs
  <2> QED BY <1>2, <1>8 DEF ComputeAttendance
<1> HIDE DEF Segs, att
<1> QED BY <1>5, <1>6, <1>7, <1>9 DEF att

\* A full-timer's block counts the days on leave as well, and what is left as worked.
LEMMA AttendanceCounts ==
    ASSUME PayInv, NEW p \in FullTimers
    PROVE  LET att == Attendance(p) IN
           /\ att.scheduledWorkingDays = Cardinality(EmployedDays(p, WeekdayDates))
           /\ att.nationalHolidayDays = Cardinality(EmployedDays(p, HolidayDates({"NATIONAL"})))
           /\ att.companyHolidayDays
                = Cardinality(EmployedDays(p, HolidayDates({"COMPANY", "SPECIAL"})))
           /\ att.dayOffDays = Cardinality(EmployedDays(p, WeekendDates))
           /\ att.leaveDays = Cardinality(LeaveDays(p, LeaveType))
           /\ att.actualWorkingDays = att.scheduledWorkingDays - att.nationalHolidayDays
                                        - att.companyHolidayDays - att.leaveDays
<1> DEFINE att == Attendance(p)
<1>1. p \in Period /\ HasRow(p) /\ type = "FULL_TIME"
  BY DEF FullTimers
<1>2. att = ComputeAttendance(EmploymentsIn(p), LeavesIn(p), Logs(p), p)
  BY DEF Attendance
<1>3. type # "PART_TIME"
  BY <1>1
<1>4. /\ att.leaveDays = DaysInPeriodByType(LeavesIn(p), LeaveType, p)
      /\ att.actualWorkingDays = att.scheduledWorkingDays - att.nationalHolidayDays
                                   - att.companyHolidayDays - att.leaveDays
  <2> HIDE DEF att
  <2> QED BY <1>2, <1>3 DEF ComputeAttendance
<1>5. att.leaveDays = Cardinality(LeaveDays(p, LeaveType))
  BY <1>1, <1>4, LeaveCounts
<1> QED BY <1>1, <1>4, <1>5, BlockCounts

\* What is left of a finite set.
LEMMA TakeAway ==
    ASSUME NEW S, IsFiniteSet(S), NEW T, T \subseteq S
    PROVE  Cardinality(S \ T) = Cardinality(S) - Cardinality(T)
<1>1. S \cap T = T
  OBVIOUS
<1>2. Cardinality(S \ T) = Cardinality(S) - Cardinality(S \cap T)
  BY FS_Difference
<1> QED BY <1>1, <1>2

\* Two sets that share nothing hold what both hold.
LEMMA PutTogether ==
    ASSUME NEW S, IsFiniteSet(S), NEW T, IsFiniteSet(T), S \cap T = {}
    PROVE  /\ IsFiniteSet(S \cup T)
           /\ Cardinality(S \cup T) = Cardinality(S) + Cardinality(T)
<1>1. Cardinality(S \cap T) = 0
  BY FS_EmptySet
<1>2. Cardinality(S \cup T) = Cardinality(S) + Cardinality(T) - Cardinality(S \cap T)
  BY FS_Union
<1>3. Cardinality(S) \in Nat /\ Cardinality(T) \in Nat
  BY FS_CardinalityType
<1>4. IsFiniteSet(S \cup T)
  BY FS_Union
<1> QED BY <1>1, <1>2, <1>3, <1>4

\* Weekdays without the holidays that fall on them are the working days; a date
\* has one holiday, so none is taken off twice.
LEMMA WorkedDaysCount ==
    ASSUME PayInv, NEW p \in Period
    PROVE  /\ Cardinality(WorkedDays(p))
                = Cardinality(EmployedDays(p, WeekdayDates))
                  - Cardinality(EmployedDays(p, HolidayDates({"NATIONAL"})))
                  - Cardinality(EmployedDays(p, HolidayDates({"COMPANY", "SPECIAL"})))
           /\ Cardinality(EmployedDays(p, WeekdayDates))
                + Cardinality(EmployedDays(p, WeekendDates))
                = Cardinality({d \in Days(p) : Employed(d)})
           /\ \A G : Cardinality(EmployedDays(p, G)) \in Nat
<1> DEFINE S == EmployedDays(p, WeekdayDates)
           O == EmployedDays(p, WeekendDates)
           N == EmployedDays(p, HolidayDates({"NATIONAL"}))
           C == EmployedDays(p, HolidayDates({"COMPANY", "SPECIAL"}))
           W == WorkedDays(p)
           A == {d \in Days(p) : Employed(d)}
<1>1. \A G : IsFiniteSet(EmployedDays(p, G))
  BY PeriodEnds, FS_Interval, FS_Subset DEF EmployedDays
<1>2. \A G : Cardinality(EmployedDays(p, G)) \in Nat
  BY <1>1, FS_CardinalityType
<1>3. N \cap C = {}
  BY DEF EmployedDays, HolidayDates, PayInv, OneHoliday
<1>4. (N \cup C) \subseteq S
  BY DEF EmployedDays, HolidayDates
<1>5. W = S \ (N \cup C)
  <2>1. OffDayHolidayKeys \cap WeekdayDates
          = HolidayDates({"NATIONAL"}) \cup HolidayDates({"COMPANY", "SPECIAL"})
    BY DEF OffDayHolidayKeys, OFF_DAY_HOLIDAY_TYPES, HolidayDates
  <2>2. DaysToWork(p)
          = ((RangeOf[p][1]..RangeOf[p][2]) \cap WeekdayDates)
              \ (OffDayHolidayKeys \cap WeekdayDates)
    BY PeriodEnds DEF DaysToWork, WorkingDays, Weekdays, WeekdayDates
  <2> QED BY <2>1, <2>2 DEF WorkedDays, EmployedDays
<1>6. S \cap O = {} /\ S \cup O = A
  BY PeriodEnds DEF EmployedDays, WeekdayDates, WeekendDates, Days
<1>7. IsFiniteSet(S) /\ IsFiniteSet(O) /\ IsFiniteSet(N) /\ IsFiniteSet(C)
  BY <1>1
<1>8. /\ Cardinality(S) \in Nat /\ Cardinality(O) \in Nat
      /\ Cardinality(N) \in Nat /\ Cardinality(C) \in Nat
  BY <1>2
<1> HIDE DEF S, O, N, C, W, A
<1>9. Cardinality(N \cup C) = Cardinality(N) + Cardinality(C)
  BY <1>3, <1>7, PutTogether
<1>10. Cardinality(W) = Cardinality(S) - Cardinality(N \cup C)
  <2>1. Cardinality(S \ (N \cup C)) = Cardinality(S) - Cardinality(N \cup C)
    BY <1>4, <1>7, TakeAway
  <2> QED BY <1>5, <2>1
<1>11. Cardinality(S) + Cardinality(O) = Cardinality(A)
  <2>1. Cardinality(S \cup O) = Cardinality(S) + Cardinality(O)
    BY <1>6, <1>7, PutTogether
  <2> QED BY <1>6, <2>1
<1>12. Cardinality(W) = Cardinality(S) - Cardinality(N) - Cardinality(C)
  BY <1>8, <1>9, <1>10
<1> QED BY <1>2, <1>11, <1>12 DEF S, O, N, C, W, A

\* The days marked as worked are those employed, working and not on leave, and the
\* block covers the days employed, through rehires, holidays and clipped leave.
THEOREM AttendanceHolds == Spec => []AttendanceHonest
<1>1. ASSUME PayInv, NEW p \in FullTimers
      PROVE  LET att == Attendance(p) IN
             /\ att.actualWorkingDays =
                  Cardinality({d \in DaysToWork(p) : Employed(d) /\ ~OnLeave(d, LeaveType)})
             /\ att.scheduledWorkingDays + att.dayOffDays
                  = Cardinality({d \in Days(p) : Employed(d)})
  <2> DEFINE att == Attendance(p)
             L == LeaveDays(p, LeaveType)
             W == WorkedDays(p)
             Present == {d \in DaysToWork(p) : Employed(d) /\ ~OnLeave(d, LeaveType)}
  <2>1. p \in Period
    BY DEF FullTimers
  <2>2. L \subseteq W /\ Present = W \ L
    BY DEF LeaveDays, WorkedDays
  <2>3. IsFiniteSet(W)
    BY <2>1, WorkedDaysFinite
  <2>4. Cardinality(Present) = Cardinality(W) - Cardinality(L)
    <3> HIDE DEF Present, W, L
    <3>1. Cardinality(W \ L) = Cardinality(W) - Cardinality(L)
      BY <2>2, <2>3, TakeAway
    <3> QED BY <2>2, <3>1
  <2>5. att.actualWorkingDays = Cardinality(W) - Cardinality(L)
    <3> HIDE DEF att, W, L
    <3> QED BY <1>1, <2>1, AttendanceCounts, WorkedDaysCount DEF att, W, L
  <2>6. att.scheduledWorkingDays + att.dayOffDays = Cardinality({d \in Days(p) : Employed(d)})
    BY <1>1, <2>1, AttendanceCounts, WorkedDaysCount
  <2> QED BY <2>4, <2>5, <2>6
<1>2. PayInv => AttendanceHonest
  BY <1>1 DEF AttendanceHonest
<1> QED BY <1>2, PayInvHolds, PTL

\* The attendance and the proration line count the same days.
THEOREM ProrationHolds == Spec => []ProrationAgrees
<1>1. ASSUME PayInv, NEW p \in FullTimers
      PROVE  LET att == Attendance(p)
                 proration == Pay(p).proration
                 present == att.actualWorkingDays + att.leaveDays
             IN IF proration = None
                  THEN present = Cardinality(DaysToWork(p))
                  ELSE /\ present = proration.workedWorkingDays
                       /\ present < Cardinality(DaysToWork(p))
  <2> DEFINE att == Attendance(p)
             pr == Pay(p).proration
             present == att.actualWorkingDays + att.leaveDays
             worked == Cardinality(WorkedDays(p))
             month == Cardinality(DaysToWork(p))
             full == [workedWorkingDays |-> worked, monthWorkingDays |-> month]
  <2>1. p \in Period /\ HasRow(p) /\ type = "FULL_TIME"
    BY DEF FullTimers
  <2>2. Cardinality(LeaveDays(p, LeaveType)) \in Nat
    BY <2>1, WorkedDaysFinite, FS_Subset, FS_CardinalityType DEF LeaveDays
  <2>3. present = worked
    <3>1. att.leaveDays \in Nat
      BY <1>1, <2>2, AttendanceCounts
    <3>2. att.actualWorkingDays = worked - att.leaveDays
      <4> HIDE DEF att, worked
      <4> QED BY <1>1, <2>1, AttendanceCounts, WorkedDaysCount DEF att, worked
    <3>3. worked \in Nat
      BY <2>1, WorkedDaysFinite
    <3> HIDE DEF att, worked
    <3> QED BY <3>1, <3>2, <3>3
  <2>4. worked \in Nat /\ month \in Nat /\ worked <= month
    BY <2>1, WorkedDaysFinite, FS_Subset
  <2>5. ProrateMonth(EmploymentsIn(p), RangeOf[p][1], RangeOf[p][2]) = full
    BY <1>1, <2>1, SegmentsCountDays DEF ProrateMonth, HasRow, DaysToWork
  <2>6. pr = IF worked >= month THEN None ELSE full
    BY <2>1, <2>5 DEF Pay, ComputeFullTime, IsFullMonth
  <2>7. full # None /\ full.workedWorkingDays = worked
    <3> HIDE DEF worked, month
    <3> QED BY <2>4, NoneAssumption DEF Proration
  <2>8. IF pr = None THEN present = month
                     ELSE present = pr.workedWorkingDays /\ present < month
    <3> HIDE DEF pr, present, worked, month, full
    <3> QED BY <2>3, <2>4, <2>6, <2>7
  <2> QED BY <2>8
<1>2. PayInv => ProrationAgrees
  BY <1>1 DEF ProrationAgrees
<1> QED BY <1>2, PayInvHolds, PTL

-----------------------------------------------------------------------------
(* Leave across periods.                                                   *)

\* What LeaveCountedOnce adds up.
Reported == [p \in Period |-> IF HasRow(p) THEN Attendance(p).leaveDays ELSE 0]

\* MapThenSumSet adds up like SumOn.
LEMMA ReportedSum ==
    MapThenSumSet(LAMBDA p : IF HasRow(p) THEN Attendance(p).leaveDays ELSE 0, Period)
      = SumOn(Reported, Period)
<1> DEFINE days(p) == IF HasRow(p) THEN Attendance(p).leaveDays ELSE 0
           Adds(g) == g = [S \in SUBSET Period |->
                             IF S = {} THEN 0 ELSE days(Pick(S)) + g[S \ {Pick(S)}]]
<1>1. \A g : Adds(g) <=> Sums(g, Reported, Period)
  <2>1. \A S \in SUBSET Period : S # {} => Reported[Pick(S)] = days(Pick(S))
    BY PickIn DEF Reported
  <2>2. ASSUME NEW g
        PROVE  [S \in SUBSET Period |->
                  IF S = {} THEN 0 ELSE days(Pick(S)) + g[S \ {Pick(S)}]]
                 = [S \in SUBSET Period |->
                      IF S = {} THEN 0 ELSE Reported[Pick(S)] + g[S \ {Pick(S)}]]
    <3> HIDE DEF days
    <3> QED BY <2>1
  <2> HIDE DEF days
  <2> QED BY <2>2 DEF Sums
<1>2. \E g : Adds(g)
  BY <1>1, SumsExist, PeriodAssumption
<1>3. MapThenSumSet(LAMBDA p : IF HasRow(p) THEN Attendance(p).leaveDays ELSE 0, Period)
        = (CHOOSE g : Adds(g))[Period]
  BY DEF MapThenSumSet, MapThenFoldSet, Pick
<1>4. PICK g : g = CHOOSE h : Adds(h)
  OBVIOUS
<1>5. Adds(g)
  BY <1>2, <1>4
<1> HIDE DEF Adds
<1>6. Sums(g, Reported, Period)
  BY <1>1, <1>5
<1>7. SumOn(Reported, Period) = g[Period]
  BY <1>6, SumIs, PeriodAssumption
<1> QED BY <1>3, <1>4, <1>7

\* The days on leave of a period are days of the period.
LEMMA LeaveDaysWithin ==
    ASSUME NEW p \in Period, NEW d \in LeaveDays(p, LeaveType)
    PROVE  d \in Int /\ RangeOf[p][1] <= d /\ d <= RangeOf[p][2]
<1>1. d \in DaysToWork(p)
  BY DEF LeaveDays, WorkedDays
<1>2. DaysToWork(p) \subseteq RangeOf[p][1]..RangeOf[p][2]
  BY PeriodEnds, WorkingDaysFinite DEF DaysToWork
<1>3. d \in RangeOf[p][1]..RangeOf[p][2]
  BY <1>1, <1>2
<1> QED BY <1>3, PeriodEnds

\* A period of which no day was employed has no working day on leave.
LEMMA NoRowNoLeave ==
    ASSUME PayInv, NEW p \in Period, ~HasRow(p)
    PROVE  LeaveDays(p, LeaveType) = {}
<1>1. SUFFICES ASSUME NEW d \in LeaveDays(p, LeaveType) PROVE FALSE
  OBVIOUS
<1>2. /\ d \in DaysToWork(p) /\ Employed(d)
  BY <1>1 DEF LeaveDays, WorkedDays
<1>3. d \in Int /\ RangeOf[p][1] <= d /\ d <= RangeOf[p][2]
  BY LeaveDaysWithin
<1>4. PICK e \in employments : IsEmployedOn(e, d)
  BY <1>2 DEF Employed
<1>5. e \in EmploymentsIn(p)
  BY <1>3, <1>4, SelectedEmployments DEF PayInv
<1> QED BY <1>5 DEF HasRow

\* Periods never share a day, so neither do the days on leave they count.
LEMMA PeriodsShareNoLeave ==
    ASSUME NEW p \in Period, NEW q \in Period, p # q
    PROVE  LeaveDays(p, LeaveType) \cap LeaveDays(q, LeaveType) = {}
<1>1. \A r \in Period : \A d \in LeaveDays(r, LeaveType) :
         d \in Int /\ RangeOf[r][1] <= d /\ d <= RangeOf[r][2]
  BY LeaveDaysWithin
<1>2. RangeOf[p][2] < RangeOf[q][1] \/ RangeOf[q][2] < RangeOf[p][1]
  BY CalendarAssumption
<1> QED BY <1>1, <1>2, PeriodEnds

\* The periods together count each working day on leave and employed once, however
\* a leave runs across periods and employments.
THEOREM LeaveOnceOverPeriods == Spec => []LeaveCountedOnce
<1>1. ASSUME PayInv, type = "FULL_TIME"
      PROVE  MapThenSumSet(LAMBDA p : IF HasRow(p) THEN Attendance(p).leaveDays ELSE 0, Period)
               = Cardinality({d \in UNION {DaysToWork(p) : p \in Period} :
                                 Employed(d) /\ OnLeave(d, LeaveType)})
  <2>1. PICK D : D = [p \in Period |-> LeaveDays(p, LeaveType)]
    OBVIOUS
  <2>2. PICK c : c = Reported
    OBVIOUS
  <2>3. \A p \in Period : IsFiniteSet(D[p])
    BY <2>1, WorkedDaysFinite, FS_Subset DEF LeaveDays
  <2>4. \A p, q \in Period : p # q => D[p] \cap D[q] = {}
    BY <2>1, PeriodsShareNoLeave
  <2>5. \A p \in Period : c[p] = Cardinality(D[p])
    <3> SUFFICES ASSUME NEW p \in Period
                 PROVE  c[p] = Cardinality(D[p])
      OBVIOUS
    <3>1. CASE HasRow(p)
      <4>1. p \in FullTimers
        BY <1>1, <3>1 DEF FullTimers
      <4>2. Attendance(p).leaveDays = Cardinality(LeaveDays(p, LeaveType))
        BY <1>1, <4>1, AttendanceCounts
      <4> QED BY <2>1, <2>2, <3>1, <4>2 DEF Reported
    <3>2. CASE ~HasRow(p)
      <4>1. LeaveDays(p, LeaveType) = {}
        BY <1>1, <3>2, NoRowNoLeave
      <4> QED BY <2>1, <2>2, <3>2, <4>1, FS_EmptySet DEF Reported
    <3> QED BY <3>1, <3>2
  <2>6. PICK V : V = UNION {D[p] : p \in Period}
    OBVIOUS
  <2>7. SumOn(c, Period) = Cardinality(V)
    BY <2>3, <2>4, <2>5, <2>6, SumCards, PeriodAssumption
  <2>8. V = {d \in UNION {DaysToWork(p) : p \in Period} :
                Employed(d) /\ OnLeave(d, LeaveType)}
    BY <2>1, <2>6 DEF LeaveDays, WorkedDays
  <2> QED BY <2>2, <2>7, <2>8, ReportedSum
<1>2. PayInv => LeaveCountedOnce
  BY <1>1 DEF LeaveCountedOnce
<1> QED BY <1>2, PayInvHolds, PTL

-----------------------------------------------------------------------------
(* The deduction lines.                                                    *)

\* Nobody is charged for a kind of leave they did not take: without unpaid leave
\* the sick line is the whole deduction, without leave there is none.
LEMMA SplitOf ==
    ASSUME PayInv, NEW p \in FullTimers
    PROVE  LET pay == Pay(p)
               parts == SplitLeaveDeduction(pay)
           IN /\ pay.sickDays = 0 => parts.sickDeduction = 0
              /\ pay.unpaidDays = 0 => parts.unpaidDeduction = 0
<1> DEFINE pay == Pay(p)
<1>1. /\ pay.basicSalary \in Nat
      /\ pay.leaveDeduction \in Int
  BY FullTimeNet
<1>2. /\ pay.leaveDeduction = LeaveDeduction(pay.sickDays + pay.unpaidDays, pay.basicSalary)
      /\ pay.dailyRate = RoundIdr(MonthlySalary, StandardDays)
  BY DEF FullTimers, Pay, ComputeFullTime
<1> HIDE DEF pay
<1>3. RoundIdr(0, 1) = 0
  BY DEF RoundIdr
<1>4. RoundIdr(0, StandardDays) = 0
  BY MoneyAssumption DEF RoundIdr
<1>5. pay.dailyRate \in Nat
  BY <1>2, MoneyAssumption, RoundingNat
<1>6. Min({0, pay.basicSalary}) = 0
  BY <1>1, MinOfTwo
<1>7. pay.sickDays = 0 => SplitLeaveDeduction(pay).sickDeduction = 0
  <2> SUFFICES ASSUME pay.sickDays = 0
               PROVE  SplitLeaveDeduction(pay).sickDeduction = 0
    OBVIOUS
  <2>1. CASE pay.unpaidDays = 0
    <3>1. LeaveDeduction(0, pay.basicSalary) = 0
      <4>1. 0 * MonthlySalary = 0
        BY MoneyAssumption
      <4> QED BY <1>4, <1>6, <4>1 DEF LeaveDeduction
    <3>2. pay.sickDays + pay.unpaidDays = 0
      BY <2>1
    <3> QED BY <1>2, <2>1, <3>1, <3>2 DEF SplitLeaveDeduction
  <2>2. CASE pay.unpaidDays # 0
    <3>1. pay.sickDays * pay.dailyRate = 0
      BY <1>5
    <3> QED BY <1>3, <2>2, <3>1 DEF SplitLeaveDeduction
  <2> QED BY <2>1, <2>2
<1>8. pay.unpaidDays = 0 => SplitLeaveDeduction(pay).unpaidDeduction = 0
  BY <1>1 DEF SplitLeaveDeduction
<1> QED BY <1>7, <1>8 DEF pay

\* No printed line of a deduction takes money for days that were not taken.
THEOREM SplitHolds == Spec => []SplitFair
<1>1. PayInv => SplitFair
  BY SplitOf DEF SplitFair
<1> QED BY <1>1, PayInvHolds, PTL

-----------------------------------------------------------------------------
(* The entries.                                                            *)

\* Whoever was ever employed is of one of the two types.
Hired == employments # {} => type \in EmploymentType

\* Only the creation of an employee makes the first employment.
LEMMA HiredKept == Hired /\ [Next]_vars => Hired'
<1> SUFFICES ASSUME Hired, [Next]_vars PROVE Hired'
  OBVIOUS
<1>1. ASSUME NEW d \in Date, NEW t \in EmploymentType,
             CreateEmployee(t, d) \/ UpdateEmployee(t, d)
      PROVE  Hired'
  BY <1>1 DEF Hired, CreateEmployee, UpdateEmployee
<1>2. ASSUME NEW d \in Date, TerminateEmployee(d) \/ RehireEmployee(d)
      PROVE  Hired'
  BY <1>2 DEF Hired, TerminateEmployee, RehireEmployee
<1>3. CASE UNCHANGED <<type, employments>>
  BY <1>3 DEF Hired
<1> QED BY <1>1, <1>2, <1>3
      DEF Next, CreateOvertime, CreateReimbursement, CreateDailyLog, CreateHoliday,
          SubmitLeave, CancelLeave, Review, Withdraw, UpdateDailyLog, DeleteHoliday,
          UpdateHoliday, vars

\* So whoever has an employment has a type.
LEMMA HiredHolds == Spec => []Hired
<1>1. Init => Hired
  BY DEF Init, Hired
<1> QED BY <1>1, HiredKept, PTL DEF Spec

\* The entries that count, and the period that pays an entry.
Payable(r) ==
    \/ r.status = "APPROVED" /\ r.kind = "reimbursement"
    \/ r.status = "APPROVED" /\ r.kind = "overtime" /\ type = "FULL_TIME"
    \/ r.kind = "log" /\ type = "PART_TIME"

Pays(p, r) == HasRow(p) /\ r \in Reimbursed(p) \cup Pay(p).worked

\* Entries are dated.
LEMMA EntryDated ==
    ASSUME TypeOK, NEW r \in entries
    PROVE  r.date \in Int
<1>1. r \in EntryRow
  BY DEF TypeOK
<1>2. r.date \in Date
  BY <1>1 DEF EntryRow
<1> QED BY <1>2, CalendarAssumption

\* A period pays the entries that count and are dated on one of its employed days.
LEMMA PaysWhat ==
    ASSUME PayInv, Hired, NEW r \in entries, NEW p \in Period
    PROVE  Pays(p, r) <=> Payable(r) /\ r.date \in Days(p) /\ Employed(r.date)
<1>1. r.date \in Int
  BY EntryDated DEF PayInv
<1>2. Reimbursed(p) = {q \in {x \in EntriesIn(p) : x.status = "APPROVED"} :
                           q.kind = "reimbursement"}
  BY DEF Reimbursed, Approved
<1>3. type = "FULL_TIME" =>
        Pay(p).worked = {q \in {x \in EntriesIn(p) : x.status = "APPROVED"} :
                             q.kind = "overtime"}
  BY DEF Pay, Approved, ComputeFullTime
<1>4. type # "FULL_TIME" => Pay(p).worked = {x \in EntriesIn(p) : x.kind = "log"}
  BY DEF Pay, Logs, ComputePartTime
<1>5. HasRow(p) => type \in EmploymentType
  BY DEF Hired, HasRow, EmploymentsIn
<1>6. Pays(p, r) <=> HasRow(p) /\ r \in EntriesIn(p) /\ Payable(r)
  <2>1. r \in Reimbursed(p) \cup Pay(p).worked /\ HasRow(p)
          <=> r \in EntriesIn(p) /\ Payable(r) /\ HasRow(p)
    BY <1>2, <1>3, <1>4, <1>5 DEF Payable, EmploymentType
  <2> QED BY <2>1 DEF Pays
<1>7. r.date \in Days(p) <=> InPeriod(r.date, p)
  BY <1>1, PeriodEnds DEF Days, InPeriod
<1>8. ASSUME r.date \in Days(p)
      PROVE  HasRow(p) /\ IsEmployedOnAny(EmploymentsIn(p), r.date) <=> Employed(r.date)
  <2>1. \A e \in employments : IsEmployedOn(e, r.date) => e \in EmploymentsIn(p)
    BY <1>1, <1>7, <1>8, SelectedEmployments DEF PayInv, InPeriod
  <2>2. EmploymentsIn(p) \subseteq employments
    BY DEF EmploymentsIn
  <2> QED BY <2>1, <2>2 DEF HasRow, IsEmployedOnAny, Employed
<1> QED BY <1>6, <1>7, <1>8 DEF EntriesIn

\* Every entry that counts is paid by exactly one period, and no other is paid.
THEOREM EntriesPaidOnce == Spec => []PaidOnce
<1>1. ASSUME PayInv, Hired, NEW r \in entries
      PROVE  Cardinality({p \in Period : Pays(p, r)})
               = IF Employed(r.date) /\ (\E p \in Period : r.date \in Days(p)) /\ Payable(r)
                   THEN 1 ELSE 0
  <2> DEFINE payers == {p \in Period : Pays(p, r)}
  <2>1. CASE Employed(r.date) /\ (\E p \in Period : r.date \in Days(p)) /\ Payable(r)
    <3>1. PICK p \in Period : r.date \in Days(p)
      BY <2>1
    <3>2. \A q \in Period : r.date \in Days(q) => q = p
      <4>1. r.date \in Int
        BY <1>1, EntryDated DEF PayInv
      <4> SUFFICES ASSUME NEW q \in Period, r.date \in Days(q)
                   PROVE  q = p
        OBVIOUS
      <4>2. /\ RangeOf[p][1] <= r.date /\ r.date <= RangeOf[p][2]
            /\ RangeOf[q][1] <= r.date /\ r.date <= RangeOf[q][2]
        BY <3>1, PeriodEnds DEF Days
      <4>3. q # p => RangeOf[p][2] < RangeOf[q][1] \/ RangeOf[q][2] < RangeOf[p][1]
        BY CalendarAssumption
      <4> QED BY <4>1, <4>2, <4>3, PeriodEnds
    <3>3. payers = {p}
      BY <1>1, <2>1, <3>1, <3>2, PaysWhat
    <3> QED BY <2>1, <3>3, FS_Singleton
  <2>2. CASE ~(Employed(r.date) /\ (\E p \in Period : r.date \in Days(p)) /\ Payable(r))
    <3>1. payers = {}
      BY <1>1, <2>2, PaysWhat
    <3> QED BY <2>2, <3>1, FS_EmptySet
  <2> QED BY <2>1, <2>2
<1>2. ASSUME PayInv, Hired
      PROVE  PaidOnce
  <2> DEFINE paid == [p \in Period |-> IF HasRow(p) THEN Reimbursed(p) \cup Pay(p).worked
                                                  ELSE {}]
  <2>1. ASSUME NEW r
        PROVE  {p \in Period : r \in paid[p]} = {p \in Period : Pays(p, r)}
    BY DEF Pays
  <2>2. \A r \in entries :
           Cardinality({p \in Period : r \in paid[p]})
             = IF Employed(r.date) /\ (\E p \in Period : r.date \in Days(p)) /\ Payable(r)
                 THEN 1 ELSE 0
    BY <1>1, <1>2, <2>1
  <2> HIDE DEF paid
  <2>3. \A r \in entries :
           LET payable == /\ Employed(r.date)
                          /\ \E p \in Period : r.date \in Days(p)
                          /\ \/ r.status = "APPROVED" /\ r.kind = "reimbursement"
                             \/ r.status = "APPROVED" /\ r.kind = "overtime"
                                /\ type = "FULL_TIME"
                             \/ r.kind = "log" /\ type = "PART_TIME"
           IN Cardinality({p \in Period : r \in paid[p]}) = IF payable THEN 1 ELSE 0
    BY <2>2 DEF Payable
  <2> QED BY <2>3 DEF PaidOnce, paid
<1> QED BY <1>2, PayInvHolds, HiredHolds, PTL
=============================================================================
