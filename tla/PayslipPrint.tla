---------------------------- MODULE PayslipPrint ----------------------------
(***************************************************************************)
(* What becomes of a payslip once its period is finalized: the row is      *)
(* stored, the records of the period are locked, and documents are printed *)
(* from the stored row for as long as anybody asks for them -- the payslip *)
(* (lib/pdf/payslip.ts), the payroll sheet (lib/pdf/payrollSheet.ts), the  *)
(* payout file (lib/csv/payoutCsv.ts) and the breakdown on the screen.     *)
(* What they take from the Employee row instead is the employment type of  *)
(* the day they are printed on.                                            *)
(*                                                                         *)
(* A document is the set of its lines of money and its row of counts;      *)
(* layout, wording and dollars are left out.  The races around the         *)
(* finalization are PeriodLock's subject: here it is one step.             *)
(***************************************************************************)
EXTENDS Payslip

VARIABLES
    finalized,      \* the periods with status FINALIZED
    payslip         \* Payslip rows; None in a period where the employee has none

printVars == <<type, employments, leaves, entries, holidays, finalized, payslip>>

\* What is stored of a row: its amounts, and of "detail" what is printed.
PayslipRow ==
    [basicSalary : Nat, overtimePay : Nat, reimbursementTotal : Nat, leaveDeduction : Nat,
     totalIdr : Nat, employmentType : EmploymentType,
     overtimes : Nat, dailyLogs : Nat, reimbursements : Nat,
     sickDays : Nat, unpaidDays : Nat, dailyRate : Nat, partialMonth : BOOLEAN,
     attendance : [scheduledWorkingDays : Nat, actualWorkingDays : Int, dayOffDays : Nat,
                   nationalHolidayDays : Nat, companyHolidayDays : Nat, leaveDays : Nat]]

\* A stored payslip is in range: no amount of it is negative, its net included.
PrintTypeOK ==
    /\ finalized \subseteq Period
    /\ payslip \in [Period -> PayslipRow \cup {None}]

-----------------------------------------------------------------------------
(* Finalization.                                                           *)

Snapshot(p) ==
    LET row == ComputeRow(p) IN
    [basicSalary |-> row.pay.basicSalary,
     overtimePay |-> row.pay.overtimePay,
     reimbursementTotal |-> row.reimbursementTotal,
     leaveDeduction |-> row.pay.leaveDeduction,
     totalIdr |-> row.totalIdr,
     employmentType |-> type,
     overtimes |-> Cardinality({r \in row.pay.worked : r.kind = "overtime"}),
     dailyLogs |-> Cardinality({r \in row.pay.worked : r.kind = "log"}),
     reimbursements |-> Cardinality(row.reimbursed),
     sickDays |-> row.pay.sickDays,
     unpaidDays |-> row.pay.unpaidDays,
     dailyRate |-> row.pay.dailyRate,
     partialMonth |-> row.pay.proration # None,
     attendance |-> row.attendance]

FinalizePeriod(p) ==
    /\ p \notin finalized
    /\ finalized' = finalized \cup {p}
    /\ payslip' = [payslip EXCEPT ![p] = IF HasRow(p) THEN Snapshot(p) ELSE None]
    /\ UNCHANGED vars

\* assertPeriodEditable and assertPeriodRangeEditable: of a finalized period no
\* record is added, removed or changed.  Employments and holidays are not locked.
RecordsKept ==
    \A p \in finalized :
       /\ {r \in entries' : InPeriod(r.date, p)} = {r \in entries : InPeriod(r.date, p)}
       /\ {l \in leaves' : l.start <= RangeOf[p][2] /\ RangeOf[p][1] <= l.end} =
          {l \in leaves : l.start <= RangeOf[p][2] /\ RangeOf[p][1] <= l.end}

Handler == Next /\ RecordsKept /\ UNCHANGED <<finalized, payslip>>

PrintInit == Init /\ finalized = {} /\ payslip = [p \in Period |-> None]

PrintNext == Handler \/ \E p \in Period : FinalizePeriod(p)

PrintSpec == PrintInit /\ [][PrintNext]_printVars

-----------------------------------------------------------------------------
(* The payslip, printed for an employee of type t.                         *)

\* The lines of a section, as [label, amount]; a label appears once.
Sum(lines) == MapThenSumSet(LAMBDA line : line.amount, lines)

\* Wrong version: only a full-timer's reimbursements are printed.
EarningsByType(row, t) ==
    IF t = "FULL_TIME"
      THEN {[label |-> "Basic salary", amount |-> row.basicSalary]}
           \cup (IF row.overtimePay > 0 \/ row.overtimes > 0
                   THEN {[label |-> "Overtime", amount |-> row.overtimePay]} ELSE {})
           \cup (IF row.reimbursementTotal > 0 \/ row.reimbursements > 0
                   THEN {[label |-> "Reimbursements", amount |-> row.reimbursementTotal]}
                   ELSE {})
      ELSE {[label |-> "Logged hours", amount |-> row.basicSalary]}

Earnings(row, t) ==
    (IF t = "FULL_TIME"
       THEN {[label |-> "Basic salary", amount |-> row.basicSalary]} \cup
            (IF row.overtimePay > 0 \/ row.overtimes > 0
               THEN {[label |-> "Overtime", amount |-> row.overtimePay]} ELSE {})
       ELSE {[label |-> "Logged hours", amount |-> row.basicSalary]})
    \cup (IF row.reimbursementTotal > 0 \/ row.reimbursements > 0
            THEN {[label |-> "Reimbursements", amount |-> row.reimbursementTotal]} ELSE {})

Deductions(row) ==
    LET split == SplitLeaveDeduction(row) IN
    (IF row.sickDays > 0
       THEN {[label |-> "Sick leave", amount |-> split.sickDeduction]} ELSE {})
    \cup (IF row.unpaidDays > 0
            THEN {[label |-> "Unpaid leave", amount |-> split.unpaidDeduction]} ELSE {})

\* The attendance row: a part-timer's has neither a schedule nor leave.
Cells(row, t) ==
    LET att == row.attendance
        common == {[label |-> "National holiday", value |-> att.nationalHolidayDays],
                   [label |-> "Company holiday", value |-> att.companyHolidayDays],
                   [label |-> "Day off", value |-> att.dayOffDays]}
    IN IF t = "FULL_TIME"
         THEN common \cup {[label |-> "Actual working", value |-> att.actualWorkingDays],
                           [label |-> "Scheduled working", value |-> att.scheduledWorkingDays],
                           [label |-> "Leave taken", value |-> att.leaveDays]}
         ELSE common \cup {[label |-> "Days logged", value |-> att.actualWorkingDays]}

\* exportPayslipPdf: the type is that of the Employee row.
PrintedPayslip(p) ==
    [earnings |-> Earnings(payslip[p], type),
     deductions |-> Deductions(payslip[p]),
     cells |-> Cells(payslip[p], type),
     net |-> payslip[p].totalIdr]

-----------------------------------------------------------------------------
(* The screen; the payroll sheet and the payout file, as far as this       *)
(* employee is in them.                                                    *)

\* The breakdown on the screen starts from the monthly salary, not the prorated one.
\* An employee's own page takes the type from the stored row, HR's from the Employee.
Breakdown(row, t) ==
    [plus |-> {[label |-> "Reimbursements", amount |-> row.reimbursementTotal]} \cup
              IF t = "FULL_TIME"
                THEN {[label |-> "Monthly salary", amount |-> MonthlySalary],
                      [label |-> "Overtime", amount |-> row.overtimePay]}
                ELSE {[label |-> "Logged hours", amount |-> row.basicSalary]},
     minus |-> IF t = "FULL_TIME" THEN row.leaveDeduction ELSE 0,
     total |-> row.totalIdr]

MyPayslip(p) == Breakdown(payslip[p], payslip[p].employmentType)

\* The sheet has the same columns for everybody.
SheetRow(p) ==
    [plus |-> {[label |-> "Basic", amount |-> payslip[p].basicSalary],
               [label |-> "Overtime", amount |-> payslip[p].overtimePay],
               [label |-> "Reimbursement", amount |-> payslip[p].reimbursementTotal]},
     minus |-> payslip[p].leaveDeduction,
     net |-> payslip[p].totalIdr]

Issued == {p \in finalized : payslip[p] # None}

IsPayable(p) == payslip[p].totalIdr > 0

\* The amounts sent to the bank, period by period; the sheet lists who is left out.
Payout == {[label |-> p, amount |-> payslip[p].totalIdr] : p \in {q \in Issued : IsPayable(q)}}
SheetTotal == {[label |-> p, amount |-> payslip[p].totalIdr] : p \in Issued}

-----------------------------------------------------------------------------
(* Properties.                                                             *)

\* A payslip's lines add up to its net, and a full-timer's weekdays are all
\* accounted for, as the note under them says.
MoneyAddsUp(p) ==
    Sum(PrintedPayslip(p).earnings) - Sum(PrintedPayslip(p).deductions) = PrintedPayslip(p).net

DaysAddUp(p) ==
    LET value(label) == (CHOOSE cell \in PrintedPayslip(p).cells : cell.label = label).value IN
    type = "FULL_TIME" =>
       value("Scheduled working") =
          value("Actual working") + value("Leave taken")
          + value("National holiday") + value("Company holiday")

\* The payslip has no line for the overtime of somebody who is a part-timer by now, and
\* the screen starts a partial month from the whole month's salary.
Unprinted(p) == IF type = "FULL_TIME" THEN 0 ELSE payslip[p].overtimePay
Overstated(p) ==
    IF payslip[p].partialMonth THEN MonthlySalary - payslip[p].basicSalary ELSE 0

\* Whatever happens after a finalization -- terminations, rehires, conversions, corrected
\* join dates, holidays -- each document of a stored row comes to its net but for exactly
\* what is named above, and the sheet comes to it always.  The weekdays of a payslip add up
\* unless it was a part-timer's and is printed as a full-timer's.  Only the unpaid line can
\* be negative, and only if the deduction was capped.  And the bank is sent exactly the
\* total of the sheet: no row that the payout file leaves out is worth anything.
PrintsAddUp ==
    /\ \A p \in Issued :
          LET row == payslip[p]
              full == RoundIdr((row.sickDays + row.unpaidDays) * MonthlySalary, StandardDays)
          IN
          /\ Sum(PrintedPayslip(p).earnings) - Sum(PrintedPayslip(p).deductions)
                = PrintedPayslip(p).net - Unprinted(p)
          /\ row.employmentType = "FULL_TIME" => DaysAddUp(p)
          /\ \A line \in Deductions(row) :
                line.amount < 0 => line.label = "Unpaid leave" /\ row.leaveDeduction < full
          /\ Sum(MyPayslip(p).plus) - MyPayslip(p).minus = MyPayslip(p).total + Overstated(p)
          /\ Sum(SheetRow(p).plus) - SheetRow(p).minus = SheetRow(p).net
    /\ Sum(Payout) = Sum(SheetTotal)

\* "Figures are a frozen snapshot of the finalized payroll period and will not
\* change" (payslip.ts:265): whenever it is printed, its lines add up to its net.
ReprintsAddUp == \A p \in Issued : MoneyAddsUp(p)
=============================================================================
