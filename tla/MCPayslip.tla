----------------------------- MODULE MCPayslip -----------------------------
(* Small instances of Payslip and PayslipPrint for TLC. *)
EXTENDS PayslipPrint

\* Days of which the second is off: a period of three working days with the day off among
\* them, and a period of one working day.  With one day less the lines of a capped deduction
\* would not occur: they take a sick day and an unpaid one of somebody who was not employed
\* on all of the working days.
FiveDays == 1..5
DayOff == {2}
TwoPeriods == [p \in {"first", "second"} |-> IF p = "first" THEN <<1, 4>> ELSE <<5, 5>>]

Records(es, ls, hs) == Cardinality(es) + Cardinality(ls) + Cardinality(hs)

\* Bounds: a special holiday is left to a company's, which the code treats alike; with
\* two employments there is one leave, one claim or log, or one holiday.
MCHandler ==
    /\ finalized = {}
    /\ Handler
    /\ \A h \in holidays' : h.type # "SPECIAL"
    /\ Cardinality(employments') <= 1 \/ Records(entries', leaves', holidays') <= 1

\* The longer period of somebody employed once is finalized, when they have a row in it and
\* no claim that does not count: leave alone, or one record.
MCFinalize ==
    /\ finalized = {}
    /\ Cardinality(employments) = 1 /\ HasRow("first")
    /\ \A r \in entries : r.status \notin {"PENDING", "REJECTED"}
    /\ entries \cup holidays = {} \/ Records(entries, leaves, holidays) <= 1
    /\ FinalizePeriod("first")

\* Then only a conversion of the employee follows, the one later change a print reads.
MCConvert ==
    /\ finalized # {}
    /\ \E t \in EmploymentType, e \in employments : UpdateEmployee(t, e.start)
    /\ UNCHANGED <<finalized, payslip>>

MCNext == MCHandler \/ MCFinalize \/ MCConvert

MCSpec == PrintInit /\ [][MCNext]_printVars
=============================================================================
