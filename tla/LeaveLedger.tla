---------------------------- MODULE LeaveLedger ----------------------------
(***************************************************************************)
(* One employee's employments and paid-leave account: the monthly accrual  *)
(* catch-up, leave submission and cancellation, termination, rehire and    *)
(* the edit of the employee's record, interleaved statement by statement.  *)
(*                                                                         *)
(* Submission, termination, rehire and edit serialize on the Employee row  *)
(* (SELECT ... FOR UPDATE); what they read before that lock is stale by    *)
(* the time they use it.  Cancellation does not take the lock, and the     *)
(* catch-up (ensureAccrualsUpToDate) runs in no transaction at all: its    *)
(* inserts only wait, through their foreign key, for the lock's holder.    *)
(*                                                                         *)
(* Days are integers, a month is DaysPerMonth of them, and every day is a  *)
(* working day.  An accrual row is a pair <<employment, month>> worth one  *)
(* day, free or spent.  The payroll period lock is PeriodLock's subject;   *)
(* here its refusal is a Rollback.                                         *)
(***************************************************************************)
EXTENDS Integers, FiniteSets, FiniteSetsExt

CONSTANTS
    Day,            \* calendar days, as integers
    DaysPerMonth,
    Life,           \* months after which an accrual row expires (18 in the code)
    Employment,     \* identities of Employment rows
    Leave,          \* identities of LeaveRequest rows
    Session,        \* requests being served at once
    Ask,            \* leave that may be asked for: [paid, first, last]
    JoinDate,       \* join dates HR may enter when it edits the employee
    Anchor,         \* fullTimeSince dates HR may supply; it usually supplies none
    None

ASSUME CalendarAssumption ==
    /\ Day \subseteq Nat
    /\ Ask \subseteq [paid : BOOLEAN, first : Day, last : Day]
    /\ \A ask \in Ask : ask.first <= ask.last
    /\ JoinDate \subseteq Day /\ Anchor \subseteq Day
    /\ DaysPerMonth \in Nat \ {0} /\ Life \in Nat \ {0}
ASSUME NoneAssumption == None \notin Day \cup Employment \cup Leave

VARIABLES
    today,
    type,       \* Employee.employmentType
    emp,        \* Employment rows: start is None in a row that does not exist,
                \* end in one that is open; since is the accrual anchor
    granted,    \* LeaveAccrual rows
    spent,      \* those whose day is consumed
    leave,      \* LeaveRequest rows; drew is history: the rows the leave drew from
    tx,         \* requests in progress
    stale       \* history: employments whose accrual anchor was decided by a request
                \* that had read the employee before another one changed it

vars == <<today, type, emp, granted, spent, leave, tx, stale>>

Month(d) == d \div DaysPerMonth
Row == Employment \X {Month(d) : d \in Day}
EmploymentType == {"FULL_TIME", "PART_TIME"}

NoEmployment == [start |-> None, end |-> None, since |-> None, frozen |-> None]
NoLeave == [status |-> "none", paid |-> FALSE, first |-> None, last |-> None, drew |-> {}]

Idle ==
    [op |-> "none", pc |-> "idle", leave |-> None, paid |-> FALSE,
     first |-> None, last |-> None, emp |-> None, type |-> None, was |-> None,
     since |-> None, anchor |-> None, mint |-> {}, rows |-> {}, frozen |-> None]

Request ==
    [op : {"none", "balance", "submit", "cancel", "terminate", "rehire", "update"},
     pc : {"idle", "accrue", "rows", "mint", "lock", "plan", "commit"},
     leave : Leave \cup {None}, paid : BOOLEAN,
     first : Day \cup {None}, last : Day \cup {None},
     emp : Employment \cup {None},
     type : EmploymentType \cup {None}, was : EmploymentType \cup {None},
     since : Day \cup {None}, anchor : Day \cup {None},
     mint : SUBSET Row, rows : SUBSET Row, frozen : Nat \cup {None}]

TypeOK ==
    /\ today \in Day
    /\ type \in EmploymentType
    /\ emp \in [Employment -> [start : Day \cup {None}, end : Day \cup {None},
                               since : Day \cup {None}, frozen : Nat \cup {None}]]
    /\ granted \in SUBSET Row /\ spent \in SUBSET Row
    /\ leave \in [Leave -> [status : {"none", "taken", "gone"}, paid : BOOLEAN,
                            first : Day \cup {None}, last : Day \cup {None},
                            drew : SUBSET Row]]
    /\ tx \in [Session -> Request]
    /\ stale \subseteq Employment

\* createEmployee: one open employment, which starts the accrual of a full-timer.
Init ==
    /\ today \in Day /\ \A d \in Day : today <= d
    /\ type \in EmploymentType
    /\ \E e \in Employment :
          emp = [f \in Employment |->
                   IF f # e THEN NoEmployment
                   ELSE [NoEmployment EXCEPT
                           !.start = today,
                           !.since = IF type = "FULL_TIME" THEN today ELSE None]]
    /\ granted = {} /\ spent = {}
    /\ leave = [l \in Leave |-> NoLeave]
    /\ tx = [s \in Session |-> Idle]
    /\ stale = {}

-----------------------------------------------------------------------------
(* Reading the tables *)

Exists(e) == emp[e].start # None
Ended(e) == emp[e].end # None

\* currentlyEmployedFilter: open, or serving out a notice period.
Employed(e) == Exists(e) /\ (Ended(e) => emp[e].end >= today)

\* isEmployedOn: both ends inclusive.
Covers(e, d) == Exists(e) /\ emp[e].start <= d /\ (Ended(e) => d <= emp[e].end)

\* currentFirst: the open employment, else the one that ended last.
Latest(S) ==
    CHOOSE e \in S : \A f \in S \ {e} :
        \/ ~Ended(e)
        \/ Ended(f) /\ emp[f].end < emp[e].end
        \/ Ended(f) /\ emp[f].end = emp[e].end /\ emp[f].start <= emp[e].start

Known == {e \in Employment : Exists(e)}
Current == {e \in Employment : Employed(e)}

\* isExpired, and computeBalance's non-expired rows of one employment.
Expired(r) == (r[2] + Life) * DaysPerMonth <= today
Live(e) == {r \in granted : r[1] = e /\ ~Expired(r)}
Free(e) == Live(e) \ spent

\* The first n rows of S in FIFO order; S is of one employment.
FirstOf(S, n) == {r \in S : Cardinality({q \in S : q[2] <= r[2]}) <= n}

Overlaps(l, first, last) == leave[l].first <= last /\ first <= leave[l].last
Length(first, last) == last - first + 1

\* The holder of the Employee row.  Rehire and edit lock and commit in one step.
Locking == {s \in Session : tx[s].pc = "commit" /\ tx[s].op \in {"submit", "terminate"}}

-----------------------------------------------------------------------------
(* ensureAccrualsUpToDate *)

End(s) == tx' = [tx EXCEPT ![s] = Idle]

\* What follows the catch-up: the locked part of the request, or the answer.
Proceed(s, x) ==
    tx' = [tx EXCEPT ![s] =
             CASE x.rows # {} -> [x EXCEPT !.pc = "mint"]
               [] x.rows = {} /\ x.mint # {} -> [x EXCEPT !.pc = "rows"]
               [] x.rows = {} /\ x.mint = {} /\ x.op = "balance" -> Idle
               [] OTHER -> [x EXCEPT !.pc = "lock"]]

\* accrualCutoffMonth: the termination month of somebody serving notice.
LastMonth(e) ==
    IF Ended(e) /\ Month(emp[e].end) < Month(today) THEN Month(emp[e].end)
                                                    ELSE Month(today)

\* The months from the anchor to today, or to the termination month.
Due(e) ==
    {<<e, m>> : m \in {Month(d) : d \in {c \in Day : /\ Month(c) >= Month(emp[e].since)
                                                     /\ Month(c) <= LastMonth(e)}}}

Accruing == {e \in Current : emp[e].since # None /\ type = "FULL_TIME"}

\* getBalance and getBalances, and the catch-up at boot.
StartBalance(s) ==
    /\ tx[s] = Idle
    /\ tx' = [tx EXCEPT ![s] = [Idle EXCEPT !.op = "balance", !.pc = "accrue"]]
    /\ UNCHANGED <<today, type, emp, granted, spent, leave, stale>>

\* The employments are read, once, and the months each of them is due.
ReadEmployments(s) ==
    /\ tx[s].pc = "accrue"
    /\ Proceed(s, [tx[s] EXCEPT !.mint = UNION {Due(e) : e \in Accruing}])
    /\ UNCHANGED <<today, type, emp, granted, spent, leave, stale>>

\* One employment after the other: its rows are read, the missing months kept.
ReadRows(s, e) ==
    LET due == {r \in tx[s].mint : r[1] = e} IN
    /\ tx[s].pc = "rows" /\ due # {}
    /\ Proceed(s, [tx[s] EXCEPT !.mint = @ \ due, !.rows = due \ granted])
    /\ UNCHANGED <<today, type, emp, granted, spent, leave, stale>>

\* createMany with skipDuplicates; its foreign key waits for the Employee row.
Mint(s) ==
    /\ tx[s].pc = "mint"
    /\ Locking \subseteq {s}
    /\ granted' = granted \cup tx[s].rows
    /\ Proceed(s, [tx[s] EXCEPT !.rows = {}])
    /\ UNCHANGED <<today, type, emp, spent, leave, stale>>

-----------------------------------------------------------------------------
(* submitLeave *)

\* Employment type and current employment are read before the transaction.
StartSubmit(s, l, ask) ==
    /\ tx[s] = Idle
    /\ leave[l].status = "none" /\ \A t \in Session : tx[t].leave # l
    /\ type = "FULL_TIME" /\ Current # {}
    /\ tx' = [tx EXCEPT ![s] =
                [Idle EXCEPT !.op = "submit", !.leave = l, !.paid = ask.paid,
                             !.first = ask.first, !.last = ask.last, !.emp = Latest(Current),
                             !.pc = IF ask.paid THEN "accrue" ELSE "lock"]]
    /\ UNCHANGED <<today, type, emp, granted, spent, leave, stale>>

DoubleBooked(first, last) ==
    \E l \in Leave : leave[l].status = "taken" /\ Overlaps(l, first, last)

\* Wrong version: the checks do not wait for a concurrent submission.
PlanSubmitUnlocked(s) ==
    LET n == Length(tx[s].first, tx[s].last)
        free == Free(tx[s].emp)
    IN
    /\ tx[s].pc = "lock" /\ tx[s].op = "submit"
    /\ ~DoubleBooked(tx[s].first, tx[s].last)
    /\ tx[s].paid => Cardinality(free) >= n
    /\ tx' = [tx EXCEPT ![s].pc = "commit",
                        ![s].rows = IF tx[s].paid THEN FirstOf(free, n) ELSE {}]
    /\ UNCHANGED <<today, type, emp, granted, spent, leave, stale>>

\* Under the lock: overlap check, balance guard, and the FIFO plan.
PlanSubmit(s) ==
    LET n == Length(tx[s].first, tx[s].last)
        free == Free(tx[s].emp)
    IN
    /\ tx[s].pc = "lock" /\ tx[s].op = "submit"
    /\ Locking \subseteq {s}
    /\ ~DoubleBooked(tx[s].first, tx[s].last)
    /\ tx[s].paid => Cardinality(free) >= n
    /\ tx' = [tx EXCEPT ![s].pc = "commit",
                        ![s].rows = IF tx[s].paid THEN FirstOf(free, n) ELSE {}]
    /\ UNCHANGED <<today, type, emp, granted, spent, leave, stale>>

\* Wrong version: leave is stored for approval, as it once was.
CommitSubmitPending(s) ==
    LET x == tx[s] IN
    /\ x.pc = "commit" /\ x.op = "submit"
    /\ x.rows \cap spent = {} /\ x.rows \subseteq granted
    /\ spent' = spent \cup x.rows
    /\ leave' = [leave EXCEPT ![x.leave] =
                   [status |-> "PENDING", paid |-> x.paid, first |-> x.first,
                    last |-> x.last, drew |-> x.rows]]
    /\ End(s)
    /\ UNCHANGED <<today, type, emp, granted, stale>>

\* The conditional increments, the insert and the COMMIT.
CommitSubmit(s) ==
    LET x == tx[s] IN
    /\ x.pc = "commit" /\ x.op = "submit"
    /\ x.rows \cap spent = {} /\ x.rows \subseteq granted
    /\ spent' = spent \cup x.rows
    /\ leave' = [leave EXCEPT ![x.leave] =
                   [status |-> "taken", paid |-> x.paid, first |-> x.first,
                    last |-> x.last, drew |-> x.rows]]
    /\ End(s)
    /\ UNCHANGED <<today, type, emp, granted, stale>>

-----------------------------------------------------------------------------
(* cancelLeave *)

\* The request is read before the transaction; only HR may cancel once it began.
StartCancel(s, l, hr) ==
    /\ tx[s] = Idle
    /\ leave[l].status = "taken"
    /\ hr \/ today <= leave[l].first
    /\ tx' = [tx EXCEPT ![s] =
                [Idle EXCEPT !.op = "cancel", !.pc = "plan", !.leave = l,
                             !.paid = leave[l].paid,
                             !.first = leave[l].first, !.last = leave[l].last]]
    /\ UNCHANGED <<today, type, emp, granted, spent, leave, stale>>

\* The employment covering the first day, else the current one.
RefundTo(first) ==
    LET covering == {e \in Employment : Covers(e, first)} IN
    IF covering # {} THEN CHOOSE e \in covering : TRUE ELSE Latest(Known)

\* refundPaidLeave: non-expired rows first, then expired ones, each FIFO.
Refund(e, n) ==
    LET used == {r \in granted \cap spent : r[1] = e}
        live == FirstOf({r \in used : ~Expired(r)}, n)
    IN  live \cup FirstOf({r \in used : Expired(r)}, n - Cardinality(live))

PlanCancel(s) ==
    LET x == tx[s] IN
    /\ x.pc = "plan"
    /\ tx' = [tx EXCEPT ![s].pc = "commit",
                        ![s].rows = IF x.paid
                                    THEN Refund(RefundTo(x.first), Length(x.first, x.last))
                                    ELSE {}]
    /\ UNCHANGED <<today, type, emp, granted, spent, leave, stale>>

\* Wrong version: a leave that is already gone is refunded again.
CommitCancelTwice(s) ==
    LET x == tx[s] IN
    /\ x.pc = "commit" /\ x.op = "cancel"
    /\ x.rows \subseteq spent
    /\ spent' = spent \ x.rows
    /\ leave' = [leave EXCEPT ![x.leave] = [NoLeave EXCEPT !.status = "gone"]]
    /\ End(s)
    /\ UNCHANGED <<today, type, emp, granted, stale>>

\* The conditional decrements, the delete (it fails if the row is gone), COMMIT.
CommitCancel(s) ==
    LET x == tx[s] IN
    /\ x.pc = "commit" /\ x.op = "cancel"
    /\ x.rows \subseteq spent
    /\ leave[x.leave].status = "taken"
    /\ spent' = spent \ x.rows
    /\ leave' = [leave EXCEPT ![x.leave].status = "gone", ![x.leave].drew = {}]
    /\ End(s)
    /\ UNCHANGED <<today, type, emp, granted, stale>>

-----------------------------------------------------------------------------
(* terminateEmployee, rehireEmployee, updateEmployee *)

StartTerminate(s, end) ==
    /\ tx[s] = Idle
    /\ tx' = [tx EXCEPT ![s] =
                [Idle EXCEPT !.op = "terminate", !.pc = "accrue", !.last = end]]
    /\ UNCHANGED <<today, type, emp, granted, spent, leave, stale>>

\* Wrong version: the guard is read outside the lock.
PlanTerminateUnlocked(s) ==
    LET e == Latest(Known)
        end == tx[s].last
        unearned == {r \in granted \ spent : r[1] = e /\ r[2] > Month(end)}
    IN
    /\ tx[s].pc = "lock" /\ tx[s].op = "terminate"
    /\ ~Ended(e) /\ emp[e].start <= end
    /\ tx' = [tx EXCEPT ![s].pc = "commit", ![s].emp = e, ![s].rows = unearned,
                        ![s].frozen = Cardinality(Free(e) \ unearned)]
    /\ UNCHANGED <<today, type, emp, granted, spent, leave, stale>>

\* Under the lock: the guards, the rows that were never earned, and the balance
\* of those that stay.
PlanTerminate(s) ==
    LET e == Latest(Known)
        end == tx[s].last
        unearned == {r \in granted \ spent : r[1] = e /\ r[2] > Month(end)}
    IN
    /\ tx[s].pc = "lock" /\ tx[s].op = "terminate"
    /\ Locking \subseteq {s}
    /\ ~Ended(e) /\ emp[e].start <= end
    /\ tx' = [tx EXCEPT ![s].pc = "commit", ![s].emp = e, ![s].rows = unearned,
                        ![s].frozen = Cardinality(Free(e) \ unearned)]
    /\ UNCHANGED <<today, type, emp, granted, spent, leave, stale>>

CommitTerminate(s) ==
    LET x == tx[s] IN
    /\ x.pc = "commit" /\ x.op = "terminate"
    /\ emp' = [emp EXCEPT ![x.emp].end = x.last, ![x.emp].frozen = x.frozen]
    /\ granted' = granted \ x.rows
    /\ End(s)
    /\ UNCHANGED <<today, type, spent, leave, stale>>

\* The employment type is read before the transaction.
StartRehire(s, start, since) ==
    /\ tx[s] = Idle
    /\ since # None => start <= since
    /\ tx' = [tx EXCEPT ![s] =
                [Idle EXCEPT !.op = "rehire", !.pc = "lock", !.first = start,
                             !.type = type, !.since = since, !.anchor = start]]
    /\ UNCHANGED <<today, type, emp, granted, spent, leave, stale>>

\* The record and the current employment are read before the transaction.
StartUpdate(s, new, join, since) ==
    LET e == Latest(Known) IN
    /\ tx[s] = Idle
    /\ tx' = [tx EXCEPT ![s] =
                [Idle EXCEPT !.op = "update", !.pc = "lock", !.first = join, !.emp = e,
                             !.type = new, !.was = type, !.since = since,
                             !.anchor = IF emp[e].since # None THEN emp[e].since
                                                               ELSE emp[e].start]]
    /\ UNCHANGED <<today, type, emp, granted, spent, leave, stale>>

\* Wrong version: an anchor outlives the conversion to part-time.
FullTimeSinceKept(x) ==
    CASE x.since # None -> x.since
      [] x.since = None /\ x.type = "FULL_TIME" /\ x.was = "PART_TIME" -> today
      [] OTHER -> x.anchor

\* resolveFullTimeSince: a given date wins; a conversion anchors at today.
FullTimeSince(x) ==
    CASE x.type # "FULL_TIME" -> None
      [] x.type = "FULL_TIME" /\ x.since # None -> x.since
      [] x.type = "FULL_TIME" /\ x.since = None /\ x.was = "PART_TIME" -> today
      [] OTHER -> x.anchor

\* Wrong version: a new employment may begin on the last day of the previous one.
RehireSameDay(s, e) ==
    LET x == tx[s]
        previous == Latest(Known)
    IN
    /\ x.pc = "lock" /\ x.op = "rehire"
    /\ Locking \subseteq {s}
    /\ Ended(previous) /\ x.first >= emp[previous].end
    /\ ~Exists(e)
    /\ emp' = [emp EXCEPT ![e] = [NoEmployment EXCEPT !.start = x.first,
                                                      !.since = FullTimeSince(x)]]
    /\ stale' = IF x.type = type THEN stale ELSE stale \cup {e}
    /\ End(s)
    /\ UNCHANGED <<today, type, granted, spent, leave>>

\* A new employment begins after the previous one ended.
Rehire(s, e) ==
    LET x == tx[s]
        previous == Latest(Known)
    IN
    /\ x.pc = "lock" /\ x.op = "rehire"
    /\ Locking \subseteq {s}
    /\ Ended(previous) /\ x.first > emp[previous].end
    /\ ~Exists(e)
    /\ emp' = [emp EXCEPT ![e] = [NoEmployment EXCEPT !.start = x.first,
                                                      !.since = FullTimeSince(x)]]
    /\ stale' = IF x.type = type THEN stale ELSE stale \cup {e}
    /\ End(s)
    /\ UNCHANGED <<today, type, granted, spent, leave>>

Earliest == CHOOSE e \in Known : \A f \in Known : emp[e].start <= emp[f].start

\* The join date moves the start of the first employment; the anchor is set on
\* the employment that was current when the record was read.
Update(s) ==
    LET x == tx[s] IN
    /\ x.pc = "lock" /\ x.op = "update"
    /\ Locking \subseteq {s}
    /\ Ended(Earliest) => x.first <= emp[Earliest].end
    /\ type' = x.type
    /\ emp' = [emp EXCEPT ![Earliest].start = x.first, ![x.emp].since = FullTimeSince(x)]
    /\ stale' = IF x.emp = Latest(Known) \/ x.type = type THEN stale
                                                          ELSE stale \cup {Latest(Known)}
    /\ End(s)
    /\ UNCHANGED <<today, granted, spent, leave>>

-----------------------------------------------------------------------------
\* A guard inside the transaction refuses, the transaction fails, or the server
\* stops: nothing of it is kept (accrual rows already inserted stay).
Rollback(s) ==
    /\ tx[s] # Idle
    /\ End(s)
    /\ UNCHANGED <<today, type, emp, granted, spent, leave, stale>>

Tick ==
    /\ today + 1 \in Day
    /\ today' = today + 1
    /\ UNCHANGED <<type, emp, granted, spent, leave, tx, stale>>

Accrual(s) ==
    \/ StartBalance(s) \/ ReadEmployments(s) \/ Mint(s)
    \/ \E e \in Employment : ReadRows(s, e)

LeaveStep(s) ==
    \/ \E l \in Leave, ask \in Ask : StartSubmit(s, l, ask)
    \/ \E l \in Leave, hr \in BOOLEAN : StartCancel(s, l, hr)
    \/ PlanSubmit(s) \/ CommitSubmit(s) \/ PlanCancel(s) \/ CommitCancel(s)

Employing(s) ==
    \/ \E end \in Day : StartTerminate(s, end)
    \/ PlanTerminate(s) \/ CommitTerminate(s)
    \/ \E start \in Day, since \in Anchor \cup {None} : StartRehire(s, start, since)
    \/ \E e \in Employment : Rehire(s, e)
    \/ \E new \in EmploymentType, join \in JoinDate, since \in Anchor \cup {None} :
          StartUpdate(s, new, join, since)
    \/ Update(s)

Next ==
    \/ \E s \in Session : Accrual(s) \/ LeaveStep(s) \/ Employing(s) \/ Rollback(s)
    \/ Tick

Spec == Init /\ [][Next]_vars

-----------------------------------------------------------------------------
(* Properties *)

Taken == {l \in Leave : leave[l].status = "taken"}
PaidDays(l) == IF leave[l].paid THEN Length(leave[l].first, leave[l].last) ELSE 0

\* Every stored leave is leave that is taken, and one employee never has two on
\* the same day, however many submissions run at once (submitLeave's lock).
NoDoubleBooking ==
    \A l, k \in Taken : l # k => ~Overlaps(l, leave[k].first, leave[k].last)

\* The days of the paid leave that stands are all consumed somewhere: concurrent
\* submissions, cancellations, refunds and terminations never give one back twice
\* or delete it under a leave that drew it.
LeavePaidFor ==
    /\ spent \subseteq granted
    /\ Cardinality(spent) >= MapThenSumSet(PaidDays, Taken)

\* At most one employment is open and no day belongs to two of them, whatever
\* terminations, rehires and join-date corrections race (prorateMonth would pay
\* the common days twice).
EmploymentsApart ==
    /\ \A e, f \in Known : e # f => Ended(e) \/ Ended(f)
    /\ \A e, f \in Known, d \in Day : Covers(e, d) /\ Covers(f, d) => e = f

\* A recorded termination stands: of two concurrent ones the second is refused and
\* does not overwrite the date and the frozen balance of the first.
TerminationFinal ==
    [][\A e \in Employment : Ended(e) =>
          emp'[e].end = emp[e].end /\ emp'[e].frozen = emp[e].frozen]_vars

\* The employment that counts accrues leave exactly while the employee is full-time,
\* through conversions, rehires and corrections (resolveFullTimeSince); only a rehire
\* that read the type before a conversion, or a conversion that read the employment
\* before a rehire, leaves it otherwise.
AccruesByType ==
    LET e == Latest(Known) IN
    e \in stale \/ (emp[e].since # None <=> type = "FULL_TIME")

\* A refund never invents spendable days: what an employee can spend is at most
\* what the leaves that stand have left of the rows they drew from.
NeverInvents ==
    \A e \in Employment :
       Cardinality(Free(e)) <= Cardinality(Live(e) \ UNION {leave[l].drew : l \in Taken})
=============================================================================
