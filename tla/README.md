# HRMS: specifications, model checking and proofs

A TLA+ development of the HR management system in this repository: the Express
server over PostgreSQL in `src/server`, the start of its container, and the
session and query cache of the React client in `src/client`, as far as their
state changes are worth checking. Paths below are relative to `src/server/src`
unless they start with `src/`.

Contents: [the system](#the-system), [modules](#modules), [runs](#runs),
[fairness](#fairness), [proofs](#proofs), [findings](#findings), [disagreements
without a run](#disagreements-without-a-run), [what is not
modelled](#what-is-not-modelled), [plan](#plan).

## The system

The server is stateless between requests. Everything it keeps is in PostgreSQL
(through Prisma, at the default READ COMMITTED isolation) and, for the evidence
of reimbursements, in a directory of files. Concurrency is that of HTTP requests:
every handler is a sequence of `await`ed statements, with an interactive
transaction around those that must succeed together. Two handlers interleave at
every statement; what excludes them is row locks (`FOR SHARE`, `FOR UPDATE`, the
foreign keys' `FOR KEY SHARE`), unique and exclusion constraints, conditional
updates (`updateMany` with the expected status in its WHERE clause) and one
advisory lock.

| component | state | operations | talks to |
|---|---|---|---|
| payroll periods (`modules/payroll`) | `PayrollPeriod`, `Payslip` | create, patch, delete, finalize; previews and exports read | reads every source table when it finalizes; notifies the paid |
| period lock (`lib/periodLock.ts`) | row locks on `PayrollPeriod` | `assertPeriodRangeEditable` | called by every change of a dated record |
| daily logs, overtime, reimbursements (`modules/...`) | one table each | create, edit or review, withdraw | period lock, notifications, evidence files |
| leave (`modules/leave`) | `LeaveRequest`, the consumed days of `LeaveAccrual` | submit, cancel, balance | period lock, accrual, `Employee` row lock |
| accrual (`lib/accrual.ts`) | `LeaveAccrual` | catch-up of the months due, FIFO allocation, balance, expiry | runs outside transactions, at boot and before every balance |
| employments (`modules/employees`, `lib/employment*.ts`) | `Employee`, `Employment` | create, edit, terminate, rehire | accrual, reminders, accounts |
| notifications (`modules/notifications`) | `Notification` | emit to HR or the owner, resolve a group, mark read | in the transaction of the change they tell of |
| contract reminders (`lib/contractReminders.ts`) | `Notification` | idempotent catch-up under an advisory lock | open employments |
| evidence (`middleware/upload.ts`, `errorHandler.ts`) | files on disk | store, discard on error, remove after a withdrawal | reimbursements |
| accounts, sign-in (`modules/users`, `modules/auth`, `middleware`) | `User`, `Role`, tokens in circulation | sign in, create, patch, (de)activate, password | the lookup in front of every request; the latest employment; decides who is notified |
| start (`src/docker-entrypoint.sh`, `src/server/prisma/seed.ts`, `bootstrap.ts`) | how far it got: `Role`, `User` | migrate, seed, bootstrap, serve | accounts |
| documents (`lib/pdf`, `lib/csv`) | none | payslip, payroll sheet, payout file | stored payslips, the Employee row of the day |
| payslip arithmetic (`lib/payroll.ts`, `lib/workingDays.ts`, `lib/employment.ts`) | none | pure: working days, proration, attendance, the row, the split of a deduction | finalization, previews |
| holidays, dashboard, exchange rate | `Holiday` | single statements, reads | inputs of the above |
| web client (`src/client/src`) | token in localStorage, session, page, cached queries, fetches and mutations under way | sign in and out, navigate, fetch, mutate, invalidate, poll | the server |

Where it is hard, and what makes it correct:

* **Closing a month.** `finalizePeriod` reads four tables with a statement each,
  writes payslips and flips the status, while anybody may file, approve, move or
  withdraw a record of the month, and HR may replan periods. Correct: payslips
  state exactly the records of the range, for ever (`SnapshotExact`,
  `ImplementsLedger`), no day is paid by two periods (`NoDayPaidTwice`), their range
  and rate are those the payslips were computed with (`PayslipsMatchPeriod`), and a
  request gets an answer (`TransactionsEnd`).
* **One account, many writers.** Leave, accrual, expiry, termination and rehire
  all write the paid-leave account of an employee; only some of them lock it.
  Correct: no double booking (`NoDoubleBooking`), no day given back twice
  (`LeavePaidFor`), none invented (`NeverInvents`), paid leave for full-timers
  only (`AccruesByType`), employments apart and terminations final
  (`EmploymentsApart`, `TerminationFinal`).
* **Who knows what.** A request is decided or withdrawn once, HR's list is what
  is still to be decided, the owner hears once, evidence stays with the claim,
  reminders do not double (`DecisionsFinal`, `QueueHonest`, `ToldOnce`,
  `AnnouncedToReaders`, `EvidenceKept`, `OneReminder`).
* **What a payslip says.** Salary, attendance block, proration line and deduction
  are four computations over the same days, with different divisors, after any
  history of terminations, rehires, conversions, corrected dates and holidays.
  Correct: each day is paid, deducted and shown once (`PaidByTheDay`,
  `LeaveCountedOnce`, `AttendanceHonest`), the parts of a payslip agree
  (`ProrationAgrees`, `SplitFair`), entries are paid by one period and only if
  they count (`PaidOnce`), and nobody is handed a negative net
  (`NetNeverNegative`). What is printed, shown on the screen and sent to the bank comes
  to the stored net, but for the lines that are known to be missing (`PrintsAddUp`).
* **Who may act.** A token is never revoked; what it allows is looked up at the
  start of each request, and the handler writes later. Two scripts may be stopped
  at any statement and started again under other settings. Correct: the server
  comes up with both roles and an HR account (`Recovers`), no start costs anybody
  their account (`AccountsSurvive`), one HR account stays active (`HrRemains`), and
  whoever is let in gets in (`SignInWorks`).
* **What a page shows.** Answers arrive out of order with the changes they should
  include, sign-out leaves the cache and what is under way, and what is invalidated
  is a list kept by hand. Correct: a page at rest shows what this tab has changed
  (`OwnWritesShown`) and nothing fetched for the account before, unless it joined a
  fetch that one left under way (`OthersDataOrphaned`), a save that is announced is on
  screen (`SavedThenShown`), the badge catches up (`BadgeCatchesUp`).

The hazards behind these, each at its line, are under `hazards` in
`PROJECT.json`.

## Modules

The modules of concurrent handlers (`PeriodLock`, `LeaveLedger`, `Inbox`) share a
shape: the tables are functions from row identities to
records, `tx[s]` is the handler session `s` is serving (or `Idle`), one database
statement is one action, and a write together with the COMMIT behind it is one
action, since READ COMMITTED shows it to nobody before. A row lock is a guard
over the other sessions' `tx`: it is held from the statement that takes it to the
end of the transaction, so the transactions are the lock table. A refusal (an
`HttpError`) ends the transaction without a trace. Rows a handler deleted are
`gone` rather than absent so that identities are not used again; that is the one
bound on how much may happen, and why runs disable the deadlock check.

### PeriodLock

`lib/periodLock.ts`, `modules/payroll/service.ts` and the writing halves of
`daily-logs`, `overtime`, `reimbursements` and `leave`.

| TLA+ | code |
|---|---|
| `period`, `slips`, `row` | `PayrollPeriod`; what the `Payslip` rows of a period state; the four source tables, told apart by `KindOf` |
| `ask` | requests that have sent a `FOR UPDATE` and wait for it, before they hold anything; planning requests between their check and their write |
| `AskLeave`, `AskMove`, `AskRemove`, `AskPeriod`, `AskPatch` | that statement, sent by `submitLeave`, `updateDailyLog`, the withdrawals and `deleteDailyLog`, `finalizePeriod` and `deletePeriod`, `patchPeriod` |
| `StartFile`, `StartReview`, `StartMove`, `StartRemove` | the read each handler starts with, or the `FOR UPDATE` it has been granted |
| `Select`, `LockNext`, `Cleared`, `Refused` | `SELECT ... FOR SHARE`: its snapshot, its rows one by one, the re-evaluated WHERE clause and the 409 |
| `File`, `Review`, `Move`, `Remove`, `LostRace` | the write: insert, conditional update, update, delete |
| `StartFinalize`, `ReadTable`, `InsertSlip`, `CommitFinalize` | `finalizePeriod`: `FOR UPDATE`, the statements of `computeRows` in any order, the payslip inserts with their foreign key, the flip |
| `CheckCreate`, `CreatePeriod` | `createPeriod`: the read of `assertNoPeriodOverlap`, and the INSERT, which the exclusion constraint of the migration lets through or not |
| `CheckPatch`, `PatchPeriod` | `patchPeriod`: the row lock with the checks, and the UPDATE under the same constraint |
| `DeletePeriod`, `TurnedAway` | `deletePeriod`; a row that is gone or finalized by the time it is locked, a 409 of the check or of the constraint |
| `DeadlockAbort`, `Rollback` | PostgreSQL's deadlock detection; timeouts, lost connections, checks of other modules |

Two kinds are merged into `claim` because overtime and reimbursement handlers have the
same statements. Between the check of a range and its write any other handler may run,
planning included; the rate a new period is given was fetched before, and the
uniqueness of its month, which only refuses more, is left out. A leave submission also
holds the `Employee` row, which the payslip insert wants: that is where waiting cycles
come from. `saw` is a history variable, read by `LateWritesRaced` only.

### FrozenLedger

What finalization promises, without transactions: `Post` changes one record
unless a closed range would notice, `Close` freezes a range in one step. With
the ranges of existing periods fixed (`SteadySpec`), `PeriodLock` implements it
under `books <- row, closed <- slips`. With replanning it does not; see
[findings](#findings).

### LeaveLedger

`lib/accrual.ts`, `modules/leave/service.ts`, and the employment half of
`modules/employees/service.ts`, for one employee.

| TLA+ | code |
|---|---|
| `emp`, `type` | `Employment` rows, `Employee.employmentType` |
| `granted`, `spent` | `LeaveAccrual` rows as `<<employment, month>>`, those consumed |
| `ReadEmployments`, `ReadRows`, `Mint` | `ensureAccrualsUpToDate`: the query, the rows of one employment, its `createMany` with `skipDuplicates` |
| `StartSubmit`, `PlanSubmit`, `CommitSubmit` | `submitLeave` before, under and after its `FOR UPDATE` on `Employee` |
| `StartCancel`, `PlanCancel`, `CommitCancel` | `cancelLeave`, `refundPaidLeave` and the guarded decrements |
| `StartTerminate`, `PlanTerminate`, `CommitTerminate` | `terminateEmployee`, with the rows after the end removed and the balance frozen |
| `StartRehire`, `Rehire`, `StartUpdate`, `Update` | `rehireEmployee`, `updateEmployee`: what is read before the lock travels in `tx` |
| `Tick` | the date |

An accrual row is worth one day and is free or spent; fractional entitlements are
not needed to tell the properties apart. `drew` and `stale` are history: `drew` is
read by `NeverInvents` only; `stale` collects the employments whose anchor was
decided by a rehire that had read another type, or that an edit passed by because
it had read an earlier employment (`modules/employees/service.ts:343`, `:199`).
`AccruesByType` says that nothing else can leave a full-timer without an anchor or
a part-timer with one.

### Inbox

`modules/notifications/emit.ts`, `service.ts`, `lib/contractReminders.ts`,
`middleware/upload.ts`, `errorHandler.ts`, the creating, reviewing and
withdrawing handlers once more, from the side of what they tell and store, and
activation in `modules/users/service.ts`.

A request chooses its kind when it is filed. `ReadHr` is `emitToHr`'s query of
active accounts, an action of its own because an account may be deactivated
before the rows are inserted. `Resolve` is `resolveGroup` as one statement pair;
`terminateEmployee` calls it statement by statement (`StartTerminate`,
`ReadUnread`, `CommitTerminate`) because reminders may be read or inserted in
between. `Unlink` is the removal of evidence after COMMIT, `Restart` stops every
handler wherever it is, `Fail` is an error answered by the handler, which
discards the upload.

### Payslip

`lib/payroll.ts`, `lib/workingDays.ts`, `lib/employment.ts`, `computeRows` of
`modules/payroll/service.ts`, and the handlers that write what these read, for one
employee. Here a handler that commits is one action: interleavings belong to the
other modules, and what is at stake is the row after any *sequence* of handlers. It
is a state machine rather than a table of inputs because the guarantees of the
arithmetic rest on what the handlers refuse: `prorateMonth` says itself that it
would count a day twice if employments overlapped, and nothing in the database
keeps two closed ones apart.

| TLA+ | code |
|---|---|
| `Weekdays`, `WorkingDays`, `HolidaysOnWeekdays`, ... | the counting loops of `workingDays.ts`, as sets of days |
| `SumOver` | the loops that add up a count over a list of ranges: the cardinality of a set of pairs of range and day, so a day in two ranges counts twice, as in the code |
| `EmploymentSegments`, `ClipRangeToEmployments`, `ProrateMonth` | their namesakes in `employment.ts` |
| `EmploymentsIn`, `EntriesIn`, `LeavesIn` | what `computeRows` selects and clips |
| `ComputeAttendance`, `ComputeFullTime`, `ComputePartTime`, `ComputeRow`, `SplitLeaveDeduction` | `computeAttendance`, the branches and the total of `computePayslipRow`, `splitLeaveDeduction` |
| `CreateEmployee`, ..., `DeleteHoliday` | the handlers, with the checks that decide what rows there can be |

`Review` and `Withdraw` stand for both kinds of claim; `Withdraw` also for the
deletion of a daily log. "Today" is left out: where a handler compares with it, any
day may be today, so there are more histories than in the code. Money is in whole
units and a quotient is kept as numerator and denominator until `Math.round`. The
properties speak of days (`DaysToWork`, `Employed`, `OnLeave`) and use none of the
code's segments and sums.

### PayslipPrint

Extends `Payslip` with what happens to a row afterwards: `FinalizePeriod` stores a
`Snapshot` of it, `RecordsKept` says which records of a finalized period may no
longer change, and what is printed later is a function of the stored row
(`lib/pdf/payslip.ts`, `lib/pdf/payrollSheet.ts`, `lib/csv/payoutCsv.ts`,
`src/client/src/pages/payroll/PayslipBreakdown.tsx`) and of the one thing that is
not stored, the employment type of today. A document is the set of its lines of
money and the row of its counts. `PrintsAddUp` is about documents printed under the
type they were finalized with; `ReprintsAddUp` drops that condition and fails.

### Accounts

`modules/users/service.ts`, `modules/auth/service.ts`, `middleware/auth.ts`,
`src/docker-entrypoint.sh`, `src/server/prisma/seed.ts` and `bootstrap.ts`.

| TLA+ | code |
|---|---|
| `roles`, `acct`, `last` | `Role` and `User` rows; the status of each employee's latest employment |
| `token` | accounts somebody holds an unexpired token of; nothing but `Expire` takes one away |
| `Start`, `SeedCheck`, `Wipe`, `SeedRoles`, ..., `BootstrapAccount`, `Stop` | the scripts of the container, a statement at a time; `Stop` is a crash or an `exit 1` anywhere |
| `StartLogin`, `FinishLogin` | `login` before and after the comparison of the password |
| `Admit` and `StartPassword`, `StartCreate`, `StartUpdate`, `StartTerminate`, `StartRehire` | `verifyAndAttach` and `requireRole`, then the request under way |
| `ChangePassword`, `CreateUser`, `UpdateUser`, `TerminateEmployee`, `RehireEmployee`, `Fail` | the write each of them ends in |
| `LastDayPasses` | midnight after the last day of somebody under notice |

`steady` and `raced` are history. `raced` marks the one way to lose the last HR
account, a deactivation that is under way while its author is deactivated; the
handbook admits that the guard is not complete
(`src/handbook/auth-and-roles.md:136-137`).

### Client

`src/client/src`: `App.tsx`, `lib/AuthContext.tsx`, `lib/guards.tsx`, the hooks of
`api/`, the layout and every page, as one browser tab. The first half of the module is
tables taken from the code: which tables of the database a query reads and a mutation
writes (`Reads`, `Writes`), which queries a page mounts and which mutations it offers
(one definition per page, form and drawer), where a path leads (`EveryRoute`,
`HrRoute`, `EmployeeRoute`, `Screen`, `Target`), what each mutation invalidates
(`EmployeesApi`, ..., `Invalidates`) and whether it waits for the refetch (`Awaited`).
The second half is the session and the cache.

| TLA+ | code |
|---|---|
| `token`, `user`, `loading`, `page` | `localStorage.token`, `AuthContext`, the path |
| `cache`, `flight`, `old` | the data of the followed query, its fetch under way, whether the last one failed |
| `Login`, `Logout`, `Restore`, `RestoreFails` | `AuthContext`; `Logout` leaves the cache and the fetch under way, which the history `orphan` marks |
| `Unauthorized`, `Refused`, `CallRefused`, `Reload` | the response interceptor of `api/client.ts` |
| `Arrive`, `Navigate`, `Poll`, `Focus`, `Sync` | mounting, the bell, the 30-second interval, window focus, the refresh buttons |
| `Send`, `Commit`, `Settle`, `Finish` | `mutateAsync`: sent, committed by the server, `onSuccess`, the form closes |
| `SomeoneElse`, `EndAccess` | other users; deactivation or termination of an account |

Queries do not influence one another, so a behaviour follows one of the nineteen,
chosen in `Init`, and what it shows is a version: the number of committed changes to
the tables it reads. The query library is not in the repository; it is modelled from
how `src/` uses it, with the defaults `main.tsx:10` leaves it, and its definitions
are marked external in `map`.

### MC modules

`MCPeriodLock`, `MCLeaveLedger`, `MCInbox`, `MCPayslip`, `MCAccounts` and `MCClient`
extend the specification with the values a `.cfg` cannot write down and with the
symmetry sets. All but `MCInbox` also bound the behaviours, by a state constraint
(`OneThing`, `OneOfTwo`) or in the next-state relation, as said under [runs](#runs).
Sessions, periods, employments, leaves and HR accounts are interchangeable: no
definition compares or orders them, and `CHOOSE` over them is determined by their rows
except where the code, too, takes whichever row comes first. No run with a liveness
property uses symmetry.

The definitions marked *Wrong version* are mutations of the definition below
them. Nothing uses them; substituted for it, each makes the property it is paired
with in `PROJECT.json` fail in the run of that property.

## Runs

`tlc -config <name>.cfg <module>`; each takes two to three minutes at most, with two
workers.

| run | module | shows | bounds |
|---|---|---|---|
| `period_lock` | MCPeriodLock | with periods created, moved and deleted at any time: `TypeOK`, `NoDayPaidTwice`, `PayslipsMatchPeriod`, `LateWritesRaced`, `DecisionsFinal` | 2 days, 2 periods, a log or a claim, 2 rates, 2 sessions, `OneThing`; 134,000 states |
| `period_steady` | MCPeriodLock | ranges fixed: `SnapshotExact`, `ImplementsLedger`, `TransactionsEnd` | 2 days, 1 period, a log and a leave of one employee, 3 sessions; 40,000 states |
| `period_phantom` | MCPeriodLock | `SnapshotExact` violated once periods can be replanned | 1 period, a log and a claim |
| `leave_ledger` | MCLeaveLedger | `TypeOK`, `NoDoubleBooking`, `LeavePaidFor` | 3 days, months of one day that live 2 months, 2 employments, 2 leaves, 2 sessions, `OneOfTwo`; 1,023,000 states |
| `employment` | MCLeaveLedger | `EmploymentsApart`, `AccruesByType`, `TerminationFinal` | 3 days in one month, 2 employments, a join date and an anchor to enter, 2 sessions; 1,800,000 states |
| `leave_refund` | MCLeaveLedger | `NeverInvents` violated | months of one day that live 2 months, 2 leaves of a day, 1 session |
| `inbox` | MCInbox | `TypeOK`, `QueueHonest`, `ToldOnce`, `AnnouncedToReaders`, `EvidenceKept`, `OneReminder` | 1 request of any kind, 2 HR accounts, 1 employment, 1 contract end, 2 sessions; 967,000 states |
| `overtime_twice` | MCInbox | `OneOvertimePerDate` violated | 2 requests on a date |
| `payslip` | MCPayslip | `TypeOK`, `NetNeverNegative`, `PaidByTheDay`, `AttendanceHonest`, `ProrationAgrees`, `SplitFair`, `LeaveCountedOnce`, `PaidOnce`, `PrintsAddUp` | 5 days, one of them off, 2 periods; `MaxEmployments` 2; `MaxEntries` 2 leaves, claims, logs and holidays at a time; 179,000 states |
| `payslip_reprint` | MCPayslip | `ReprintsAddUp` violated | `MaxEmployments` and `MaxEntries` 1 |
| `accounts` | MCAccounts | `TypeOK`, `HrRemains`, `SignInWorks`, `AccountsSurvive`, `Recovers` | the HR account of both scripts and another that may be an employee's or HR's, 1 employee, 2 passwords, 2 requests; 535,000 states |
| `client` | MCClient | `TypeOK`, `OwnWritesShown`, `SavedThenShown`, `OthersDataOrphaned`, `BadgeCatchesUp` | an HR and a full-time account, `MaxVersion` = 2 changes, one mutation at a time; 677,000 states |

Why these are enough. Every conflict in the code is between two handlers, at most
one of which is itself a finalization, a termination or a catch-up, so two
sessions run each pair in each order. Two days give disjoint, equal and partly
overlapping ranges and a log something to move between; two periods are needed
for overlaps of periods and for a record leaving one for another. A waiting cycle
of more than two transactions needs two finalizations and two submissions and is
outside these bounds; `WaitsFor` and `DeadlockAbort` look for cycles of two. In
`Inbox` one request meets every handler, and a second is needed only where two
compete for a date. The properties of `inbox` speak of one request or one
employment at a time, and no action writes to two of either.

In `period_lock` two sessions create or patch one period between the check and the
write of another, and finalize both. `OneThing` bounds a behaviour to one of the two
records, which meet nowhere but in the periods, or to no record and one PATCH that
gives a period, planned at the rate 15, another one. In `period_steady` a third
session is what it takes to have two holders of a shared row follow each other past a
finalization that waits. There TLC can use no symmetry, so `MCSteadySpec` gives each
session its part: `s1` serves HR's requests about the period, the others those of the
owners of records; the period, if planned, covers the first day, leave is asked for
that day and the log may be on, or move to, either. The review of claims and the
second rate are left to `period_lock` and the proofs.

In `leave_ledger` a month is a day and a row of the account lives two, so that there are
up to two live rows at a time, one of which has expired when the third is granted. Leave
is asked for the first two days, which takes two rows, and for the third, and both may
stand: a cancellation then frees rows the other leave drew from. `OneOfTwo` lets a
behaviour have a second leave or a second employment (termination, rehire, rows removed
by it), not both. Unpaid leave touches no row; the theorems cover it, and any mixture.

In `payslip` the second day is off, so that the first period has three working days with
a day off between them and a termination and a rehire can meet on, before or after it;
the second period is a single day, which a holiday turns into a month without working
days. The salary is divided by `StandardDays` = 1 instead of 21, and by `StandardHours` =
2 instead of 8: a period of more working days than `StandardDays` is the case in which
leave costs more than the month pays, as 22 or 23 working days are against 21. Three
working days in a period are needed for the case in which the line for unpaid leave is
negative: a sick day and an unpaid day of somebody who was not employed on the third. Two
rows at a time are two leaves in one period, a leave across a holiday, or a claim beside
a leave; no property needs three. Deadlock is checked: there is always something to do.
`MCHandler` leaves out special holidays, which count as a company's, and with two
employments keeps to one other record: the code relates each of them to the employments,
and to one another only in ways that one employment shows. `MCFinalize` finalizes the
longer period, when the employee has a row in it, one employment, every claim decided in
their favour, and either leave alone or one record; `MCConvert` lets only a conversion of
the employee follow: of everything that may happen later, a print reads nothing else.

In `accounts` two requests are a pair of HR accounts deactivating each other, a
sign-in during a change, or a change during another; the container may stop in every
state. Requests are alike, so `MCAsked` gives the next one to a fixed one of those that
are free; passwords matter only to who may sign in, and are set while nothing else is
served. In `client` an HR account and a full-timer see every page; queries, pages and
mutations that the followed query cannot tell apart are represented by one each
(`Shape`, `Part`, `Role` in `MCClient`), mutations that neither touch nor invalidate
it by none, and the access of the HR account ends only before the first change. Nobody
signs in again while a fetch of their own former session is under way, and somebody else's
mutation is over before the next account leaves its first page. Two
changes give an answer that misses one's own change but not an older one, of one's own
or of somebody else; the employee's second change is left out for size, HR's is there.
No property compares more than two versions.

`period_lock` and `period_steady` are separate because they ask different
questions: what holds whatever HR plans, and what holds while periods stay where
they are. A daily log, a claim and a leave are never all in one instance; the
theorems cover any mixture.

## Fairness

Three runs need it. `period_steady` (`Fairness`): weak fairness of `Proceed`: the server
runs a handler it has started, statement by statement. Strong fairness of `Granted`:
PostgreSQL queues the waiters of a row lock, a request's first one included, so a lock
that becomes available again and again is granted; without it other sessions could take
turns for ever. Weak fairness of `DeadlockAbort`: the detector runs after
`deadlock_timeout`. Nothing forces a user to start, or a transaction to time out, so
`TransactionsEnd` owes nothing to `Rollback`. It holds of whoever has sent a request,
waiting for its first lock or further on. One wait is excepted (`Overtaken`), because the
queue does not help there: `FOR SHARE` is granted beside `FOR SHARE`, so mutations that
share a period, one before the other has ended, overtake a finalization, a patch or a
deletion that waits for it; likewise payslip inserts (`FOR KEY SHARE` on the `Employee`)
a leave submission. The property says that only sharing without any gap, for ever, keeps
somebody waiting. It fails if the flip to FINALIZED is sent outside the transaction,
where it waits for the row lock of its own handler (mutant `CommitFinalizeOutside`).

`accounts` (`FairSpec`): weak fairness of `Boot`, the next statement of a container
that is starting, which includes being started again: `Recovers` is about the
restart policy of the container runtime, and holds only if from some time on nothing
stops it. No request is fair.

`client`: weak fairness of `Poll` (the interval of `useUnreadCount` fires while the
badge is mounted, no fetch is under way and the tab is visible), `Serve` and `Receive`
(a server that is up answers a request of an account in good standing) and `Refused`
(and answers the others too). `BadgeCatchesUp` assumes that from some time on the user
stays signed in and does nothing, that the tab is not hidden, where the interval
pauses, and that no answer is lost; somebody else may go on changing things.

## Proofs

Every invariant and action property of the passing runs, and the refinement, is also a
theorem, proved for every value of the constants that satisfies the assumptions named
below; only liveness is left to TLC. Each component has its proofs in a module of
its own, and each rests on an inductive invariant that was model-checked on the
instance of the run before it was proved. `FiniteSums` holds what several of them need
about sums.

### PeriodLock

Everything about `PeriodLock` that the runs check, except liveness, is also proved
for every choice of the constants that satisfies `DateAssumption` (days are
integers), `RecAssumption` (a record has a kind and an owner) and `NoneAssumption`
(`None` is no row, range or statement). No set need be finite, and any number of
periods, records and transactions may be there at once. `PeriodLockProofs` has four
parts:

* **Types and locks.** `TypeOK` is not inductive: a transaction that finalizes
  must also carry a period, a range and a rate, one that writes a record and its
  span, and a row that exists must have a span. `TypeInv` says so. Nor is
  `PayslipsMatchPeriod`: it needs to know that the draft a finalization read is
  still the stored one, because it holds the row FOR UPDATE. `LockInv` says that
  (`FinalizersAlone`), that nobody else holds the row, and the same of a PATCH that has
  been checked and not written (`PlansHeld`). `TypeInv /\ LockInv` is inductive
  (`TypeCorrect`); from it follow `TypesHold` (`[]TypeOK`) and `PayslipsKeepPeriod`
  (`[]PayslipsMatchPeriod`). `DaysPaidOnce` (`[]NoDayPaidTwice`) takes three ranges of
  each period together: the stored ones, which the exclusion constraint keeps apart
  although their check is a statement earlier (`PeriodsDisjoint`: what planning does to
  one period is `Replanned`, and every other step stutters on ranges, `SpansKept`), the
  one a finalization has read, and the one the payslips state; and a period with payslips
  stays finalized (`SlipsClosed`).
* **Records.** `RowInv` is what mutations know of their records: one
  that is being filed is nobody else's, one that is locked has a single holder, the
  span that is cleared is the record's, a claim to be withdrawn is still pending.
  `WriteEffect` sums up all writes by the spans before and after them.
  `DecisionsStand` (`DecisionsFinal`) follows.
* **Late writes.** `SawInv` ties the history `saw` to the locks: a period
  that covered a span when it was SELECTed is held once the span is passed, and is
  a draft as long as it covers the span, because nothing changes a held row. So a
  write into a finalized range comes from a transaction that did not see the
  period there: `LateWritesOnlyRace` (`LateWritesRaced`), with replanning.
* **Snapshots.** Under `SteadySpec` no period comes to cover a span
  later, so a mutation has seen every period that covers what it clears
  (`SeenAll`). With `SawInv` this bars every write from a period that is finalized
  or being finalized (`Barred`), so what its range contains does not change
  (`EntriesFrozen`), neither between the statements of a finalization (`ReadExact`)
  nor after its commit (`SlipsExact`). `SnapshotStaysExact` is
  `SteadySpec => []SnapshotExact`, and `LedgerImplemented` is
  `SteadySpec => ImplementsLedger`: a write maps to `Post`, the commit of a
  finalization to `Close`, every other step to a stutter.

`period_phantom` shows that the hypothesis of the last part, fixed ranges, cannot be
dropped.

### LeaveLedger

For any calendar of natural numbers, requests for any stretch of days, any number of
employments, leaves and sessions (`CalendarAssumption`, `NoneAssumption`):
`LeaveLedgerProofs`.

* `EmpInv` says that the employments are a line: each has ended before the next begins,
  and there is a first and a last one, so that the code's `findFirst` with an
  order finds what it means (`EarliestIsFirst`, `LatestIsLast`). `LockInv` says that one
  request at a time holds the `Employee` row, and that what the holder found under the
  lock still stands: the days are free, the employment is open, the rows are unspent.
  With `TypeInv` and `NoDoubleBooking` this is inductive (`LedgerCorrect`); it gives
  `NeverDoubleBooked`, `EmploymentsStayApart` and `TerminationStands`.
* `AccrualFollowsType` adds that the last employment has an anchor exactly if the type is
  full-time, unless it is in `stale`.
* `LeaveStaysPaidFor` is about a sum that changes by one leave at a time. `Drawn` ties
  a request to the account: a submission about to commit has picked as many rows as
  its leave has days, and a cancellation frees no more rows than its leave has days.
  The rows a request takes are the oldest of those free, in the order of their keys
  (`Ordered`, `FirstOfCounts`).

### Inbox

For any number of requests, HR accounts, employments and handlers, of which accounts,
employments and contract ends are finitely many (`FiniteAssumption`, without which the
count of like notifications that `Fresh` takes means nothing), and names that are told
apart (`AccountAssumption`, `SubjectAssumption`). `TypeOK` is not inductive: `TypeInv`
says which fields each handler has. `HandlerInv` says what a handler knows of the rows
it has read: a request being filed has one creator, a locked one is pending and has
one holder (`Files`), a termination is the only one of its employment and the rows it
has stamped are as it found them (`Terminates`), and nothing a run of the reminders
still misses has been announced (`Reminds`). Together with the promises themselves
this is inductive (`InboxCorrect`). What a step does to the notifications is summed up
by a map from old rows to new ones that only ever sets their flags (`Carries`), so
each promise is checked against what is inserted and what is flagged (`NextQueue`,
`NextTold`, `NextAnnounced`, `NextReminder`). `LockedRowStaysPending` shows that the
status in the guard of a withdrawal's commit never turns away who holds the lock.
`EvidenceStays` has a hypothesis the code does not ensure: that no two uploads are
stored under one name (`middleware/upload.ts:21` takes a millisecond and the name). It
is the hazard of that line, and the theorem says that nothing else can go wrong.

### Payslip

For every calendar, finitely many periods that share no day (`CalendarAssumption`,
`PeriodAssumption`), any salary, rates and divisors (`MoneyAssumption`), a `None` that is
neither a day nor a proration line (`NoneAssumption`), and without the bounds mattering:
any number of employments, leaves, entries and holidays. The first three items are
`PayslipProofs`.

* **Salary and net.** The inductive invariant `PayInv`: rows have their types
  (`TypesHold`), an employment ends no earlier than it starts (`Proper`), any two
  employments, and any two leaves, are apart (`Apart`, `LeavesApart`), a date has one
  holiday (`OneHoliday`), and the tables are finite (`Counted`, without which the
  code's sums mean nothing). Three handlers carry `Apart`: a rehire starts after the
  last end, a corrected join date moves only the first start, and not past its end,
  a termination only the last end. `SegmentsCount` is the lemma the arithmetic
  rests on: because no day has two employments, adding up days of any kind over the
  segments of a period is counting the employed days of that kind; the map from
  pairs of segment and day to days is a bijection. From it `DaysPaidOnce`
  (`[]PaidByTheDay`), where the rounding of a whole share is exact (`WholeShare`).
  `NetHolds` (`[]NetNeverNegative`) needs only that the deduction is capped and that
  everything counted is a natural number.
* **Attendance, deductions, entries.** `LeaveCounts` is the same bijection for leave:
  parts of leaves, clipped to employments and then to the period, against working days
  on leave. With the disjointness of national and company holidays on a weekday it
  gives `AttendanceHolds` (`[]AttendanceHonest`) and `ProrationHolds`
  (`[]ProrationAgrees`). `SplitHolds` is `[]SplitFair`, and `EntriesPaidOnce` is
  `[]PaidOnce`, which also needs that whoever was ever employed has a type
  (`HiredHolds`).
* **Leave across periods.** `LeaveOnceOverPeriods` is `[]LeaveCountedOnce`: the sum of
  `LeaveCounts` over the periods is one cardinality, because no day of leave belongs to
  two of them (`SumCards`).
* **PayslipPrintProofs.** `PrintInv` says what a stored row still knows of its
  computation once employments, leaves and records have changed under it: which amounts
  are zero for its type, that the net is their sum, and how its days make up the period
  (`StoredRowsFine`). What documents add up to is then arithmetic over
  the sections of a document (`PrintsStayHonest`, `[]PrintsAddUp`): a line left out of
  the payslip is the overtime of who was converted, the screen overstates a partial month
  by what was not worked, and the rows left out of the payout file are worth nothing,
  because a net is never negative (`NothingLeftOut`, `PayoutSum`). It needs
  `SalaryWorthDays`: under a monthly salary of a few rupiah the rounding of the sick
  days' share can exceed the whole deduction, and the line for unpaid leave is negative.
  With 21 standard days, 10 sick days and one unpaid, 11 rupiah a month do it; from 315
  on it cannot happen in periods of up to 31 days. The code accepts any salary
  that is not negative (`modules/employees/schemas.ts:29`).

### Accounts

For any accounts, employees, passwords and requests at once, and any demo data with
`AccountAssumption` (`AccountsProofs`). `TypeInv` adds to `TypeOK` that a request
carries what its handler needs (`ReqFine`). `BootInv` ties the step a start has
reached to what is there: the statements after the empty check run over a database
in which only this start has written, so `Wipe` removes nobody (`NobodyLost`,
`AccountsSurvive`). `LoginInv` ties a sign-in under way to the account it read while
nothing changed it (`SignInHolds`, `SignInWorks`). `HrInv` is `HrRemains` with
`UpdateInv`: an HR account's update under way deactivates somebody else, so its
author is the one that remains, unless `raced` (`HrHolds`). `Recovers` rests on
fairness and stays with TLC.

### Client

For any query, any accounts of any kind and any number of changes (`ClientProofs`), with
a `None` that is no account, data, fetch or call (`ClientAssumption`, `NoneAssumption`).
The runs represent like queries and pages by one of them; the theorems are about all.

The tables enter by one lemma, `Offered`: what a page shows and one of its own mutations
writes is among the keys that mutation invalidates, unless the page leaves it alone. It
is checked page by page. `SessionInv` says that whoever is signed in holds the token,
and that a tab restoring its session has sent nothing. `CallInv` says that the page a
mutation was sent from is shown until its user goes away, and that after `onSuccess` its
version is owed if the query is invalidated. `FlightInv` is about the fetch under way:
to a mounted page it brings the signed-in account's data and everything owed, unless it
was joined too late, and in any case everything that was announced; `CacheInv` says the
last of the cache. Both have a part about whose data it is: a fetch under way was sent by
whoever is signed in or is an orphan, left behind by a logout (`SenderKnown`), and what
is at rest was fetched for whoever is signed in or came from an orphan. Neither holds by
itself: an announcement (`Finish`) is true because
nothing is being fetched and the page at rest shows what is owed. Together they are
inductive (`ClientCorrect`), and give `OwnWritesAreShown`, `SavesAreShown` and
`FormerDataGone`. That a cache left behind is never what a page comes to rest on rests on
mounting: it always fetches, and only a fetch already under way can be joined
(`Abandoned`, `JoinedSoon`).

### FiniteSums

`SumOn(f, S)` is the sum the community modules' folds compute, as a function of the
subsets of `S`. The induction theorems of the library take an operator as a parameter,
which the provers cannot instantiate; instead each fact is led to a contradiction by a
smallest subset that violates it (`LeastSubset`: proper inclusion of finite sets is
well-founded): that the function exists, that one element adds its own, that equal functions
have equal sums, and that the cardinalities of disjoint sets add up to that of their
union.

### Left to TLC

Liveness: `TransactionsEnd`, `Recovers` and `BadgeCatchesUp` rest on fairness, and so on
`ENABLED`, which the provers at hand do not treat. The properties that fail are shown by
the counterexamples of their runs.

## Findings

Four places where the code does not do what its comments say. Each is the
counterexample of a run of its own.

1. **The period lock has a phantom** (`period_phantom`). `FOR SHARE` locks the
   period rows that match when it runs. A period created over the date, or
   patched to cover it, afterwards is not locked: it can be finalized and the
   mutation still commits into it. `LateWritesRaced` shows that this is the only
   hole.
2. **A refund can invent a day** (`leave_refund`). When the row a cancelled leave
   drew from has expired and a later leave drew from a live one, the refund frees
   the live one.
3. **Two overtime entries on one date** (`overtime_twice`). Checked by a read,
   enforced by nothing.
4. **A frozen payslip changes** (`payslip_reprint`). Which of the stored amounts
   are printed depends on the employment type of today: after a conversion to
   part-time the overtime line of an old payslip is gone and its lines no longer add
   up to its net.

## Disagreements without a run

Found while modelling, and left without a run of their own: either TLC adds nothing
to reading the lines, or a run would repeat the kind of race another one shows.

* `submitLeave` locks the `Employee` and then the `PayrollPeriod` row,
  `finalizePeriod` the other way round (the payslip's foreign key): one of them is
  aborted with an error where `lib/periodLock.ts:24-25` promises that it waits.
  `PeriodLock` has the cycle and its victim (`DeadlockAbort`); without that action
  `TransactionsEnd` fails.
* The accrual catch-up reads employments outside a transaction: a termination that
  commits meanwhile leaves rows for months after the end (`lib/accrual.ts:102`,
  against `:129-130`). Likewise a reminder catch-up inserts a reminder for an
  employment that was terminated after it was read, which nothing resolves
  (`lib/contractReminders.ts:41`, against `modules/employees/service.ts:314-315`).
  Both interleavings are behaviours of `LeaveLedger` and of `Inbox`.
* The printed payslip never shows a proration, though `lib/payroll.ts:107-111` and
  `src/handbook/domain-rules.md:276-277` say it does, and `domain-rules.md:652` says
  there is no proration rule. The breakdown on the screen starts from the whole
  monthly salary, so that of a partial month does not add up to its total; and HR sees
  it by the type of today, the employee by the stored one.
* `src/handbook/frontend.md:67-68` says that the cache is wiped so that no stale
  authorized data survives the end of a session. The interceptor's reload does that;
  signing out neither clears the cache nor cancels a fetch (`AuthContext.tsx:40`). The
  next account in the tab sees the former one's data until its own has arrived, if
  both have the page. If the former one's fetch is still under way, the page joins it,
  and comes to rest on the former account's data until it is fetched again.
  `OthersDataOrphaned` says that this is the only way; without the exception TLC shows
  it.
* `lib/pdf/payrollSheet.ts:199-201` says that the payout file omits non-positive nets, "so
  summing it would not reach the total above", and `lib/csv/payoutCsv.ts:60-61` names
  somebody whose deductions exceeded their salary. The sum does reach the total: the
  deduction is capped (`lib/payroll.ts:360`), so no net is negative and every row left out
  is worth exactly nothing (the last conjunct of `PrintsAddUp`).
* A finalization can be kept waiting as long as mutations of the month overlap one
  another: it waits for `FOR UPDATE` on the period row they hold `FOR SHARE`
  (`lib/periodLock.ts:32`), and newcomers are let past. `TransactionsEnd` excepts it
  (`Overtaken`). No document promises otherwise.
* A termination invalidates the key `payroll`, which no query has
  (`src/client/src/api/employees.ts:204`, `:221`, against the comment at `:201`). It
  matters only to a preview that is already mounted, since mounting fetches. For the
  same reason the staleness that `src/handbook/known-issues.md:35-41` records is
  narrower than it says, and the dashboard is invalidated by something
  (`api/employees.ts:202`).
* `src/handbook/frontend.md:94` counts two queries that go stale. A third is the
  leave balance in the employee drawer (`EmployeeFormDrawer.tsx:113`): it stays
  mounted for the employee edited last, saving does not invalidate it, and the
  confirmation of a conversion names it as what will be lost. `LeftAlone` excepts it;
  without it TLC finds `OwnWritesShown` violated.
* The edit forms of employees and accounts send the whole record from a cached row,
  so the last writer wins; a 401 that arrives after a new sign-in drops the new
  session's token; any failure to load the account at start-up drops the token.

## What is not modelled

* The conversion of a payslip to dollars, which divides by the rate and rounds,
  and the rounding of floating point below one unit of money. `Payslip` has one
  salary, rate, length of an entry and amount, set by constants; they do not change
  over time, where `updateEmployee` may change them for the next payslip.
* The composition of `PeriodLock` with `Payslip`: which records a finalization saw
  is the one, what they come to is the other, and `PayslipPrint` finalizes in one
  step.
* Documents: layout, wording, the formatting of numbers, the quoting of the payout
  file. The exchange-rate request (`lib/fx.ts`) is one call with a fallback; its
  result is the rate `CreatePeriod` takes.
* The dashboard keeps no state. The tables its two queries read are in `Client`;
  what it counts is not.
* A COMMIT whose outcome the server does not learn; two uploads stored under one
  name in the same millisecond. They are listed as hazards. Holidays that change
  under the stored length of a leave: payroll does not read the length, but `cancelLeave`
  refunds it (`modules/leave/service.ts:338`), which is the number of days that were
  taken from the account; that the two are one number is how `LeaveLedger` has it.
* Of the sample data of the seed, everything but the accounts, of which the next
  start takes no notice. `src/scripts/demo-data.ts` is a client of the HTTP API that
  sends one request after the other.
* In the client: what is typed into forms and kept there while rows are fetched
  again, filters and pagination, files that are downloaded, two tabs that share a
  token, more than one mutation at a time, and HR accounts with an employee profile.

## Plan

In order; the first ten are done.

1. `FrozenLedger`, `PeriodLock`, the proofs of its invariants and the refinement.
2. `LeaveLedger`: the account and the employments.
3. `Inbox`: requests, notifications, reminders, evidence.
4. The violation runs behind the findings.
5. `Payslip`: the arithmetic over the histories that lead to it, with proofs.
6. `Accounts`: sign-in, tokens, deactivation, termination, seed and bootstrap, with
   proofs.
7. `PayslipPrint`: what is stored and printed. `Client`: which cached answers survive
   what.
8. Stale reads in `LeaveLedger`: the anchor after a conversion that races a rehire.
9. Proofs of all that the runs check of `LeaveLedger`, `Inbox`, `PayslipPrint` and
   `Client`, but for liveness, and of the sum over periods.
10. Requests that wait for their first row lock, and the gap between the check and the
    write of a planned range, in `PeriodLock`; whose fetch a page joined, in `Client`.
11. Proofs of what holds where a finding's property fails: a refund invents a day only if
    a row of the cancelled leave has expired; a second overtime entry on a date was filed
    while the first one was.
