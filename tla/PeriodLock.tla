----------------------------- MODULE PeriodLock -----------------------------
(***************************************************************************)
(* The payroll period lock: how a change to a dated source record and the  *)
(* finalization of the payroll period covering its date exclude each other *)
(* under PostgreSQL's READ COMMITTED isolation.                            *)
(*                                                                         *)
(* A source mutation is a transaction that SELECTs the period rows its     *)
(* dates fall in FOR SHARE, refuses if one is FINALIZED, then writes       *)
(* (lib/periodLock.ts and its callers).  finalizePeriod locks the period   *)
(* row FOR UPDATE, reads each table of source records with a statement of  *)
(* its own, inserts the payslips and flips the status.                     *)
(*                                                                         *)
(* One statement of a transaction is one action; a write and the COMMIT    *)
(* behind it are one action, since no other transaction sees the write     *)
(* before.  A row lock that cannot be granted is a disabled action; a      *)
(* request whose first statement is such a lock stands in ask until it is  *)
(* granted.  createPeriod and patchPeriod check the ranges of the other    *)
(* periods in one statement and write in another.  The other checks of a   *)
(* mutation (duplicates, employment, balance) belong to other modules;     *)
(* here their failure is a Rollback.                                       *)
(***************************************************************************)
EXTENDS Integers

CONSTANTS
    Date,       \* calendar days, as integers
    Period,     \* identities of PayrollPeriod rows
    Rec,        \* identities of source record rows
    Employee,
    Rate,       \* exchange rates
    Session,    \* database transactions that may be open at once
    KindOf,     \* Rec -> the table of the record
    OwnerOf,    \* Rec -> its employee
    None        \* no row

\* Overtime and reimbursements are claims, decided by HR; daily logs and leave
\* count as soon as they are recorded.
Kind == {"claim", "log", "leave"}

ASSUME DateAssumption == Date \subseteq Int
ASSUME RecAssumption ==
    /\ KindOf \in [Rec -> Kind]
    /\ OwnerOf \in [Rec -> Employee]

VARIABLES
    period,     \* PayrollPeriod rows
    slips,      \* what the Payslip rows of a period state
    row,        \* source record rows
    tx,         \* open transactions of mutations and finalizations
    ask         \* requests that wait for their first row lock, or plan a period

vars == <<period, slips, row, tx, ask>>

\* A range of days; a record other than leave has a single day.
Span == {sp \in Date \X Date : sp[1] <= sp[2]}

Overlaps(a, b) == a[1] <= b[2] /\ b[1] <= a[2]

PeriodStatus == {"none", "DRAFT", "FINALIZED", "gone"}
RowStatus == {"none", "PENDING", "APPROVED", "REJECTED", "RECORDED", "gone"}

PeriodRow == [status : PeriodStatus, span : Span \cup {None}, rate : Rate \cup {None}]
SourceRow == [status : RowStatus, span : Span \cup {None}]
Entries == SUBSET (Rec \X Span)
Statement == [span : Span, rate : Rate, entries : Entries]

ASSUME NoneAssumption == None \notin Rec \cup Period \cup Span /\ None \notin Statement

LivePeriod(p) == period[p].status \in {"DRAFT", "FINALIZED"}
LiveRow(r) == row[r].status \notin {"none", "gone"}

(***************************************************************************)
(* A transaction: op is its handler and pc the statement it is at.  A      *)
(* mutation carries its record, the spans it has to clear (old, then new   *)
(* if they differ; cur is the one being cleared), the result rows of the   *)
(* running SELECT it has yet to lock (todo) and the period rows it holds   *)
(* FOR SHARE.  saw is history: which periods covered which of its spans    *)
(* when it SELECTed them.  A finalization carries its period, the range    *)
(* (cur) and rate it found there, the tables it has read, the entries they *)
(* gave and the employees paid so far.                                     *)
(***************************************************************************)
Idle ==
    [op |-> "none", pc |-> "idle", rec |-> None, per |-> None,
     old |-> None, new |-> None, cur |-> None,
     todo |-> {}, held |-> {}, saw |-> {},
     rate |-> None, read |-> {}, entries |-> {}, paid |-> {}]

Transaction ==
    [op : {"none", "file", "review", "move", "remove", "finalize"},
     pc : {"idle", "select", "lock", "write", "read", "insert"},
     rec : Rec \cup {None}, per : Period \cup {None},
     old : Span \cup {None}, new : Span \cup {None}, cur : Span \cup {None},
     todo : SUBSET Period, held : SUBSET Period, saw : SUBSET (Span \X Period),
     rate : Rate \cup {None},
     read : SUBSET Kind, entries : Entries, paid : SUBSET Employee]

(***************************************************************************)
(* What a session is asked to do, before it holds a lock: the record or    *)
(* the period, the new span or range (None: the range stays) and the rate. *)
(* A plan at step "write" has been checked against the other periods; that *)
(* of a PATCH holds its period row.                                        *)
(***************************************************************************)
Ask ==
    [op : {"none", "file", "move", "remove", "finalize", "create", "patch", "delete"},
     step : {"wait", "write"},
     rec : Rec \cup {None}, per : Period \cup {None},
     new : Span \cup {None}, rate : Rate \cup {None}]

NoAsk == [op |-> "none", step |-> "wait", rec |-> None, per |-> None,
          new |-> None, rate |-> None]

OfRecord(op, r, sp) == [NoAsk EXCEPT !.op = op, !.rec = r, !.new = sp]
OfPeriod(op, p) == [NoAsk EXCEPT !.op = op, !.per = p]
Plan(op, step, p, sp, rt) ==
    [op |-> op, step |-> step, rec |-> None, per |-> p, new |-> sp, rate |-> rt]

TypeOK ==
    /\ period \in [Period -> PeriodRow]
    /\ slips \in [Period -> Statement \cup {None}]
    /\ row \in [Rec -> SourceRow]
    /\ tx \in [Session -> Transaction]
    /\ ask \in [Session -> Ask]

\* The exclusion constraint of the PayrollPeriod table.
Disjoint ==
    \A p, q \in Period :
       p # q /\ LivePeriod(p) /\ LivePeriod(q)
          => ~Overlaps(period[p].span, period[q].span)

NoPeriod == [status |-> "none", span |-> None, rate |-> None]
Drafts == [status : {"DRAFT"}, span : Span, rate : Rate]

\* HR has planned some periods, and nothing has been filed yet.
Init ==
    /\ period \in [Period -> {NoPeriod} \cup Drafts]
    /\ Disjoint
    /\ slips = [p \in Period |-> None]
    /\ row = [r \in Rec |-> [status |-> "none", span |-> None]]
    /\ tx = [s \in Session |-> Idle]
    /\ ask = [s \in Session |-> NoAsk]

-----------------------------------------------------------------------------
(* Row locks.  They are held from the statement that takes them to the end *)
(* of the transaction, so the transactions themselves are the lock table.  *)

\* Transactions holding the period row FOR UPDATE, and FOR SHARE.
Finalizing(p) == {s \in Session : tx[s].op = "finalize" /\ tx[s].per = p}
Patching(p) == {s \in Session : ask[s].step = "write" /\ ask[s].per = p}
Sharing(p) == {s \in Session : p \in tx[s].held}

\* Wrong versions: a mutation that does not wait for a finalization, and row
\* locks taken without looking at one half of the conflicts.
CanShareUnlocked(s, p) == TRUE
CanUpdateUnshared(p) == Finalizing(p) = {} /\ Patching(p) = {}
CanUpdateUnlocked(p) == Sharing(p) = {}

CanShare(s, p) == Finalizing(p) \subseteq {s} /\ Patching(p) = {}
CanUpdate(p) == Finalizing(p) = {} /\ Patching(p) = {} /\ Sharing(p) = {}

\* Transactions holding the source row FOR UPDATE: cancelOvertime,
\* cancelReimbursement, updateDailyLog and deleteDailyLog take that lock first.
Holding(r) ==
    {s \in Session : /\ tx[s].rec = r
                     /\ \/ tx[s].op = "move"
                        \/ tx[s].op = "remove" /\ KindOf[r] # "leave"}

\* Transactions holding the Employee row: submitLeave FOR UPDATE, and an
\* inserted payslip FOR KEY SHARE through its foreign key.
Submitting(e) ==
    {s \in Session : /\ tx[s].op = "file"
                     /\ KindOf[tx[s].rec] = "leave"
                     /\ OwnerOf[tx[s].rec] = e}
Paying(e) == {s \in Session : e \in tx[s].paid}

-----------------------------------------------------------------------------
(* Requests *)

\* The session serves nobody.
Free(s) == tx[s] = Idle /\ ask[s] = NoAsk

\* The first statement of a request runs: at once, or when the lock it has
\* been waiting for is granted.
Arrives(s, x, waits) ==
    /\ tx[s] = Idle
    /\ ask[s] = IF waits THEN x ELSE NoAsk
    /\ ask' = [ask EXCEPT ![s] = NoAsk]

Asks(s, x) ==
    /\ Free(s)
    /\ ask' = [ask EXCEPT ![s] = x]
    /\ UNCHANGED <<period, slips, row, tx>>

\* A row that does not exist yet is nobody else's.
Fresh(r) ==
    /\ row[r].status = "none"
    /\ \A t \in Session : tx[t].rec # r

\* SELECT ... FOR UPDATE is sent: of the employee by submitLeave, ...
AskLeave(s, r, sp) ==
    /\ KindOf[r] = "leave" /\ Fresh(r)
    /\ \A t \in Session : ask[t].rec # r
    /\ Asks(s, OfRecord("file", r, sp))

\* ... of the record by updateDailyLog, ...
AskMove(s, r, sp) ==
    /\ KindOf[r] = "log" /\ row[r].status # "none"
    /\ sp[1] = sp[2]
    /\ Asks(s, OfRecord("move", r, sp))

\* ... cancelOvertime, cancelReimbursement and deleteDailyLog, ...
AskRemove(s, r) ==
    /\ KindOf[r] # "leave" /\ row[r].status # "none"
    /\ Asks(s, OfRecord("remove", r, None))

\* ... of the period by finalizePeriod and deletePeriod, ...
AskPeriod(s, op, p) ==
    /\ period[p].status # "none"
    /\ Asks(s, OfPeriod(op, p))

\* ... and patchPeriod.
AskPatch(s, p, sp, rt) ==
    /\ period[p].status # "none"
    /\ Asks(s, Plan("patch", "wait", p, sp, rt))

-----------------------------------------------------------------------------
(* Source mutations *)

\* A mutation of r opens, clearing the spans sp and then sq.
Begin(s, op, r, sp, sq) ==
    tx' = [tx EXCEPT ![s] =
             [Idle EXCEPT !.op = op, !.pc = "select", !.rec = r,
                          !.old = sp, !.new = sq, !.cur = sp]]

\* createOvertime, createReimbursement, createDailyLog; submitLeave, once it has
\* the Employee row.
StartFile(s, r, sp) ==
    /\ Arrives(s, OfRecord("file", r, sp), KindOf[r] = "leave")
    /\ Fresh(r)
    /\ KindOf[r] # "leave" => sp[1] = sp[2]
    /\ KindOf[r] = "leave" => /\ Submitting(OwnerOf[r]) = {}
                              /\ Paying(OwnerOf[r]) = {}
    /\ Begin(s, "file", r, sp, sp)
    /\ UNCHANGED <<period, slips, row>>

\* reviewOvertime, reviewReimbursement: a plain read of a pending claim.
StartReview(s, r) ==
    /\ Free(s)
    /\ KindOf[r] = "claim" /\ row[r].status = "PENDING"
    /\ Begin(s, "review", r, row[r].span, row[r].span)
    /\ UNCHANGED <<period, slips, row, ask>>

\* updateDailyLog has locked and read the row; it goes on to clear both dates.
StartMove(s, r, sp) ==
    /\ Arrives(s, OfRecord("move", r, sp), TRUE)
    /\ KindOf[r] = "log" /\ LiveRow(r) /\ Holding(r) = {}
    /\ sp[1] = sp[2]
    /\ Begin(s, "move", r, row[r].span, sp)
    /\ UNCHANGED <<period, slips, row>>

\* The row as cancelOvertime, cancelReimbursement and deleteDailyLog find it.
Removable(r) == LiveRow(r) /\ (KindOf[r] = "claim" => row[r].status = "PENDING")

\* They have locked and read the row; cancelLeave reads it without a lock,
\* before its transaction starts.
StartRemove(s, r) ==
    /\ Arrives(s, OfRecord("remove", r, None), KindOf[r] # "leave")
    /\ Removable(r)
    /\ KindOf[r] # "leave" => Holding(r) = {}
    /\ Begin(s, "remove", r, row[r].span, row[r].span)
    /\ UNCHANGED <<period, slips, row>>

\* Wrong version: only the finalized rows are selected, so a draft is not locked.
MatchingFinalized(sp) ==
    {p \in Period : period[p].status = "FINALIZED" /\ Overlaps(period[p].span, sp)}

\* The rows assertPeriodRangeEditable selects for the span.
Matching(sp) == {p \in Period : LivePeriod(p) /\ Overlaps(period[p].span, sp)}

\* The same set, for the history variable saw: what a complete check would find.
Covering(sp) == {p \in Period : LivePeriod(p) /\ Overlaps(period[p].span, sp)}

\* SELECT ... FOR SHARE takes its snapshot of the period rows.
Select(s) ==
    /\ tx[s].pc = "select"
    /\ tx' = [tx EXCEPT ![s].pc = "lock",
                        ![s].todo = Matching(tx[s].cur),
                        ![s].saw = @ \cup ({tx[s].cur} \X Covering(tx[s].cur))]
    /\ UNCHANGED <<period, slips, row, ask>>

\* It locks the latest version of one of them; a deleted row is skipped.
LockNext(s, p) ==
    /\ tx[s].pc = "lock" /\ p \in tx[s].todo
    /\ CanShare(s, p)
    /\ tx' = [tx EXCEPT ![s].todo = @ \ {p},
                        ![s].held = IF LivePeriod(p) THEN @ \cup {p} ELSE @]
    /\ UNCHANGED <<period, slips, row, ask>>

\* The locked rows that still match, as the WHERE clause is evaluated again.
Refusing(s) ==
    {p \in tx[s].held : /\ period[p].status = "FINALIZED"
                        /\ Overlaps(period[p].span, tx[s].cur)}

\* No selected row is FINALIZED: clear the other span, or go on to the write.
Cleared(s) ==
    /\ tx[s].pc = "lock" /\ tx[s].todo = {}
    /\ Refusing(s) = {}
    /\ tx' = IF tx[s].cur = tx[s].new
             THEN [tx EXCEPT ![s].pc = "write"]
             ELSE [tx EXCEPT ![s].pc = "select", ![s].cur = tx[s].new]
    /\ UNCHANGED <<period, slips, row, ask>>

\* Payroll period ... is finalized: 409, and the transaction rolls back.
Refused(s) ==
    /\ tx[s].pc = "lock" /\ tx[s].todo = {}
    /\ Refusing(s) # {}
    /\ tx' = [tx EXCEPT ![s] = Idle]
    /\ UNCHANGED <<period, slips, row, ask>>

\* The write of row r and the COMMIT behind it.
Commit(s, r, new) ==
    /\ row' = [row EXCEPT ![r] = new]
    /\ tx' = [tx EXCEPT ![s] = Idle]
    /\ UNCHANGED <<period, slips, ask>>

\* The insert waits for whoever holds its employee's row (foreign key).
File(s) ==
    LET r == tx[s].rec IN
    /\ tx[s].pc = "write" /\ tx[s].op = "file"
    /\ Submitting(OwnerOf[r]) \subseteq {s}
    /\ Commit(s, r, [status |-> IF KindOf[r] = "claim" THEN "PENDING" ELSE "RECORDED",
                     span |-> tx[s].new])

\* Wrong version: the claim read before the transaction is trusted.
ReviewUnconditional(s) ==
    LET r == tx[s].rec IN
    /\ tx[s].pc = "write" /\ tx[s].op = "review"
    /\ Holding(r) = {} /\ LiveRow(r)
    /\ \E status \in {"APPROVED", "REJECTED"} :
          Commit(s, r, [row[r] EXCEPT !.status = status])

\* UPDATE ... WHERE status = 'PENDING', waiting for a cancellation of the row.
Review(s) ==
    LET r == tx[s].rec IN
    /\ tx[s].pc = "write" /\ tx[s].op = "review"
    /\ Holding(r) = {} /\ row[r].status = "PENDING"
    /\ \E status \in {"APPROVED", "REJECTED"} :
          Commit(s, r, [row[r] EXCEPT !.status = status])

Move(s) ==
    LET r == tx[s].rec IN
    /\ tx[s].pc = "write" /\ tx[s].op = "move"
    /\ Commit(s, r, [row[r] EXCEPT !.span = tx[s].new])

Remove(s) ==
    LET r == tx[s].rec IN
    /\ tx[s].pc = "write" /\ tx[s].op = "remove"
    /\ LiveRow(r)
    /\ Commit(s, r, [status |-> "gone", span |-> None])

\* Somebody else decided the claim, or cancelled the leave, first: the update
\* claims no row, the delete finds none, and the transaction rolls back.
LostRace(s) ==
    LET r == tx[s].rec IN
    /\ tx[s].pc = "write"
    /\ \/ tx[s].op = "review" /\ Holding(r) = {} /\ row[r].status # "PENDING"
       \/ tx[s].op = "remove" /\ ~LiveRow(r)
    /\ tx' = [tx EXCEPT ![s] = Idle]
    /\ UNCHANGED <<period, slips, row, ask>>

-----------------------------------------------------------------------------
(* Payroll periods *)

\* finalizePeriod locks the period row and finds it a draft.
StartFinalize(s, p) ==
    /\ Arrives(s, OfPeriod("finalize", p), TRUE)
    /\ CanUpdate(p)
    /\ period[p].status = "DRAFT"
    /\ tx' = [tx EXCEPT ![s] = 
             [Idle EXCEPT !.op = "finalize", !.pc = "read", !.per = p,
                          !.cur = period[p].span, !.rate = period[p].rate]]
    /\ UNCHANGED <<period, slips, row>>

\* The entries one of computeRows' statements returns for the range sp.
Due(sp, k) ==
    {<<r, row[r].span>> : r \in
        {q \in Rec : /\ KindOf[q] = k
                     /\ row[q].status \in {"APPROVED", "RECORDED"}
                     /\ Overlaps(row[q].span, sp)}}

ReadTable(s, k) ==
    /\ tx[s].pc = "read" /\ k \notin tx[s].read
    /\ tx' = [tx EXCEPT ![s].read = @ \cup {k},
                        ![s].entries = @ \cup Due(tx[s].cur, k),
                        ![s].pc = IF tx[s].read \cup {k} = Kind THEN "insert" ELSE "read"]
    /\ UNCHANGED <<period, slips, row, ask>>

\* The payslip of e: its foreign key waits for whoever holds the employee row.
InsertSlip(s, e) ==
    /\ tx[s].pc = "insert" /\ e \notin tx[s].paid
    /\ Submitting(e) = {}
    /\ tx' = [tx EXCEPT ![s].paid = @ \cup {e}]
    /\ UNCHANGED <<period, slips, row, ask>>

\* Wrong version: the status is flipped by a statement outside the transaction,
\* which waits for the row lock of the transaction it was sent from.
CommitFinalizeOutside(s) ==
    LET p == tx[s].per IN
    /\ tx[s].pc = "insert" /\ tx[s].paid = Employee
    /\ Finalizing(p) = {}
    /\ period' = [period EXCEPT ![p].status = "FINALIZED"]
    /\ slips' = [slips EXCEPT ![p] = [span |-> tx[s].cur,
                                      rate |-> tx[s].rate,
                                      entries |-> tx[s].entries]]
    /\ tx' = [tx EXCEPT ![s] = Idle]
    /\ UNCHANGED <<row, ask>>

CommitFinalize(s) ==
    LET p == tx[s].per IN
    /\ tx[s].pc = "insert" /\ tx[s].paid = Employee
    /\ period' = [period EXCEPT ![p].status = "FINALIZED"]
    /\ slips' = [slips EXCEPT ![p] = [span |-> tx[s].cur,
                                      rate |-> tx[s].rate,
                                      entries |-> tx[s].entries]]
    /\ tx' = [tx EXCEPT ![s] = Idle]
    /\ UNCHANGED <<row, ask>>

\* No other period's range meets sp (None: the range is not given).
Fits(p, sp) ==
    sp # None => \A q \in Period \ {p} : LivePeriod(q) => ~Overlaps(period[q].span, sp)

\* The request ends.
Done(s) == ask' = [ask EXCEPT ![s] = NoAsk]

\* createPeriod finds no overlapping period.
CheckCreate(s, sp, rt) ==
    /\ Free(s)
    /\ Fits(None, sp)
    /\ ask' = [ask EXCEPT ![s] = Plan("create", "write", None, sp, rt)]
    /\ UNCHANGED <<period, slips, row, tx>>

\* Wrong version: the check is trusted, and no constraint stands behind it.
CreatePeriodTrusting(s, p, sp, rt) ==
    /\ ask[s] = Plan("create", "write", None, sp, rt)
    /\ period[p].status = "none"
    /\ period' = [period EXCEPT ![p] = [status |-> "DRAFT", span |-> sp, rate |-> rt]]
    /\ Done(s)
    /\ UNCHANGED <<slips, row, tx>>

\* Its INSERT, which the table's exclusion constraint lets through.
CreatePeriod(s, p, sp, rt) ==
    /\ ask[s] = Plan("create", "write", None, sp, rt)
    /\ period[p].status = "none"
    /\ Fits(p, sp)
    /\ period' = [period EXCEPT ![p] = [status |-> "DRAFT", span |-> sp, rate |-> rt]]
    /\ Done(s)
    /\ UNCHANGED <<slips, row, tx>>

\* patchPeriod locks the row, finds a draft, and the new range free.
CheckPatch(s, p, sp, rt) ==
    /\ ask[s] = Plan("patch", "wait", p, sp, rt)
    /\ CanUpdate(p)
    /\ period[p].status = "DRAFT"
    /\ Fits(p, sp)
    /\ ask' = [ask EXCEPT ![s].step = "write"]
    /\ UNCHANGED <<period, slips, row, tx>>

\* Wrong version: the new range is stored as given, last day first or not.
PatchPeriodUnordered(s, p, sp, rt) ==
    /\ ask[s] = Plan("patch", "write", p, sp, rt)
    /\ Fits(p, sp)
    /\ period' = [period EXCEPT ![p].span = IF sp = None THEN @ ELSE <<sp[2], sp[1]>>,
                                ![p].rate = rt]
    /\ Done(s)
    /\ UNCHANGED <<slips, row, tx>>

\* Its UPDATE: a new rate, and the new range if one is given.
PatchPeriod(s, p, sp, rt) ==
    /\ ask[s] = Plan("patch", "write", p, sp, rt)
    /\ Fits(p, sp)
    /\ period' = [period EXCEPT ![p].span = IF sp = None THEN @ ELSE sp, ![p].rate = rt]
    /\ Done(s)
    /\ UNCHANGED <<slips, row, tx>>

\* deletePeriod locks the row, finds a draft, and deletes it.
DeletePeriod(s, p) ==
    /\ ask[s] = OfPeriod("delete", p)
    /\ CanUpdate(p)
    /\ period[p].status = "DRAFT"
    /\ period' = [period EXCEPT ![p] = [status |-> "gone", span |-> None, rate |-> None]]
    /\ Done(s)
    /\ UNCHANGED <<slips, row, tx>>

\* The lock is granted, and what the request is about is gone or decided; or
\* somebody else's period is in the way of a plan, checked or not.
Vain(s) ==
    \/ /\ ask[s].op \in {"move", "remove"}
       /\ Holding(ask[s].rec) = {} /\ ~Removable(ask[s].rec)
    \/ /\ ask[s].op \in {"finalize", "delete", "patch"} /\ ask[s].step = "wait"
       /\ CanUpdate(ask[s].per)
       /\ period[ask[s].per].status # "DRAFT" \/ ~Fits(ask[s].per, ask[s].new)
    \/ ask[s].step = "write" /\ ~Fits(ask[s].per, ask[s].new)

TurnedAway(s) ==
    /\ Vain(s)
    /\ Done(s)
    /\ UNCHANGED <<period, slips, row, tx>>

-----------------------------------------------------------------------------
\* s waits for a row lock that t holds.  Who stands in ask holds nothing, or
\* waits for nobody, and so is part of no cycle.
WaitsFor(s, t) ==
    /\ s # t
    /\ \/ tx[s].pc = "lock" /\ \E p \in tx[s].todo : t \in Finalizing(p)
       \/ tx[s].pc = "insert" /\ \E e \in Employee \ tx[s].paid : t \in Submitting(e)
       \/ tx[s].pc = "write" /\ tx[s].op = "review" /\ t \in Holding(tx[s].rec)
       \/ tx[s].pc = "write" /\ tx[s].op = "file" /\ t \in Submitting(OwnerOf[tx[s].rec])

\* PostgreSQL breaks a cycle of waiting transactions by aborting one of them.
DeadlockAbort(s) ==
    /\ \E t \in Session : WaitsFor(s, t) /\ WaitsFor(t, s)
    /\ tx' = [tx EXCEPT ![s] = Idle]
    /\ UNCHANGED <<period, slips, row, ask>>

\* A later check fails, the transaction times out, or its connection is lost.
Rollback(s) ==
    /\ ~Free(s)
    /\ tx' = [tx EXCEPT ![s] = Idle]
    /\ Done(s)
    /\ UNCHANGED <<period, slips, row>>

Asking(s) ==
    \/ \E r \in Rec, sp \in Span : AskLeave(s, r, sp) \/ AskMove(s, r, sp)
    \/ \E r \in Rec : AskRemove(s, r)
    \/ \E p \in Period, op \in {"finalize", "delete"} : AskPeriod(s, op, p)
    \/ \E p \in Period, rt \in Rate : AskPatch(s, p, None, rt)

Mutation(s) ==
    \/ \E r \in Rec, sp \in Span : StartFile(s, r, sp) \/ StartMove(s, r, sp)
    \/ \E r \in Rec : StartReview(s, r) \/ StartRemove(s, r)
    \/ Select(s) \/ Cleared(s) \/ Refused(s)
    \/ \E p \in Period : LockNext(s, p)
    \/ File(s) \/ Review(s) \/ Move(s) \/ Remove(s) \/ LostRace(s)

Finalization(s) ==
    \/ \E p \in Period : StartFinalize(s, p)
    \/ \E k \in Kind : ReadTable(s, k)
    \/ \E e \in Employee : InsertSlip(s, e)
    \/ CommitFinalize(s)

\* A period is given another rate, or deleted.
Editing(s) ==
    \/ \E p \in Period, rt \in Rate : CheckPatch(s, p, None, rt) \/ PatchPeriod(s, p, None, rt)
    \/ \E p \in Period : DeletePeriod(s, p)

\* Every operation that leaves the ranges of the existing periods alone.
SteadyNext ==
    \E s \in Session :
       \/ Asking(s) \/ TurnedAway(s)
       \/ Mutation(s) \/ Finalization(s) \/ Editing(s)
       \/ DeadlockAbort(s) \/ Rollback(s)

\* Planning: periods appear, or an existing one is given another range.
Replan(s) ==
    \E sp \in Span, rt \in Rate :
       \/ CheckCreate(s, sp, rt)
       \/ \E p \in Period : \/ CreatePeriod(s, p, sp, rt)
                            \/ AskPatch(s, p, sp, rt)
                            \/ CheckPatch(s, p, sp, rt)
                            \/ PatchPeriod(s, p, sp, rt)

Next == SteadyNext \/ \E s \in Session : Replan(s)

Spec == Init /\ [][Next]_vars
SteadySpec == Init /\ [][SteadyNext]_vars

\* The statements that wait for nobody, and those that may wait for a row lock.
Proceed(s) ==
    \/ Select(s) \/ Cleared(s) \/ Refused(s)
    \/ Move(s) \/ Remove(s) \/ LostRace(s)
    \/ \E k \in Kind : ReadTable(s, k)
    \/ CommitFinalize(s)
    \/ \E p \in Period, rt \in Rate : PatchPeriod(s, p, None, rt)

Granted(s) ==
    \/ /\ ask[s] # NoAsk
       /\ \/ \E r \in Rec, sp \in Span : StartFile(s, r, sp) \/ StartMove(s, r, sp)
          \/ \E r \in Rec : StartRemove(s, r)
          \/ \E p \in Period : StartFinalize(s, p) \/ DeletePeriod(s, p)
          \/ \E p \in Period, rt \in Rate : CheckPatch(s, p, None, rt)
          \/ TurnedAway(s)
    \/ \E p \in Period : LockNext(s, p)
    \/ \E e \in Employee : InsertSlip(s, e)
    \/ File(s) \/ Review(s)

\* The server runs a transaction it has started, statement by statement, and
\* PostgreSQL detects deadlocks: weak fairness.  Waiters for a row lock queue on
\* the row, so one that can be granted again and again is granted: strong
\* fairness.  Nobody has to start anything, and nothing has to time out.
Fairness ==
    \A s \in Session :
       WF_vars(Proceed(s) \/ DeadlockAbort(s)) /\ SF_vars(Granted(s))

FairSteadySpec == SteadySpec /\ Fairness

-----------------------------------------------------------------------------
(* Properties *)

\* The statement the current records would give the period.
StatementOf(p) ==
    [span |-> period[p].span, rate |-> period[p].rate,
     entries |-> UNION {Due(period[p].span, k) : k \in Kind}]

\* No day is paid for by two periods: the payslips of any two finalized periods
\* are about ranges that do not meet, whoever plans, patches and finalizes at
\* once (createPeriod checks the ranges one statement before it stores its own,
\* patchPeriod may come between a finalization's read and its commit).
NoDayPaidTwice ==
    \A p, q \in Period :
       p # q /\ slips[p] # None /\ slips[q] # None
          => ~Overlaps(slips[p].span, slips[q].span)

\* The payslips of a finalized period state exactly the records in its range:
\* nothing slips in, out or sideways between their calculation and the
\* transition to FINALIZED, or later (finalizePeriod's comment, and
\* assertPeriodRangeEditable's).
SnapshotExact ==
    \A p \in Period : period[p].status = "FINALIZED" => slips[p] = StatementOf(p)

\* The stored period and its payslips never disagree on range and rate: a PATCH
\* cannot come between the moment finalizePeriod reads them and its commit.
PayslipsMatchPeriod ==
    \A p \in Period : period[p].status = "FINALIZED" =>
       slips[p] # None /\ slips[p].span = period[p].span /\ slips[p].rate = period[p].rate

\* A record can change inside a finalized range only by a transaction whose
\* SELECT ... FOR SHARE ran when the period did not cover that range yet: the
\* lock has no other hole, whatever is planned, patched and deleted meanwhile.
LateWritesRaced ==
    [][\A p \in Period, r \in Rec, s \in Session, sp \in Span :
          /\ period[p].status = "FINALIZED"
          /\ Overlaps(sp, period[p].span)
          /\ tx[s].rec = r /\ tx'[s] = Idle
          /\ row'[r] # row[r]
          /\ sp \in {row[r].span, row'[r].span}
          => <<sp, p>> \notin tx[s].saw]_vars

\* A claim is decided once, or cancelled, and never both: reviewers and owners
\* racing each other resolve to exactly one winner.
DecisionsFinal ==
    [][\A r \in Rec : KindOf[r] = "claim" /\ row[r].status \in {"APPROVED", "REJECTED", "gone"}
          => row'[r] = row[r]]_vars

\* s waits for a row lock others may share, and somebody shares it now: FOR SHARE
\* is granted beside FOR SHARE, past a FOR UPDATE that waits.
Overtaken(s) ==
    \/ /\ ask[s].op \in {"finalize", "delete", "patch"} /\ ask[s].step = "wait"
       /\ Sharing(ask[s].per) # {}
    \/ ask[s].op = "file" /\ Paying(OwnerOf[ask[s].rec]) # {}

\* Whoever has sent a request gets an answer: apart from the cycles PostgreSQL
\* breaks nobody waits for ever, unless the row they wait for is from some time on
\* never without somebody who shares it.
TransactionsEnd ==
    \A s \in Session : ~Free(s) ~> (Free(s) \/ []Overtaken(s))

\* Finalization is atomic: with the ranges of the periods fixed, the transactions
\* implement FrozenLedger, where a period is closed in a single step.
Books == INSTANCE FrozenLedger WITH books <- row, closed <- slips, Open <- None

ImplementsLedger == Books!Ledger

=============================================================================
