---------------------------- MODULE FrozenLedger ----------------------------
(***************************************************************************)
(* What payroll finalization promises about the dated source records       *)
(* (overtime, reimbursements, daily logs, leave), with no transactions and *)
(* no locks in sight: a period is closed in one step, its statement is the *)
(* records of its range exactly as they are at that step, and from then on *)
(* neither the statement nor a record that touches its range ever changes. *)
(* PeriodLock is shown to implement this module.                           *)
(***************************************************************************)
EXTENDS Integers

CONSTANTS
    Period,     \* identities of payroll periods
    Rec,        \* identities of source records
    Span,       \* ranges of days <<first, last>>
    Rate,       \* exchange rates
    Open        \* the statement of a period that is not closed

VARIABLES
    books,      \* Rec -> [status, span]
    closed      \* Period -> its statement, or Open

ledgerVars == <<books, closed>>

Meet(a, b) == a[1] <= b[2] /\ b[1] <= a[2]

Exists(b) == b.status \notin {"none", "gone"}

\* The records payroll pays for: approved, or of a kind that needs no approval.
Payable(r) == books[r].status \in {"APPROVED", "RECORDED"}

\* The statement of the range sp, were it closed now.
Statement(sp, rt) ==
    [span |-> sp,
     rate |-> rt,
     entries |-> {<<r, books[r].span>> : r \in
                     {q \in Rec : Payable(q) /\ Meet(books[q].span, sp)}}]

-----------------------------------------------------------------------------
\* A record may stand at b: no closed range would gain or lose it.
Allowed(b) ==
    Exists(b) => \A p \in Period :
                    closed[p] # Open => ~Meet(b.span, closed[p].span)

\* One record is filed, decided, moved or deleted.
Post(r) ==
    /\ Allowed(books[r])
    /\ Allowed(books'[r])
    /\ \A q \in Rec \ {r} : books'[q] = books[q]
    /\ UNCHANGED closed

\* A period is closed for good, with a statement of this very moment.
Close(p) ==
    /\ closed[p] = Open
    /\ \E sp \in Span, rt \in Rate :
          closed' = [closed EXCEPT ![p] = Statement(sp, rt)]
    /\ UNCHANGED books

LedgerInit ==
    /\ \A r \in Rec : books[r].status = "none"
    /\ \A p \in Period : closed[p] = Open

LedgerNext ==
    \/ \E r \in Rec : Post(r)
    \/ \E p \in Period : Close(p)

Ledger == LedgerInit /\ [][LedgerNext]_ledgerVars
=============================================================================
