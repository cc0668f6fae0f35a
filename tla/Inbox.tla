------------------------------- MODULE Inbox -------------------------------
(***************************************************************************)
(* Requests an employee files (overtime, reimbursements, leave), what HR   *)
(* does with them, and the notifications that follow both: copies for every*)
(* active HR account, resolved when the request is decided or withdrawn,   *)
(* the answer to its owner, and the contract-end reminders of employments. *)
(* The evidence file of a reimbursement is kept on disk beside its row.    *)
(*                                                                         *)
(* Each handler is one database transaction under READ COMMITTED.  Its     *)
(* reads of what others may change are actions of their own; the writes    *)
(* that follow, and COMMIT, are one action.  The period lock, the checks of*)
(* employment and the leave account are PeriodLock's and LeaveLedger's     *)
(* subject; here their refusal is a Fail.                                  *)
(***************************************************************************)
EXTENDS Integers, FiniteSets

CONSTANTS
    Request,        \* identities of Overtime, Reimbursement, LeaveRequest rows
    FileOf,         \* Request -> the name its evidence is stored under
    Date,           \* dates of overtime entries
    Hr,             \* accounts with the HR role
    Owner,          \* the account of the employee who files the requests
    Employment,
    ContractEnd,    \* contract ends within the reminder window
    Session,        \* requests being served at once
    None

Kind == {"OVERTIME", "REIMBURSEMENT", "LEAVE"}

ASSUME AccountAssumption == Owner \notin Hr
ASSUME SubjectAssumption ==
    Request \cap Employment = {} /\ None \notin Request \cup Employment \cup Kind
ASSUME FiniteAssumption ==
    IsFiniteSet(Hr) /\ IsFiniteSet(Employment) /\ IsFiniteSet(ContractEnd)

VARIABLES
    request,    \* the rows: PENDING, APPROVED or REJECTED; leave is TAKEN
    emp,        \* Employment rows: still open, and when the contract ends
    active,     \* HR accounts that are not deactivated
    notes,      \* Notification rows
    disk,       \* names of the stored evidence files
    tx          \* handlers in progress

vars == <<request, emp, active, notes, disk, tx>>

RequestRow ==
    [status : {"none", "PENDING", "APPROVED", "REJECTED", "TAKEN", "gone"},
     kind : Kind \cup {None}, date : Date \cup {None},
     file : SUBSET {FileOf[r] : r \in Request}]

NoRequest == [status |-> "none", kind |-> None, date |-> None, file |-> {}]

\* A notification; key is what its payload adds (the decision, the contract end)
\* and n tells rows apart that agree in everything else.
Note ==
    [to : Hr \cup {Owner}, about : Request \cup Employment,
     type : {"SUBMITTED", "DECIDED", "REQUEST_CANCELLED", "CONTRACT_ENDING"},
     key : {"APPROVED", "REJECTED", None} \cup ContractEnd, n : Nat,
     read : BOOLEAN, resolved : BOOLEAN]

Idle ==
    [op |-> "none", pc |-> "idle", req |-> None, emp |-> None, kind |-> None,
     date |-> None, file |-> {},
     due |-> {}, hr |-> {}, missing |-> {}, resolving |-> {}, reading |-> {}]

Handler ==
    [op : {"none", "create", "review", "cancel", "remind", "terminate"},
     pc : {"idle", "hr", "held", "read", "commit", "unlink"},
     req : Request \cup {None}, emp : Employment \cup {None},
     kind : Kind \cup {None}, date : Date \cup {None}, file : SUBSET {FileOf[r] : r \in Request},
     due : SUBSET (Employment \X ContractEnd), hr : SUBSET Hr,
     missing : SUBSET (Hr \X Employment \X ContractEnd),
     resolving : {{}}, reading : {{}}]

TypeOK ==
    /\ request \in [Request -> RequestRow]
    /\ emp \in [Employment -> [open : BOOLEAN, contract : ContractEnd \cup {None}]]
    /\ active \in SUBSET Hr
    /\ \A x \in notes : x \in Note
    /\ disk \in SUBSET {FileOf[r] : r \in Request}
    /\ \A s \in Session :
          /\ [tx[s] EXCEPT !.resolving = {}, !.reading = {}] \in Handler
          /\ tx[s].resolving \cup tx[s].reading \subseteq notes

Init ==
    /\ request = [r \in Request |-> NoRequest]
    /\ emp \in [Employment -> [open : {TRUE}, contract : ContractEnd \cup {None}]]
    /\ active \in SUBSET Hr
    /\ notes = {} /\ disk = {}
    /\ tx = [s \in Session |-> Idle]

-----------------------------------------------------------------------------
(* Emission *)

\* A new row, unread and unresolved.
Fresh(to, type, about, key) ==
    [to |-> to, type |-> type, about |-> about, key |-> key, read |-> FALSE, resolved |-> FALSE,
     n |-> Cardinality({x \in notes : /\ x.to = to /\ x.type = type
                                      /\ x.about = about /\ x.key = key})]

\* emitToHr: one row for each of the accounts read.
ToHr(accounts, type, about) == {Fresh(h, type, about, None) : h \in accounts}

\* The rows resolveGroup stamps: the copies of HR, which alone have a group key.
Unresolved(about) == {x \in notes : x.about = about /\ x.to \in Hr /\ ~x.resolved}

Handled(x) == [x EXCEPT !.read = TRUE, !.resolved = TRUE]

\* Wrong version: only the rows that are still unread are handled.
ResolveUnread(about) ==
    {IF x.about = about /\ x.to \in Hr /\ ~x.read THEN Handled(x) ELSE x : x \in notes}

\* resolveGroup: the unresolved rows are handled, the unread ones read.
Resolve(about) ==
    {IF x.about = about /\ x.to \in Hr THEN Handled(x) ELSE x : x \in notes}

End(s) == tx' = [tx EXCEPT ![s] = Idle]

-----------------------------------------------------------------------------
(* Requests *)

\* Holders of the row lock cancelOvertime and cancelReimbursement take.
Holding(r) ==
    {s \in Session : tx[s].op = "cancel" /\ tx[s].pc # "unlink"
                     /\ tx[s].req = r /\ request[r].kind # "LEAVE"}

\* A live overtime entry on the date d.
Logged(d) ==
    \E r \in Request : /\ request[r].kind = "OVERTIME" /\ request[r].date = d
                       /\ request[r].status \in {"PENDING", "APPROVED"}

\* createOvertime, createReimbursement, submitLeave: the upload is stored, and
\* overtime must be the only live entry of its date.
StartCreate(s, r, k, d) ==
    LET file == IF k = "REIMBURSEMENT" THEN {FileOf[r]} ELSE {} IN
    /\ tx[s] = Idle
    /\ request[r].status = "none" /\ \A t \in Session : tx[t].req # r
    /\ k = "OVERTIME" => ~Logged(d)
    /\ tx' = [tx EXCEPT ![s] = [Idle EXCEPT !.op = "create", !.pc = "hr", !.req = r,
                                            !.kind = k, !.date = d, !.file = file]]
    /\ disk' = disk \cup file
    /\ UNCHANGED <<request, emp, active, notes>>

\* emitToHr reads the active HR accounts, before the rows of any other step.
ReadHr(s) ==
    /\ tx[s].pc = "hr"
    /\ tx' = [tx EXCEPT ![s].hr = active,
                        ![s].pc = IF tx[s].op = "remind" THEN "held" ELSE "commit"]
    /\ UNCHANGED <<request, emp, active, notes, disk>>

CommitCreate(s) ==
    LET r == tx[s].req IN
    /\ tx[s].pc = "commit" /\ tx[s].op = "create"
    /\ request' = [request EXCEPT ![r] =
                     [status |-> IF tx[s].kind = "LEAVE" THEN "TAKEN" ELSE "PENDING",
                      kind |-> tx[s].kind, date |-> tx[s].date, file |-> tx[s].file]]
    /\ notes' = notes \cup ToHr(tx[s].hr, "SUBMITTED", r)
    /\ End(s)
    /\ UNCHANGED <<emp, active, disk>>

\* reviewOvertime, reviewReimbursement: a plain read first.
StartReview(s, r) ==
    /\ tx[s] = Idle
    /\ request[r].status = "PENDING"
    /\ tx' = [tx EXCEPT ![s] = [Idle EXCEPT !.op = "review", !.pc = "commit", !.req = r]]
    /\ UNCHANGED <<request, emp, active, notes, disk>>

\* Wrong versions: the row of the earlier read is trusted, and the action of the
\* reviewer is stored in place of the status it leads to.
CommitReviewTrusting(s) ==
    LET r == tx[s].req IN
    /\ tx[s].pc = "commit" /\ tx[s].op = "review"
    /\ Holding(r) = {} /\ request[r].status # "gone"
    /\ \E status \in {"APPROVED", "REJECTED"} :
          /\ request' = [request EXCEPT ![r].status = status]
          /\ notes' = Resolve(r) \cup {Fresh(Owner, "DECIDED", r, status)}
    /\ End(s)
    /\ UNCHANGED <<emp, active, disk>>

CommitReviewAction(s) ==
    LET r == tx[s].req IN
    /\ tx[s].pc = "commit" /\ tx[s].op = "review"
    /\ Holding(r) = {} /\ request[r].status = "PENDING"
    /\ \E action \in {"APPROVE", "REJECT"} :
          /\ request' = [request EXCEPT ![r].status = action]
          /\ notes' = Resolve(r) \cup {Fresh(Owner, "DECIDED", r, action)}
    /\ End(s)
    /\ UNCHANGED <<emp, active, disk>>

\* The conditional update waits for a cancellation; then HR's copies are
\* resolved and the owner is told.
CommitReview(s) ==
    LET r == tx[s].req IN
    /\ tx[s].pc = "commit" /\ tx[s].op = "review"
    /\ Holding(r) = {} /\ request[r].status = "PENDING"
    /\ \E status \in {"APPROVED", "REJECTED"} :
          /\ request' = [request EXCEPT ![r].status = status]
          /\ notes' = Resolve(r) \cup {Fresh(Owner, "DECIDED", r, status)}
    /\ End(s)
    /\ UNCHANGED <<emp, active, disk>>

\* Wrong version: the evidence goes before the row does.
StartCancelUnlinking(s, r) ==
    /\ tx[s] = Idle
    /\ Holding(r) = {}
    /\ request[r].status \in {"PENDING", "TAKEN"}
    /\ tx' = [tx EXCEPT ![s] = [Idle EXCEPT !.op = "cancel", !.pc = "hr", !.req = r,
                                            !.file = request[r].file]]
    /\ disk' = disk \ request[r].file
    /\ UNCHANGED <<request, emp, active, notes>>

\* cancelOvertime and cancelReimbursement lock the row and find it pending;
\* cancelLeave reads it before its transaction.
StartCancel(s, r) ==
    /\ tx[s] = Idle
    /\ Holding(r) = {}
    /\ request[r].status \in {"PENDING", "TAKEN"}
    /\ tx' = [tx EXCEPT ![s] = [Idle EXCEPT !.op = "cancel", !.pc = "hr", !.req = r,
                                            !.file = request[r].file]]
    /\ UNCHANGED <<request, emp, active, notes, disk>>

\* Wrong version: HR hears of every cancellation.
CommitCancelAnnouncing(s) ==
    LET r == tx[s].req IN
    /\ tx[s].pc = "commit" /\ tx[s].op = "cancel"
    /\ request[r].status \in {"PENDING", "TAKEN"}
    /\ request' = [request EXCEPT ![r] = [NoRequest EXCEPT !.status = "gone"]]
    /\ notes' = Resolve(r) \cup ToHr(tx[s].hr, "REQUEST_CANCELLED", r)
    /\ tx' = [tx EXCEPT ![s] = IF tx[s].file = {} THEN Idle ELSE [@ EXCEPT !.pc = "unlink"]]
    /\ UNCHANGED <<emp, active, disk>>

\* HR's copies are resolved and the row deleted; HR hears of it if it had been
\* shown the request.  The evidence is removed after the COMMIT.
CommitCancel(s) ==
    LET r == tx[s].req IN
    /\ tx[s].pc = "commit" /\ tx[s].op = "cancel"
    /\ request[r].status \in {"PENDING", "TAKEN"}
    /\ request' = [request EXCEPT ![r] = [NoRequest EXCEPT !.status = "gone"]]
    /\ notes' = Resolve(r) \cup
                  (IF Unresolved(r) = {} THEN {} ELSE ToHr(tx[s].hr, "REQUEST_CANCELLED", r))
    /\ tx' = [tx EXCEPT ![s] = IF tx[s].file = {} THEN Idle ELSE [@ EXCEPT !.pc = "unlink"]]
    /\ UNCHANGED <<emp, active, disk>>

Unlink(s) ==
    /\ tx[s].pc = "unlink"
    /\ disk' = disk \ tx[s].file
    /\ End(s)
    /\ UNCHANGED <<request, emp, active, notes>>

\* Somebody else decided or cancelled the request first.
LostRace(s) ==
    LET r == tx[s].req IN
    /\ tx[s].pc = "commit"
    /\ \/ tx[s].op = "review" /\ Holding(r) = {} /\ request[r].status # "PENDING"
       \/ tx[s].op = "cancel" /\ request[r].status = "gone"
    /\ End(s)
    /\ UNCHANGED <<request, emp, active, notes, disk>>

-----------------------------------------------------------------------------
(* Contract-end reminders *)

\* Wrong version: without the advisory lock.
StartRemindUnlocked(s) ==
    LET due == {d \in Employment \X ContractEnd :
                   emp[d[1]].open /\ emp[d[1]].contract = d[2]} IN
    /\ tx[s] = Idle
    /\ due # {}
    /\ tx' = [tx EXCEPT ![s] = [Idle EXCEPT !.op = "remind", !.pc = "hr", !.due = due]]
    /\ UNCHANGED <<request, emp, active, notes, disk>>

\* ensureContractRemindersUpToDate: under an advisory lock, the open employments
\* whose contract ends soon.
StartRemind(s) ==
    LET due == {d \in Employment \X ContractEnd :
                   emp[d[1]].open /\ emp[d[1]].contract = d[2]} IN
    /\ tx[s] = Idle
    /\ \A t \in Session : tx[t].op # "remind"
    /\ due # {}
    /\ tx' = [tx EXCEPT ![s] = [Idle EXCEPT !.op = "remind", !.pc = "hr", !.due = due]]
    /\ UNCHANGED <<request, emp, active, notes, disk>>

\* The reminders that are out: one per account, employment and contract end.
Held(h, e, c) ==
    \E x \in notes : /\ x.type = "CONTRACT_ENDING" /\ x.to = h /\ x.about = e
                     /\ x.key = c /\ ~x.resolved

ReadHeld(s) ==
    /\ tx[s].pc = "held"
    /\ tx' = [tx EXCEPT ![s].pc = "commit", ![s].due = {}, ![s].hr = {},
                        ![s].missing = {x \in Hr \X Employment \X ContractEnd :
                                           /\ x[1] \in tx[s].hr /\ <<x[2], x[3]>> \in tx[s].due
                                           /\ ~Held(x[1], x[2], x[3])}]
    /\ UNCHANGED <<request, emp, active, notes, disk>>

CommitRemind(s) ==
    /\ tx[s].pc = "commit" /\ tx[s].op = "remind"
    /\ notes' = notes \cup {Fresh(x[1], "CONTRACT_ENDING", x[2], x[3]) : x \in tx[s].missing}
    /\ End(s)
    /\ UNCHANGED <<request, emp, active, disk>>

\* The Employee row, locked by terminateEmployee and updateEmployee.
Terminating(e) == {s \in Session : tx[s].op = "terminate" /\ tx[s].emp = e}

\* terminateEmployee finds the reminders to resolve, ...
StartTerminate(s, e) ==
    /\ tx[s] = Idle
    /\ emp[e].open /\ Terminating(e) = {}
    /\ tx' = [tx EXCEPT ![s] = [Idle EXCEPT !.op = "terminate", !.pc = "read", !.emp = e,
                                            !.resolving = Unresolved(e)]]
    /\ UNCHANGED <<request, emp, active, notes, disk>>

\* ... with a second statement those to mark read, ...
ReadUnread(s) ==
    /\ tx[s].pc = "read"
    /\ tx' = [tx EXCEPT ![s].pc = "commit",
                        ![s].reading = {x \in notes : x.about = tx[s].emp /\ x.to \in Hr /\ ~x.read}]
    /\ UNCHANGED <<request, emp, active, notes, disk>>

\* ... and then ends the employment.
CommitTerminate(s) ==
    /\ tx[s].pc = "commit" /\ tx[s].op = "terminate"
    /\ emp' = [emp EXCEPT ![tx[s].emp].open = FALSE]
    /\ notes' = {[x EXCEPT !.read = @ \/ x \in tx[s].resolving \cup tx[s].reading,
                           !.resolved = @ \/ x \in tx[s].resolving] : x \in notes}
    /\ End(s)
    /\ UNCHANGED <<request, active, disk>>

\* updateEmployee gives the contract another end, or time brings it into the window.
SetContract(e, c) ==
    /\ Terminating(e) = {} /\ emp[e].contract # c
    /\ emp' = [emp EXCEPT ![e].contract = c]
    /\ UNCHANGED <<request, active, notes, disk, tx>>

-----------------------------------------------------------------------------
(* Accounts, reading, failures *)

\* createUser makes an account active, updateUser deactivates or reactivates it.
SetActive(h) ==
    /\ active' = IF h \in active THEN active \ {h} ELSE active \cup {h}
    /\ UNCHANGED <<request, emp, notes, disk, tx>>

\* Rows a running terminateEmployee has stamped: an update of them waits.
Stamped == UNION {tx[s].resolving \cup tx[s].reading : s \in Session}

\* markRead and markAllRead, of an account that may sign in.
MarkRead(u, X) ==
    /\ u \in active \cup {Owner}
    /\ X # {} /\ X \cap Stamped = {}
    /\ notes' = (notes \ X) \cup {[x EXCEPT !.read = TRUE] : x \in X}
    /\ UNCHANGED <<request, emp, active, disk, tx>>

\* A handler fails: its transaction is rolled back and its upload discarded.
Fail(s) ==
    /\ tx[s].op # "none" /\ tx[s].pc # "unlink"
    /\ disk' = IF tx[s].op = "create" THEN disk \ tx[s].file ELSE disk
    /\ End(s)
    /\ UNCHANGED <<request, emp, active, notes>>

\* The server stops, and with it every handler.
Restart ==
    /\ \E s \in Session : tx[s] # Idle
    /\ tx' = [s \in Session |-> Idle]
    /\ UNCHANGED <<request, emp, active, notes, disk>>

Reading(u) ==
    LET unread == {x \in notes : x.to = u /\ ~x.read} IN
    \/ MarkRead(u, unread)
    \/ \E x \in unread : MarkRead(u, {x})

Filing(s) ==
    \/ \E r \in Request, k \in Kind, d \in Date : StartCreate(s, r, k, d)
    \/ \E r \in Request : StartReview(s, r) \/ StartCancel(s, r)
    \/ ReadHr(s) \/ CommitCreate(s) \/ CommitReview(s) \/ CommitCancel(s)
    \/ Unlink(s) \/ LostRace(s)

Reminding(s) ==
    \/ StartRemind(s) \/ ReadHeld(s) \/ CommitRemind(s)
    \/ \E e \in Employment : StartTerminate(s, e)
    \/ ReadUnread(s) \/ CommitTerminate(s)

Next ==
    \/ \E s \in Session : Filing(s) \/ Reminding(s) \/ Fail(s)
    \/ \E e \in Employment, c \in ContractEnd \cup {None} : SetContract(e, c)
    \/ \E h \in Hr : SetActive(h)
    \/ \E u \in Hr \cup {Owner} : Reading(u)
    \/ Restart

Spec == Init /\ [][Next]_vars

-----------------------------------------------------------------------------
(* Properties *)

\* What HR has on its list is what is still to be decided: every copy of a request
\* is unresolved as long as the request stands undecided, resolved and read from
\* the decision or the withdrawal on, and there is none without its request
\* (resolveGroup; emission in the transaction of the change).
QueueHonest ==
    \A x \in notes : x.type = "SUBMITTED" =>
       /\ request[x.about].status # "none"
       /\ x.resolved <=> request[x.about].status \in {"APPROVED", "REJECTED", "gone"}
       /\ x.resolved => x.read

\* The owner is told of a decision exactly once, and of the decision that stands,
\* whoever else reviews or cancels at the same time.
ToldOnce ==
    \A r \in Request :
       LET told == {x \in notes : x.type = "DECIDED" /\ x.about = r} IN
       IF request[r].status \in {"APPROVED", "REJECTED"}
       THEN \E x \in told : told = {x} /\ x.to = Owner /\ x.key = request[r].status
       ELSE told = {}

\* A withdrawal is announced at most once to an account, and only when HR had been
\* shown the request ("Only worth telling HR about an entry they were actually shown").
AnnouncedToReaders ==
    \A x \in notes : x.type = "REQUEST_CANCELLED" =>
       /\ request[x.about].status = "gone" /\ x.n = 0
       /\ \E y \in notes : y.type = "SUBMITTED" /\ y.about = x.about

\* The evidence of a reimbursement that stands is on disk, through failures, lost
\* races and restarts: uploads are discarded and files removed only when no row is
\* left that names them.
EvidenceKept ==
    \A r \in Request :
       request[r].status \in {"PENDING", "APPROVED", "REJECTED"} => request[r].file \subseteq disk

\* An account never has the same open reminder twice, however many boots and
\* notification fetches overlap, and whatever is extended and terminated meanwhile.
OneReminder ==
    \A x, y \in notes :
       /\ x.type = "CONTRACT_ENDING" /\ ~x.resolved /\ ~y.resolved
       /\ <<x.to, x.type, x.about, x.key>> = <<y.to, y.type, y.about, y.key>>
       => x = y

\* "At most one pending/approved overtime entry per employee per date."
OneOvertimePerDate ==
    \A q, r \in Request :
       /\ request[q].kind = "OVERTIME" /\ request[r].kind = "OVERTIME"
       /\ request[q].status \in {"PENDING", "APPROVED"}
       /\ request[r].status \in {"PENDING", "APPROVED"}
       /\ request[q].date = request[r].date
       => q = r
=============================================================================
