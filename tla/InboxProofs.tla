------------------------------ MODULE InboxProofs ------------------------------
(***************************************************************************)
(* Proofs about Inbox, for any number of requests, accounts, employments   *)
(* and handlers at once.                                                   *)
(***************************************************************************)
EXTENDS Inbox, FiniteSetTheorems, TLAPS

-----------------------------------------------------------------------------
(* The inductive invariant *)

\* A handler, whatever rows a termination has stamped.
HandlerRow ==
    [op : {"none", "create", "review", "cancel", "remind", "terminate"},
     pc : {"idle", "hr", "held", "read", "commit", "unlink"},
     req : Request \cup {None}, emp : Employment \cup {None},
     kind : Kind \cup {None}, date : Date \cup {None}, file : SUBSET {FileOf[r] : r \in Request},
     due : SUBSET (Employment \X ContractEnd), hr : SUBSET Hr,
     missing : SUBSET (Hr \X Employment \X ContractEnd),
     resolving : SUBSET Note, reading : SUBSET Note]

\* It has what it needs for the rest of its way, and nothing else.
HandlerFine(x) ==
    /\ x \in HandlerRow
    /\ x.op = "create" => x.kind \in Kind /\ x.date \in Date
    /\ IF x.op \in {"create", "review", "cancel"}
       THEN x.req \in Request /\ x.file \subseteq {FileOf[x.req]}
       ELSE x.req = None
    /\ x.op = "terminate" => x.emp \in Employment
    /\ x.op # "terminate" => x.resolving = {} /\ x.reading = {}
    /\ x.op # "remind" => x.missing = {}
    /\ x.pc = "hr" => x.op \in {"create", "cancel", "remind"}
    /\ x.pc = "held" => x.op = "remind"
    /\ x.pc = "read" => x.op = "terminate"
    /\ x.pc = "unlink" => x.op = "cancel"

\* Employments have reminders, requests the rest; only decisions go to the owner.
NoteFine(x) ==
    /\ x \in Note
    /\ x.type = "CONTRACT_ENDING" <=> x.about \in Employment
    /\ x.type = "DECIDED" <=> x.to = Owner

\* A request has no evidence but its own, and only leave is taken without a decision.
RowFine(r, row) ==
    /\ row \in RequestRow
    /\ row.file \subseteq {FileOf[r]}
    /\ row.status = "TAKEN" => row.kind = "LEAVE"

TablesFine ==
    /\ request \in [Request -> RequestRow]
    /\ \A r \in Request : RowFine(r, request[r])
    /\ emp \in [Employment -> [open : BOOLEAN, contract : ContractEnd \cup {None}]]
    /\ active \in SUBSET Hr
    /\ disk \in SUBSET {FileOf[r] : r \in Request}

NotesFine == IsFiniteSet(notes) /\ \A x \in notes : NoteFine(x)

HandlersFine == tx \in [Session -> HandlerRow] /\ \A s \in Session : HandlerFine(tx[s])

TypeInv == TablesFine /\ NotesFine /\ HandlersFine

\* A cancellation that has locked its row.
Holds(s) ==
    /\ tx[s].op = "cancel" /\ tx[s].pc # "unlink"
    /\ request[tx[s].req].kind \in {"OVERTIME", "REIMBURSEMENT"}

\* What a handler knows of the row of its request: one that is to be created is not
\* there yet and has one creator, a locked one is pending and has one holder.
Files(s) ==
    /\ tx[s].op = "create" =>
          /\ request[tx[s].req].status = "none"
          /\ \A t \in Session : t # s => tx[t].req # tx[s].req
    /\ tx[s].op \in {"review", "cancel"} => request[tx[s].req].status # "none"
    /\ tx[s].pc = "unlink" => request[tx[s].req].status = "gone"
    /\ Holds(s) =>
          /\ request[tx[s].req].status = "PENDING"
          /\ \A t \in Session : Holds(t) /\ tx[t].req = tx[s].req => t = s

\* A termination is the only one of its employment, and the rows it has stamped
\* are as it found them.
Terminates(s) ==
    /\ tx[s].resolving \cup tx[s].reading \subseteq {x \in notes : x.about = tx[s].emp}
    /\ tx[s].op = "terminate" =>
          \A t \in Session : tx[t].op = "terminate" /\ tx[t].emp = tx[s].emp => t = s

\* A run of the reminders is the only one, and nothing it misses is out.
Reminds(s) ==
    /\ tx[s].op = "remind" => \A t \in Session : tx[t].op = "remind" => t = s
    /\ \A x \in tx[s].missing : ~Held(x[1], x[2], x[3])

HandlerInv == \A s \in Session : Files(s) /\ Terminates(s) /\ Reminds(s)

NoteInv == QueueHonest /\ ToldOnce /\ AnnouncedToReaders /\ OneReminder

Inv == TypeInv /\ HandlerInv /\ NoteInv

-----------------------------------------------------------------------------
(* Notifications *)

\* What a notification keeps for good.
Grows(x, y) ==
    /\ y.to = x.to /\ y.about = x.about /\ y.type = x.type /\ y.key = x.key /\ y.n = x.n
    /\ x.read => y.read
    /\ x.resolved => y.resolved

Carries(m) == m \in [notes -> Note] /\ \A x \in notes : Grows(x, m[x])

\* Reading and resolving write the two flags of a row.
LEMMA Flagged ==
    ASSUME NEW x \in Note, NEW a \in BOOLEAN, NEW b \in BOOLEAN,
           x.read => a, x.resolved => b, NEW y, y = [x EXCEPT !.read = a, !.resolved = b]
    PROVE  /\ y \in Note /\ y.read = a /\ y.resolved = b /\ Grows(x, y)
           /\ a = x.read /\ b = x.resolved => y = x
BY DEF Note, Grows

\* Reading one resolves nothing.
LEMMA ReadOne ==
    ASSUME NEW x \in Note
    PROVE  /\ [x EXCEPT !.read = TRUE] \in Note /\ Grows(x, [x EXCEPT !.read = TRUE])
           /\ [x EXCEPT !.read = TRUE].resolved = x.resolved
BY DEF Note, Grows

\* resolveGroup handles HR's copies and leaves the other rows alone.
LEMMA ResolveCarries ==
    ASSUME NotesFine, NEW r
    PROVE  \E m : /\ Carries(m) /\ Resolve(r) = {m[x] : x \in notes}
                  /\ \A x \in notes : IF x.about = r /\ x.to \in Hr
                                      THEN m[x].read /\ m[x].resolved
                                      ELSE m[x] = x
<1> DEFINE m == [x \in notes |-> IF x.about = r /\ x.to \in Hr THEN Handled(x) ELSE x]
<1>1. \A x \in notes : /\ Handled(x) = [x EXCEPT !.read = TRUE, !.resolved = TRUE] /\ x \in Note
    BY DEF Handled, NotesFine, NoteFine
<1>2. ASSUME NEW x \in notes
      PROVE  /\ m[x] \in Note /\ Grows(x, m[x])
             /\ IF x.about = r /\ x.to \in Hr THEN m[x].read /\ m[x].resolved ELSE m[x] = x
    <2>1. CASE x.about = r /\ x.to \in Hr
        <3>1. m[x] = [x EXCEPT !.read = TRUE, !.resolved = TRUE]
            BY <1>1, <2>1
        <3> QED
            BY <1>1, <2>1, <3>1, Flagged
    <2>2. CASE ~(x.about = r /\ x.to \in Hr)
        BY <1>1, <2>2 DEF Grows
    <2> QED
        BY <2>1, <2>2
<1>3. Carries(m)
    BY <1>2 DEF Carries
<1>4. Resolve(r) = {m[x] : x \in notes}
    BY DEF Resolve
<1> HIDE DEF m
<1> QED
    BY <1>2, <1>3, <1>4

\* markRead and markAllRead resolve nothing.
LEMMA ReadingCarries ==
    ASSUME NotesFine, NEW u, NEW X \in SUBSET notes, MarkRead(u, X)
    PROVE  \E m : /\ Carries(m) /\ notes' = {m[x] : x \in notes}
                  /\ \A x \in notes : /\ m[x].resolved = x.resolved
                                      /\ x \notin X => m[x] = x
<1> DEFINE m == [x \in notes |-> IF x \in X THEN [x EXCEPT !.read = TRUE] ELSE x]
<1>1. ASSUME NEW x \in notes
      PROVE  /\ m[x] \in Note /\ Grows(x, m[x])
             /\ m[x].resolved = x.resolved /\ (x \notin X => m[x] = x)
    <2>1. x \in Note
        BY DEF NotesFine, NoteFine
    <2> QED
        BY <2>1, ReadOne DEF Grows
<1>2. Carries(m)
    BY <1>1 DEF Carries
<1>3. notes' = {m[x] : x \in notes}
    BY DEF MarkRead
<1> HIDE DEF m
<1> QED
    BY <1>1, <1>2, <1>3

\* A termination writes the rows it has stamped.
LEMMA TerminationCarries ==
    ASSUME NotesFine, NEW s \in Session, CommitTerminate(s)
    PROVE  \E m : /\ Carries(m) /\ notes' = {m[x] : x \in notes}
                  /\ \A x \in notes : x \notin tx[s].resolving \cup tx[s].reading => m[x] = x
<1> DEFINE m == [x \in notes |-> [x EXCEPT !.read = @ \/ x \in tx[s].resolving \cup tx[s].reading,
                                           !.resolved = @ \/ x \in tx[s].resolving]]
<1>1. ASSUME NEW x \in notes
      PROVE  /\ m[x] \in Note /\ Grows(x, m[x])
             /\ x \notin tx[s].resolving \cup tx[s].reading => m[x] = x
    <2>1. PICK a, b : /\ a = (x.read \/ x \in tx[s].resolving \cup tx[s].reading)
                      /\ b = (x.resolved \/ x \in tx[s].resolving)
        OBVIOUS
    <2>2. a \in BOOLEAN /\ b \in BOOLEAN
        BY <2>1
    <2>3. x \in Note /\ x.read \in BOOLEAN /\ x.resolved \in BOOLEAN
        BY DEF NotesFine, NoteFine, Note
    <2>4. m[x] = [x EXCEPT !.read = a, !.resolved = b]
        BY <2>1, <2>3
    <2>5. x \notin tx[s].resolving \cup tx[s].reading => a = x.read /\ b = x.resolved
        BY <2>1, <2>3
    <2>6. (x.read => a) /\ (x.resolved => b)
        BY <2>1
    <2> QED
        BY <2>2, <2>3, <2>4, <2>5, <2>6, Flagged
<1>2. Carries(m)
    BY <1>1 DEF Carries
<1>3. notes' = {m[x] : x \in notes}
    BY DEF CommitTerminate
<1> HIDE DEF m
<1> QED
    BY <1>1, <1>2, <1>3

\* A row that is emitted.
LEMMA FreshFine ==
    ASSUME NotesFine, NEW to \in Hr \cup {Owner}, NEW about \in Request \cup Employment,
           NEW type \in {"SUBMITTED", "DECIDED", "REQUEST_CANCELLED", "CONTRACT_ENDING"},
           NEW key \in {"APPROVED", "REJECTED", None} \cup ContractEnd,
           NEW x, x = Fresh(to, type, about, key)
    PROVE  /\ x \in Note /\ x.to = to /\ x.type = type /\ x.about = about /\ x.key = key
           /\ ~x.resolved /\ ~x.read
<1> DEFINE G == {y \in notes : y.to = to /\ y.type = type /\ y.about = about /\ y.key = key}
<1>1. Cardinality(G) \in Nat
    BY FS_Subset, FS_CardinalityType DEF NotesFine
<1> HIDE DEF G
<1>2. PICK n \in Nat : n = Cardinality(G)
    BY <1>1
<1>3. x = [to |-> to, type |-> type, about |-> about, key |-> key, read |-> FALSE,
           resolved |-> FALSE, n |-> n]
    BY <1>2 DEF Fresh, G
<1> QED
    BY <1>3 DEF Note

\* Rows carried on and rows added leave the notifications fine.
LEMMA NotesStayFine ==
    ASSUME NotesFine, NEW m, Carries(m), NEW F, IsFiniteSet(F), \A x \in F : NoteFine(x),
           notes' = {m[x] : x \in notes} \cup F
    PROVE  NotesFine'
<1>1. IsFiniteSet({m[x] : x \in notes})
    <2>1. m \in Surjection(notes, {m[x] : x \in notes})
        BY DEF Carries, Surjection
    <2> QED
        BY <2>1, FS_Surjection DEF NotesFine
<1>2. IsFiniteSet(notes')
    BY <1>1, FS_Union
<1>3. \A x \in notes : NoteFine(m[x])
    BY DEF NotesFine, NoteFine, Carries, Grows
<1> QED
    BY <1>2, <1>3 DEF NotesFine, NoteFine

-----------------------------------------------------------------------------
(* Handlers *)

\* A session without a handler.
LEMMA IdleFine == HandlerFine(Idle)
BY DEF Idle, HandlerRow, HandlerFine

\* A step that gives one handler a fine value keeps them all fine.
LEMMA OneChanges ==
    ASSUME HandlersFine, NEW s \in Session, NEW x, HandlerFine(x), tx' = [tx EXCEPT ![s] = x]
    PROVE  /\ HandlersFine' /\ tx'[s] = x
           /\ \A t \in Session : t # s => tx'[t] = tx[t]
<1>1. x \in HandlerRow /\ tx \in [Session -> HandlerRow]
    BY DEF HandlerFine, HandlersFine
<1>2. /\ tx' \in [Session -> HandlerRow] /\ tx'[s] = x
      /\ \A t \in Session : t # s => tx'[t] = tx[t]
    BY <1>1
<1> QED
    BY <1>2 DEF HandlersFine

\* So does one that ends a handler.
LEMMA OneEnds ==
    ASSUME HandlersFine, NEW s \in Session, End(s)
    PROVE  /\ HandlersFine' /\ tx'[s] = Idle
           /\ \A t \in Session : t # s => tx'[t] = tx[t]
BY IdleFine, OneChanges DEF End

\* What the handlers begin with.
LEMMA CreateFine ==
    ASSUME NEW r \in Request, NEW k \in Kind, NEW d \in Date, NEW f \in SUBSET {FileOf[r]}
    PROVE  HandlerFine([Idle EXCEPT !.op = "create", !.pc = "hr", !.req = r,
                                    !.kind = k, !.date = d, !.file = f])
<1>1. f \in SUBSET {FileOf[q] : q \in Request}
    OBVIOUS
<1> QED
    BY <1>1 DEF Idle, HandlerRow, HandlerFine

\* A review, ...
LEMMA ReviewFine ==
    ASSUME NEW r \in Request
    PROVE  HandlerFine([Idle EXCEPT !.op = "review", !.pc = "commit", !.req = r])
BY DEF Idle, HandlerRow, HandlerFine

\* ... a withdrawal, ...
LEMMA CancelFine ==
    ASSUME NEW r \in Request, NEW f \in SUBSET {FileOf[r]}
    PROVE  HandlerFine([Idle EXCEPT !.op = "cancel", !.pc = "hr", !.req = r, !.file = f])
<1>1. f \in SUBSET {FileOf[q] : q \in Request}
    OBVIOUS
<1> QED
    BY <1>1 DEF Idle, HandlerRow, HandlerFine

\* ... a run of the reminders ...
LEMMA RemindFine ==
    ASSUME NEW D \in SUBSET (Employment \X ContractEnd)
    PROVE  HandlerFine([Idle EXCEPT !.op = "remind", !.pc = "hr", !.due = D])
BY DEF Idle, HandlerRow, HandlerFine

\* ... and a termination.
LEMMA TerminateFine ==
    ASSUME NEW e \in Employment, NEW X \in SUBSET Note
    PROVE  HandlerFine([Idle EXCEPT !.op = "terminate", !.pc = "read", !.emp = e,
                                    !.resolving = X])
BY DEF Idle, HandlerRow, HandlerFine

\* What the handlers read on their way.
LEMMA HrFine ==
    ASSUME NEW x, HandlerFine(x), x.pc = "hr", NEW A \in SUBSET Hr
    PROVE  HandlerFine([x EXCEPT !.hr = A, !.pc = IF x.op = "remind" THEN "held" ELSE "commit"])
<1>1. CASE x.op = "remind"
    <2>1. HandlerFine([x EXCEPT !.hr = A, !.pc = "held"])
        BY <1>1 DEF HandlerRow, HandlerFine
    <2> QED
        BY <1>1, <2>1
<1>2. CASE x.op # "remind"
    <2>1. HandlerFine([x EXCEPT !.hr = A, !.pc = "commit"])
        BY <1>2 DEF HandlerRow, HandlerFine
    <2> QED
        BY <1>2, <2>1
<1> QED
    BY <1>1, <1>2

\* The reminders that are out, ...
LEMMA HeldFine ==
    ASSUME NEW x, HandlerFine(x), x.pc = "held",
           NEW M \in SUBSET (Hr \X Employment \X ContractEnd)
    PROVE  HandlerFine([x EXCEPT !.pc = "commit", !.due = {}, !.hr = {}, !.missing = M])
BY DEF HandlerRow, HandlerFine

\* ... and the rows that are unread.
LEMMA UnreadFine ==
    ASSUME NEW x, HandlerFine(x), x.pc = "read", NEW X \in SUBSET Note
    PROVE  HandlerFine([x EXCEPT !.pc = "commit", !.reading = X])
BY DEF HandlerRow, HandlerFine

\* A withdrawal goes on to the file.
LEMMA UnlinkFine ==
    ASSUME NEW x, HandlerFine(x), x.op = "cancel"
    PROVE  HandlerFine([x EXCEPT !.pc = "unlink"])
BY DEF HandlerRow, HandlerFine

\* The reminders that can be missing are finitely many.
LEMMA MissingFinite == ASSUME NEW x, HandlerFine(x) PROVE IsFiniteSet(x.missing)
<1> DEFINE P == (Hr \X Employment) \X ContractEnd
           T == Hr \X Employment \X ContractEnd
           f == [p \in P |-> <<p[1][1], p[1][2], p[2]>>]
<1>1. IsFiniteSet(Hr \X Employment) /\ IsFiniteSet(P)
    BY FiniteAssumption, FS_Product
<1>2. f \in Surjection(P, T)
    <2>1. f \in [P -> T]
        OBVIOUS
    <2>2. ASSUME NEW h \in Hr, NEW e \in Employment, NEW c \in ContractEnd
          PROVE  <<<<h, e>>, c>> \in P /\ f[<<<<h, e>>, c>>] = <<h, e, c>>
        OBVIOUS
    <2>3. ASSUME NEW t \in T PROVE \E p \in P : f[p] = t
        <3>1. PICK h \in Hr, e \in Employment, c \in ContractEnd : t = <<h, e, c>>
            OBVIOUS
        <3> HIDE DEF P, f
        <3> QED
            BY <2>2, <3>1
    <2> HIDE DEF P, T, f
    <2> QED
        BY <2>1, <2>3 DEF Surjection
<1>3. IsFiniteSet(T)
    BY <1>1, <1>2, FS_Surjection
<1>4. x.missing \in SUBSET T
    BY DEF HandlerFine, HandlerRow
<1> QED
    BY <1>3, <1>4, FS_Subset

\* A row that is stored leaves the others as they are.
LEMMA StoredFine ==
    ASSUME TablesFine, NEW r \in Request, NEW row, RowFine(r, row),
           request' = [request EXCEPT ![r] = row]
    PROVE  /\ request' \in [Request -> RequestRow] /\ request'[r] = row
           /\ \A q \in Request : q # r => request'[q] = request[q]
           /\ \A q \in Request : RowFine(q, request'[q])
<1>1. /\ request' \in [Request -> RequestRow] /\ request'[r] = row
      /\ \A q \in Request : q # r => request'[q] = request[q]
    BY DEF TablesFine, RowFine
<1> QED
    BY <1>1 DEF TablesFine

\* What is stored when a request is filed, decided, withdrawn.
LEMMA CreatedRow ==
    ASSUME HandlersFine, TablesFine, NEW s \in Session, CommitCreate(s)
    PROVE  LET r == tx[s].req
           IN  /\ r \in Request /\ request' \in [Request -> RequestRow]
               /\ request'[r].status \in {"PENDING", "TAKEN"}
               /\ request'[r].file = tx[s].file
               /\ \A q \in Request : q # r => request'[q] = request[q]
               /\ \A q \in Request : RowFine(q, request'[q])
<1>1. PICK r, row : /\ r = tx[s].req
                    /\ row = [status |-> IF tx[s].kind = "LEAVE" THEN "TAKEN" ELSE "PENDING",
                              kind |-> tx[s].kind, date |-> tx[s].date, file |-> tx[s].file]
    OBVIOUS
<1>2. HandlerFine(tx[s]) /\ tx[s].op = "create" /\ request' = [request EXCEPT ![r] = row]
    BY <1>1 DEF CommitCreate, HandlersFine
<1>3. /\ r \in Request /\ row \in RequestRow /\ row.file \subseteq {FileOf[r]}
      /\ row.status \in {"PENDING", "TAKEN"} /\ row.file = tx[s].file
      /\ row.status = "TAKEN" => row.kind = "LEAVE"
    BY <1>1, <1>2 DEF HandlerFine, HandlerRow, RequestRow
<1>4. RowFine(r, row)
    BY <1>3 DEF RowFine
<1> QED
    BY <1>1, <1>2, <1>3, <1>4, StoredFine

\* A decision changes the status alone.
LEMMA DecidedRow ==
    ASSUME TablesFine, NEW r \in Request, NEW status \in {"APPROVED", "REJECTED"},
           request' = [request EXCEPT ![r].status = status]
    PROVE  /\ request' \in [Request -> RequestRow]
           /\ request'[r].status = status /\ request'[r].file = request[r].file
           /\ request'[r].kind = request[r].kind
           /\ \A q \in Request : q # r => request'[q] = request[q]
           /\ \A q \in Request : RowFine(q, request'[q])
<1>1. PICK row : row = [request[r] EXCEPT !.status = status]
    OBVIOUS
<1>2. RowFine(r, request[r])
    BY DEF TablesFine
<1>3. row.status = status /\ row.file = request[r].file /\ row.kind = request[r].kind
    BY <1>1, <1>2 DEF RequestRow, RowFine
<1>4. RowFine(r, row)
    BY <1>1, <1>2, <1>3 DEF RequestRow, RowFine
<1> QED
    BY <1>1, <1>3, <1>4, StoredFine

\* A withdrawal leaves nothing.
LEMMA WithdrawnRow ==
    ASSUME TablesFine, NEW r \in Request,
           request' = [request EXCEPT ![r] = [NoRequest EXCEPT !.status = "gone"]]
    PROVE  /\ request' \in [Request -> RequestRow]
           /\ request'[r].status = "gone" /\ request'[r].kind = None
           /\ \A q \in Request : q # r => request'[q] = request[q]
           /\ \A q \in Request : RowFine(q, request'[q])
<1>1. PICK row : row = [NoRequest EXCEPT !.status = "gone"]
    OBVIOUS
<1>2. /\ row \in RequestRow /\ row.status = "gone" /\ row.kind = None
      /\ row.file = {}
    BY <1>1 DEF RequestRow, NoRequest
<1>3. RowFine(r, row)
    BY <1>2 DEF RowFine
<1> QED
    BY <1>1, <1>2, <1>3, StoredFine

\* Copies for HR.
LEMMA ToHrRows ==
    ASSUME NotesFine, NEW A \in SUBSET Hr, NEW r \in Request,
           NEW type \in {"SUBMITTED", "DECIDED", "REQUEST_CANCELLED", "CONTRACT_ENDING"},
           NEW x \in ToHr(A, type, r)
    PROVE  x \in Note /\ x.to \in A /\ x.type = type /\ x.about = r /\ x.key = None
<1>1. PICK h \in A : x = Fresh(h, type, r, None)
    BY DEF ToHr
<1>2. PICK key \in {"APPROVED", "REJECTED", None} \cup ContractEnd : key = None
    OBVIOUS
<1>3. x = Fresh(h, type, r, key) /\ h \in Hr \cup {Owner} /\ r \in Request \cup Employment
    BY <1>1, <1>2
<1>4. x \in Note /\ x.to = h /\ x.type = type /\ x.about = r /\ x.key = key
    BY <1>3, FreshFine
<1> QED
    BY <1>2, <1>4

\* They are open.
LEMMA ToHrOpen ==
    ASSUME NotesFine, NEW A \in SUBSET Hr, NEW r \in Request,
           NEW type \in {"SUBMITTED", "DECIDED", "REQUEST_CANCELLED", "CONTRACT_ENDING"},
           NEW x \in ToHr(A, type, r)
    PROVE  ~x.resolved
<1>1. PICK h \in A : x = Fresh(h, type, r, None)
    BY DEF ToHr
<1>2. PICK key \in {"APPROVED", "REJECTED", None} \cup ContractEnd : key = None
    OBVIOUS
<1>3. x = Fresh(h, type, r, key) /\ h \in Hr \cup {Owner} /\ r \in Request \cup Employment
    BY <1>1, <1>2
<1> QED
    BY <1>3, FreshFine

\* They are fine, and as many as accounts.
LEMMA ToHrFine ==
    ASSUME NotesFine, NEW A \in SUBSET Hr, NEW r \in Request,
           NEW type \in {"SUBMITTED", "DECIDED", "REQUEST_CANCELLED", "CONTRACT_ENDING"},
           type \in {"SUBMITTED", "REQUEST_CANCELLED"}
    PROVE  /\ IsFiniteSet(ToHr(A, type, r))
           /\ \A x \in ToHr(A, type, r) : NoteFine(x)
<1> DEFINE f == [h \in A |-> Fresh(h, type, r, None)]
<1>1. f \in Surjection(A, ToHr(A, type, r))
    BY DEF ToHr, Surjection
<1>2. IsFiniteSet(A)
    BY FiniteAssumption, FS_Subset
<1>3. IsFiniteSet(ToHr(A, type, r))
    BY <1>1, <1>2, FS_Surjection
<1>4. ASSUME NEW x \in ToHr(A, type, r) PROVE NoteFine(x)
    <2>1. x \in Note /\ x.to \in Hr /\ x.type = type /\ x.about = r
        BY ToHrRows
    <2>2. x.to # Owner /\ r \notin Employment
        BY <2>1, AccountAssumption, SubjectAssumption
    <2> QED
        BY <2>1, <2>2 DEF NoteFine
<1> QED
    BY <1>3, <1>4

\* So is the answer to the owner, ...
LEMMA AnswerFine ==
    ASSUME NotesFine, NEW r \in Request, NEW status \in {"APPROVED", "REJECTED"}
    PROVE  LET x == Fresh(Owner, "DECIDED", r, status)
           IN  NoteFine(x) /\ x.to = Owner /\ x.type = "DECIDED" /\ x.about = r /\ x.key = status
<1>1. PICK x : x = Fresh(Owner, "DECIDED", r, status)
    OBVIOUS
<1>2. x \in Note /\ x.to = Owner /\ x.type = "DECIDED" /\ x.about = r /\ x.key = status
    <2>1. /\ Owner \in Hr \cup {Owner} /\ r \in Request \cup Employment
          /\ status \in {"APPROVED", "REJECTED", None} \cup ContractEnd
        OBVIOUS
    <2> QED
        BY <1>1, <2>1, FreshFine
<1>3. r \notin Employment
    BY SubjectAssumption
<1> QED
    BY <1>1, <1>2, <1>3 DEF NoteFine

\* ... and the reminders.
LEMMA RemindersFine ==
    ASSUME NotesFine, NEW M, IsFiniteSet(M), M \in SUBSET (Hr \X Employment \X ContractEnd)
    PROVE  LET F == {Fresh(x[1], "CONTRACT_ENDING", x[2], x[3]) : x \in M}
           IN  /\ IsFiniteSet(F)
               /\ \A y \in F : \E x \in M :
                     /\ NoteFine(y) /\ y.type = "CONTRACT_ENDING" /\ ~y.resolved
                     /\ y.to = x[1] /\ y.about = x[2] /\ y.key = x[3]
                     /\ y = Fresh(x[1], "CONTRACT_ENDING", x[2], x[3])
<1> DEFINE F == {Fresh(x[1], "CONTRACT_ENDING", x[2], x[3]) : x \in M}
           f == [x \in M |-> Fresh(x[1], "CONTRACT_ENDING", x[2], x[3])]
<1>1. f \in Surjection(M, F)
    BY DEF Surjection
<1>2. IsFiniteSet(F)
    BY <1>1, FS_Surjection
<1>3. ASSUME NEW x \in M
      PROVE  LET y == Fresh(x[1], "CONTRACT_ENDING", x[2], x[3])
             IN  /\ NoteFine(y) /\ y.type = "CONTRACT_ENDING" /\ ~y.resolved
                 /\ y.to = x[1] /\ y.about = x[2] /\ y.key = x[3]
    <2>1. PICK h \in Hr, e \in Employment, c \in ContractEnd : x = <<h, e, c>>
        OBVIOUS
    <2>2. PICK y : y = Fresh(h, "CONTRACT_ENDING", e, c)
        OBVIOUS
    <2>3. /\ y \in Note /\ y.to = h /\ y.type = "CONTRACT_ENDING" /\ y.about = e /\ y.key = c
          /\ ~y.resolved
        <3>1. /\ h \in Hr \cup {Owner} /\ e \in Request \cup Employment
              /\ c \in {"APPROVED", "REJECTED", None} \cup ContractEnd
            OBVIOUS
        <3>2. ~y.resolved
            BY <2>2, <3>1, FreshFine
        <3>3. /\ y \in Note /\ y.to = h /\ y.type = "CONTRACT_ENDING" /\ y.about = e
              /\ y.key = c
            BY <2>2, <3>1, FreshFine
        <3> QED
            BY <3>2, <3>3
    <2>4. h # Owner
        BY AccountAssumption
    <2> QED
        BY <2>1, <2>2, <2>3, <2>4 DEF NoteFine
<1> QED
    BY <1>2, <1>3

-----------------------------------------------------------------------------
(* Types *)

\* All of it is fine at first.
LEMMA InitTypes == Init => TypeInv
<1> SUFFICES ASSUME Init PROVE TypeInv
    OBVIOUS
<1>1. NoRequest \in RequestRow /\ \A r \in Request : RowFine(r, NoRequest)
    BY DEF NoRequest, RequestRow, RowFine
<1>2. request = [r \in Request |-> NoRequest] /\ disk = {} /\ active \in SUBSET Hr
    BY DEF Init
<1>3. emp \in [Employment -> [open : BOOLEAN, contract : ContractEnd \cup {None}]]
    BY DEF Init
<1>4. TablesFine
    BY <1>1, <1>2, <1>3 DEF TablesFine
<1>5. NotesFine
    BY FS_EmptySet DEF Init, NotesFine
<1>6. HandlersFine
    BY IdleFine DEF Init, HandlersFine, HandlerFine
<1> QED
    BY <1>4, <1>5, <1>6 DEF TypeInv

\* The tables of requests, employments, accounts and files.
LEMMA FilingTables ==
    ASSUME TypeInv, NEW s \in Session, Filing(s)
    PROVE  TablesFine'
<1>0. TablesFine /\ HandlersFine /\ HandlerFine(tx[s])
    BY DEF TypeInv, HandlersFine
<1>1. ASSUME NEW r \in Request, NEW k \in Kind, NEW d \in Date, StartCreate(s, r, k, d)
      PROVE  TablesFine'
    BY <1>0, <1>1 DEF StartCreate, TablesFine
<1>2. CASE CommitCreate(s)
    BY <1>0, <1>2, CreatedRow DEF CommitCreate, TablesFine
<1>3. CASE CommitReview(s)
    <2>1. PICK r \in Request, status \in {"APPROVED", "REJECTED"} :
             request' = [request EXCEPT ![r].status = status]
        BY <1>0, <1>3 DEF CommitReview, HandlerFine
    <2> QED
        BY <1>0, <1>3, <2>1, DecidedRow DEF CommitReview, TablesFine
<1>4. CASE CommitCancel(s)
    <2>1. tx[s].req \in Request
        BY <1>0, <1>4 DEF CommitCancel, HandlerFine
    <2> QED
        BY <1>0, <1>4, <2>1, WithdrawnRow DEF CommitCancel, TablesFine
<1>5. CASE Unlink(s)
    BY <1>0, <1>5 DEF Unlink, TablesFine
<1>6. CASE UNCHANGED <<request, emp, active, disk>>
    BY <1>0, <1>6 DEF TablesFine
<1>7. ASSUME NEW r \in Request, StartReview(s, r) \/ StartCancel(s, r) PROVE TablesFine'
    BY <1>6, <1>7 DEF StartReview, StartCancel
<1> QED
    BY <1>1, <1>2, <1>3, <1>4, <1>5, <1>6, <1>7 DEF Filing, ReadHr, LostRace

\* Every step leaves the tables fine.
LEMMA NextTables ==
    ASSUME TypeInv, [Next]_vars
    PROVE  TablesFine'
<1>0. TablesFine /\ HandlersFine
    BY DEF TypeInv
<1>1. CASE UNCHANGED <<request, emp, active, disk>>
    BY <1>0, <1>1 DEF TablesFine
<1>2. ASSUME NEW s \in Session, Reminding(s) PROVE TablesFine'
    <2>1. CASE CommitTerminate(s)
        <3>1. emp' \in [Employment -> [open : BOOLEAN, contract : ContractEnd \cup {None}]]
            BY <1>0, <2>1 DEF CommitTerminate, TablesFine
        <3> QED
            BY <1>0, <2>1, <3>1 DEF CommitTerminate, TablesFine
    <2>2. ASSUME NEW e \in Employment, StartTerminate(s, e) PROVE TablesFine'
        BY <1>1, <2>2 DEF StartTerminate
    <2> QED
        BY <1>1, <1>2, <2>1, <2>2 DEF Reminding, StartRemind, ReadHeld, CommitRemind, ReadUnread
<1>3. ASSUME NEW s \in Session, Fail(s) PROVE TablesFine'
    BY <1>0, <1>3 DEF Fail, TablesFine
<1>4. ASSUME NEW e \in Employment, NEW c \in ContractEnd \cup {None}, SetContract(e, c)
      PROVE  TablesFine'
    <2>1. emp' \in [Employment -> [open : BOOLEAN, contract : ContractEnd \cup {None}]]
        BY <1>0, <1>4 DEF SetContract, TablesFine
    <2> QED
        BY <1>0, <1>4, <2>1 DEF SetContract, TablesFine
<1>5. ASSUME NEW h \in Hr, SetActive(h) PROVE TablesFine'
    BY <1>0, <1>5 DEF SetActive, TablesFine
<1>6. ASSUME NEW u \in Hr \cup {Owner}, Reading(u) PROVE TablesFine'
    BY <1>1, <1>6 DEF Reading, MarkRead
<1> QED
    BY <1>1, <1>2, <1>3, <1>4, <1>5, <1>6, FilingTables DEF Next, Restart, vars

\* Which steps touch a notification.
LEMMA OthersNote ==
    ASSUME [Next]_vars
    PROVE  \/ notes' = notes
           \/ \E s \in Session : \/ CommitCreate(s) \/ CommitReview(s) \/ CommitCancel(s)
                                 \/ CommitRemind(s) \/ CommitTerminate(s)
           \/ request' = request /\ \E u, X : X \in SUBSET notes /\ MarkRead(u, X)
<1>1. ASSUME NEW u, Reading(u)
      PROVE  request' = request /\ \E X : X \in SUBSET notes /\ MarkRead(u, X)
    <2>1. PICK U : U = {x \in notes : x.to = u /\ ~x.read}
        OBVIOUS
    <2>2. U \in SUBSET notes /\ \A x \in U : {x} \in SUBSET notes
        BY <2>1
    <2>3. MarkRead(u, U) \/ \E x \in U : MarkRead(u, {x})
        BY <1>1, <2>1 DEF Reading
    <2>4. \E X \in SUBSET notes : MarkRead(u, X)
        BY <2>2, <2>3
    <2> QED
        BY <2>4 DEF MarkRead
<1> QED
    BY <1>1 DEF Next, vars, Filing, Reminding, StartCreate, StartReview, StartCancel, ReadHr, Unlink,
       LostRace, StartRemind, ReadHeld, StartTerminate, ReadUnread, Fail, SetContract, SetActive, Restart

\* The notifications.
LEMMA NextNotes ==
    ASSUME TypeInv, [Next]_vars
    PROVE  NotesFine'
<1>0. NotesFine /\ HandlersFine /\ \A s \in Session : HandlerFine(tx[s]) /\ tx[s].hr \in SUBSET Hr
    BY DEF TypeInv, HandlersFine, HandlerFine, HandlerRow
<1>1. CASE notes' = notes
    BY <1>0, <1>1 DEF NotesFine, NoteFine
<1>2. ASSUME NEW s \in Session, CommitCreate(s) PROVE NotesFine'
    <2>1. tx[s].req \in Request
        BY <1>0, <1>2 DEF CommitCreate, HandlerFine
    <2>2. PICK F : F = ToHr(tx[s].hr, "SUBMITTED", tx[s].req)
        OBVIOUS
    <2>3. notes' = notes \cup F
        BY <1>2, <2>2 DEF CommitCreate
    <2>4. IsFiniteSet(F) /\ \A x \in F : NoteFine(x)
        BY <1>0, <2>1, <2>2, ToHrFine
    <2> QED
        BY <1>0, <2>3, <2>4, FS_Union DEF NotesFine, NoteFine
<1>3. ASSUME NEW s \in Session, CommitReview(s) PROVE NotesFine'
    <2>1. PICK r \in Request, status \in {"APPROVED", "REJECTED"} :
             notes' = Resolve(r) \cup {Fresh(Owner, "DECIDED", r, status)}
        BY <1>0, <1>3 DEF CommitReview, HandlerFine
    <2>2. PICK y : y = Fresh(Owner, "DECIDED", r, status)
        OBVIOUS
    <2>3. NoteFine(y)
        BY <1>0, <2>2, AnswerFine
    <2>4. IsFiniteSet({y})
        BY FS_Singleton
    <2>5. PICK m : Carries(m) /\ Resolve(r) = {m[x] : x \in notes}
        BY <1>0, ResolveCarries
    <2> QED
        BY <1>0, <2>1, <2>2, <2>3, <2>4, <2>5, NotesStayFine
<1>4. ASSUME NEW s \in Session, CommitCancel(s) PROVE NotesFine'
    <2>1. tx[s].req \in Request
        BY <1>0, <1>4 DEF CommitCancel, HandlerFine
    <2>2. PICK F : F = IF Unresolved(tx[s].req) = {} THEN {}
                       ELSE ToHr(tx[s].hr, "REQUEST_CANCELLED", tx[s].req)
        OBVIOUS
    <2>3. notes' = Resolve(tx[s].req) \cup F
        BY <1>4, <2>2 DEF CommitCancel
    <2>4. IsFiniteSet(F) /\ \A x \in F : NoteFine(x)
        BY <1>0, <2>1, <2>2, ToHrFine, FS_EmptySet
    <2>5. PICK m : Carries(m) /\ Resolve(tx[s].req) = {m[x] : x \in notes}
        BY <1>0, ResolveCarries
    <2> QED
        BY <1>0, <2>3, <2>4, <2>5, NotesStayFine
<1>5. ASSUME NEW s \in Session, CommitRemind(s) PROVE NotesFine'
    <2>1. PICK M : M = tx[s].missing
        OBVIOUS
    <2>2. IsFiniteSet(M) /\ M \in SUBSET (Hr \X Employment \X ContractEnd)
        BY <1>0, <2>1, MissingFinite DEF HandlerFine, HandlerRow
    <2>3. PICK F : F = {Fresh(x[1], "CONTRACT_ENDING", x[2], x[3]) : x \in M}
        OBVIOUS
    <2>4. notes' = notes \cup F
        BY <1>5, <2>1, <2>3 DEF CommitRemind
    <2>5. IsFiniteSet(F) /\ \A x \in F : NoteFine(x)
        BY <1>0, <2>2, <2>3, RemindersFine
    <2> QED
        BY <1>0, <2>4, <2>5, FS_Union DEF NotesFine, NoteFine
<1>6. ASSUME NEW s \in Session, CommitTerminate(s) PROVE NotesFine'
    <2>1. PICK m : Carries(m) /\ notes' = {m[x] : x \in notes} \cup {}
        BY <1>0, <1>6, TerminationCarries
    <2> QED
        BY <1>0, <2>1, NotesStayFine, FS_EmptySet
<1>7. ASSUME NEW u, NEW X \in SUBSET notes, MarkRead(u, X) PROVE NotesFine'
    <2>1. PICK m : Carries(m) /\ notes' = {m[x] : x \in notes} \cup {}
        BY <1>0, <1>7, ReadingCarries
    <2> QED
        BY <1>0, <2>1, NotesStayFine, FS_EmptySet
<1> QED
    BY <1>1, <1>2, <1>3, <1>4, <1>5, <1>6, <1>7, OthersNote

\* The handlers of requests, ...
LEMMA FilingHandlers ==
    ASSUME TypeInv, NEW s \in Session, Filing(s)
    PROVE  HandlersFine'
<1>0. TablesFine /\ HandlersFine /\ HandlerFine(tx[s])
    BY DEF TypeInv, HandlersFine
<1>1. ASSUME NEW r \in Request, NEW k \in Kind, NEW d \in Date, StartCreate(s, r, k, d)
      PROVE  HandlersFine'
    <2>1. PICK f \in SUBSET {FileOf[r]} : f = IF k = "REIMBURSEMENT" THEN {FileOf[r]} ELSE {}
        OBVIOUS
    <2>2. tx' = [tx EXCEPT ![s] = [Idle EXCEPT !.op = "create", !.pc = "hr", !.req = r,
                                               !.kind = k, !.date = d, !.file = f]]
        BY <1>1, <2>1 DEF StartCreate
    <2> QED
        BY <1>0, <2>2, CreateFine, OneChanges
<1>2. ASSUME NEW r \in Request, StartReview(s, r) PROVE HandlersFine'
    BY <1>0, <1>2, ReviewFine, OneChanges DEF StartReview
<1>3. ASSUME NEW r \in Request, StartCancel(s, r) PROVE HandlersFine'
    <2>1. request[r].file \in SUBSET {FileOf[r]}
        BY <1>0 DEF TablesFine, RowFine
    <2> QED
        BY <1>0, <1>3, <2>1, CancelFine, OneChanges DEF StartCancel
<1>4. CASE ReadHr(s)
    <2>1. tx' = [tx EXCEPT ![s] = [tx[s] EXCEPT !.hr = active,
                             !.pc = IF tx[s].op = "remind" THEN "held" ELSE "commit"]]
        BY <1>4 DEF ReadHr
    <2>2. active \in SUBSET Hr /\ tx[s].pc = "hr"
        BY <1>0, <1>4 DEF ReadHr, TablesFine
    <2> QED
        BY <1>0, <2>1, <2>2, HrFine, OneChanges
<1>5. CASE CommitCancel(s)
    <2>1. tx' = [tx EXCEPT ![s] = IF tx[s].file = {} THEN Idle ELSE [tx[s] EXCEPT !.pc = "unlink"]]
        BY <1>0, <1>5 DEF CommitCancel
    <2>2. HandlerFine([tx[s] EXCEPT !.pc = "unlink"])
        BY <1>0, <1>5, UnlinkFine DEF CommitCancel
    <2> QED
        BY <1>0, <2>1, <2>2, IdleFine, OneChanges
<1>6. CASE End(s)
    BY <1>0, <1>6, OneEnds
<1> QED
    BY <1>1, <1>2, <1>3, <1>4, <1>5, <1>6
       DEF Filing, CommitCreate, CommitReview, Unlink, LostRace

\* ... those of reminders, ...
LEMMA RemindingHandlers ==
    ASSUME TypeInv, NEW s \in Session, Reminding(s)
    PROVE  HandlersFine'
<1>0. HandlersFine /\ HandlerFine(tx[s]) /\ \A X \in SUBSET notes : X \in SUBSET Note
    BY DEF TypeInv, HandlersFine, NotesFine, NoteFine
<1>1. CASE StartRemind(s)
    <2>1. PICK D \in SUBSET (Employment \X ContractEnd) :
             tx' = [tx EXCEPT ![s] = [Idle EXCEPT !.op = "remind", !.pc = "hr", !.due = D]]
        BY <1>1 DEF StartRemind
    <2> QED
        BY <1>0, <2>1, RemindFine, OneChanges
<1>2. CASE ReadHeld(s)
    <2>1. PICK M \in SUBSET (Hr \X Employment \X ContractEnd) :
             tx' = [tx EXCEPT ![s] = [tx[s] EXCEPT !.pc = "commit", !.due = {}, !.hr = {},
                                                   !.missing = M]]
        BY <1>2 DEF ReadHeld
    <2>2. tx[s].pc = "held"
        BY <1>2 DEF ReadHeld
    <2>3. HandlerFine([tx[s] EXCEPT !.pc = "commit", !.due = {}, !.hr = {}, !.missing = M])
        BY <1>0, <2>2, HeldFine
    <2> QED
        BY <1>0, <2>1, <2>3, OneChanges
<1>3. ASSUME NEW e \in Employment, StartTerminate(s, e) PROVE HandlersFine'
    <2>1. Unresolved(e) \in SUBSET Note
        BY <1>0 DEF Unresolved
    <2> QED
        BY <1>0, <1>3, <2>1, TerminateFine, OneChanges DEF StartTerminate
<1>4. CASE ReadUnread(s)
    <2>1. PICK X \in SUBSET notes :
             tx' = [tx EXCEPT ![s] = [tx[s] EXCEPT !.pc = "commit", !.reading = X]]
        BY <1>4 DEF ReadUnread
    <2>2. tx[s].pc = "read" /\ X \in SUBSET Note
        BY <1>0, <1>4 DEF ReadUnread
    <2>3. HandlerFine([tx[s] EXCEPT !.pc = "commit", !.reading = X])
        BY <1>0, <2>2, UnreadFine
    <2> QED
        BY <1>0, <2>1, <2>3, OneChanges
<1>5. CASE End(s)
    BY <1>0, <1>5, OneEnds
<1> QED
    BY <1>1, <1>2, <1>3, <1>4, <1>5 DEF Reminding, CommitRemind, CommitTerminate

\* ... and all of them.
LEMMA NextTypes ==
    ASSUME TypeInv, [Next]_vars
    PROVE  TypeInv'
<1>0. HandlersFine
    BY DEF TypeInv
<1>1. ASSUME tx' = tx PROVE HandlersFine'
    BY <1>0, <1>1 DEF HandlersFine
<1>2. ASSUME Restart PROVE HandlersFine'
    <2>1. tx' = [s \in Session |-> Idle] /\ Idle \in HandlerRow
        BY <1>2, IdleFine DEF Restart, HandlerFine
    <2> QED
        BY <2>1, IdleFine DEF HandlersFine
<1>3. ASSUME NEW s \in Session, Fail(s) PROVE HandlersFine'
    BY <1>0, <1>3, OneEnds DEF Fail
<1>4. HandlersFine'
    BY <1>1, <1>2, <1>3, FilingHandlers, RemindingHandlers
       DEF Next, SetContract, SetActive, Reading, MarkRead, vars
<1> QED
    BY <1>4, NextTables, NextNotes DEF TypeInv

-----------------------------------------------------------------------------
(* What handlers know *)

\* A request that is decided or withdrawn stays so: the steps of its row.
LEMMA RowSteps ==
    ASSUME TypeInv, [Next]_vars
    PROVE  \/ request' = request
           \/ \E s \in Session : /\ CommitCreate(s) \/ CommitReview(s) \/ CommitCancel(s)
                                 /\ tx[s].req \in Request
                                 /\ \A q \in Request : q # tx[s].req => request'[q] = request[q]
<1>1. ASSUME NEW s \in Session, CommitCreate(s) \/ CommitReview(s) \/ CommitCancel(s)
      PROVE  /\ tx[s].req \in Request
             /\ \A q \in Request : q # tx[s].req => request'[q] = request[q]
    <2>1. tx[s].req \in Request
        BY <1>1 DEF CommitCreate, CommitReview, CommitCancel, TypeInv, HandlersFine, HandlerFine
    <2> QED
        BY <1>1, <2>1 DEF CommitCreate, CommitReview, CommitCancel, TypeInv, TablesFine
<1> QED
    BY <1>1 DEF Next, vars, Filing, Reminding, StartCreate, StartReview, StartCancel, ReadHr, Unlink,
       LostRace, StartRemind, ReadHeld, StartTerminate, ReadUnread, CommitRemind, CommitTerminate,
       Fail, SetContract, SetActive, Reading, MarkRead, Restart

\* What a step of the handler s leaves true of the handler t.
LEMMA OtherFiles ==
    ASSUME NEW s \in Session, NEW t \in Session, t # s, Files(t),
           \A u \in Session : u # s => tx'[u] = tx[u],
           tx[t].op \in {"create", "review", "cancel"} =>
              request'[tx[t].req] = request[tx[t].req],
           tx[t].op = "create" => tx'[s].req # tx[t].req,
           Holds(t) => ~(tx'[s].op = "cancel" /\ tx'[s].pc # "unlink" /\ tx'[s].req = tx[t].req),
           tx[t].pc = "unlink" => tx[t].op = "cancel"
    PROVE  Files(t)'
<1>1. tx'[t] = tx[t]
    OBVIOUS
<1>2. Holds(t)' => Holds(t)
    BY <1>1 DEF Holds
<1>3. ASSUME Holds(t)', NEW u \in Session, Holds(u)', tx'[u].req = tx'[t].req PROVE u = t
    <2>1. Holds(t) /\ tx'[u].op = "cancel" /\ tx'[u].pc # "unlink"
        BY <1>2, <1>3 DEF Holds
    <2>2. u # s
        BY <1>1, <1>3, <2>1
    <2>3. tx'[u] = tx[u] /\ request'[tx[t].req] = request[tx[t].req]
        BY <2>1, <2>2 DEF Holds
    <2>4. Holds(u)
        BY <1>1, <1>3, <2>3 DEF Holds
    <2> QED
        BY <1>1, <1>3, <2>1, <2>3, <2>4 DEF Files
<1> QED
    BY <1>1, <1>2, <1>3 DEF Files, Holds

\* A handler that ended knows nothing.
LEMMA IdleFiles == ASSUME NEW s, tx'[s] = Idle PROVE Files(s)'
BY DEF Files, Holds, Idle

\* A step of s that takes no new request and leaves every row alone.
LEMMA QuietFiles ==
    ASSUME TypeInv, HandlerInv, NEW s \in Session, request' = request,
           \A u \in Session : u # s => tx'[u] = tx[u], Files(s)',
           \/ tx'[s].op \notin {"create", "review", "cancel"} /\ tx'[s].req = None
           \/ /\ tx'[s].op = tx[s].op /\ tx'[s].req = tx[s].req
              /\ tx[s].op = "cancel" => tx[s].pc # "unlink"
    PROVE  \A t \in Session : Files(t)'
<1>1. ASSUME NEW t \in Session, t # s PROVE Files(t)'
    <2>1. Files(t) /\ HandlerFine(tx[t])
        BY DEF HandlerInv, TypeInv, HandlersFine
    <2>2. tx[t].op = "create" => tx[t].req # None /\ tx[s].req # tx[t].req
        BY <1>1, <2>1, SubjectAssumption DEF Files, HandlerFine
    <2>3. ASSUME Holds(t), tx'[s].op = "cancel", tx'[s].req = tx[t].req PROVE FALSE
        <3>1. Holds(s)
            BY <2>3 DEF Holds
        <3> QED
            BY <1>1, <2>1, <2>3, <3>1 DEF Files, Holds
    <2>4. tx[t].pc = "unlink" => tx[t].op = "cancel"
        BY <2>1 DEF HandlerFine
    <2>5. tx[t].op = "create" => tx'[s].req # tx[t].req
        BY <2>2
    <2> QED
        BY <1>1, <2>1, <2>3, <2>4, <2>5, OtherFiles
<1> QED
    BY <1>1

\* A handler that ends.
LEMMA EndFiles ==
    ASSUME TypeInv, HandlerInv, NEW s \in Session, request' = request, End(s)
    PROVE  \A t \in Session : Files(t)'
<1>1. tx'[s] = Idle /\ \A u \in Session : u # s => tx'[u] = tx[u]
    BY OneEnds DEF TypeInv
<1>2. Files(s)' /\ tx'[s].op = "none" /\ tx'[s].req = None
    BY <1>1, IdleFiles DEF Idle
<1> QED
    BY <1>1, <1>2, QuietFiles

\* A new handler of the request r, which no creator and no holder has.
LEMMA StartFiles ==
    ASSUME TypeInv, HandlerInv, NEW s \in Session, NEW r, request' = request,
           \A u \in Session : u # s => tx'[u] = tx[u], Files(s)', tx'[s].req = r,
           \A t \in Session : t # s => /\ tx[t].op = "create" => tx[t].req # r
                                       /\ ~(tx'[s].op = "cancel" /\ Holds(t) /\ tx[t].req = r)
    PROVE  \A t \in Session : Files(t)'
<1>1. ASSUME NEW t \in Session, t # s PROVE Files(t)'
    <2>1. Files(t) /\ (tx[t].pc = "unlink" => tx[t].op = "cancel")
        BY DEF HandlerInv, TypeInv, HandlersFine, HandlerFine
    <2> QED
        BY <1>1, <2>1, OtherFiles
<1> QED
    BY <1>1

\* The handlers that begin.
LEMMA StartsFiles ==
    ASSUME TypeInv, HandlerInv, NEW s \in Session, NEW r \in Request,
           \/ \E k \in Kind, d \in Date : StartCreate(s, r, k, d)
           \/ StartReview(s, r) \/ StartCancel(s, r)
    PROVE  \A t \in Session : Files(t)'
<1>0. tx \in [Session -> HandlerRow] /\ RowFine(r, request[r]) /\ \A t \in Session : Files(t)
    BY DEF TypeInv, HandlersFine, TablesFine, HandlerInv
<1>1. ASSUME NEW k \in Kind, NEW d \in Date, StartCreate(s, r, k, d)
      PROVE  \A t \in Session : Files(t)'
    <2>1. /\ tx'[s].op = "create" /\ tx'[s].req = r /\ tx'[s].pc = "hr"
          /\ \A u \in Session : u # s => tx'[u] = tx[u]
        BY <1>0, <1>1 DEF StartCreate, Idle
    <2>2. request' = request /\ request[r].status = "none" /\ \A t \in Session : tx[t].req # r
        BY <1>1 DEF StartCreate
    <2>3. Files(s)'
        BY <2>1, <2>2 DEF Files, Holds
    <2> QED
        BY <2>1, <2>2, <2>3, StartFiles
<1>2. CASE StartReview(s, r)
    <2>1. /\ tx'[s].op = "review" /\ tx'[s].req = r /\ tx'[s].pc = "commit"
          /\ \A u \in Session : u # s => tx'[u] = tx[u]
        BY <1>0, <1>2 DEF StartReview, Idle
    <2>2. request' = request /\ request[r].status = "PENDING"
        BY <1>2 DEF StartReview
    <2>3. Files(s)'
        BY <2>1, <2>2 DEF Files, Holds
    <2>4. \A t \in Session : tx[t].op = "create" => tx[t].req # r
        BY <1>0, <2>2 DEF Files
    <2> QED
        BY <2>1, <2>2, <2>3, <2>4, StartFiles
<1>3. CASE StartCancel(s, r)
    <2>1. /\ tx'[s].op = "cancel" /\ tx'[s].req = r /\ tx'[s].pc = "hr"
          /\ \A u \in Session : u # s => tx'[u] = tx[u]
        BY <1>0, <1>3 DEF StartCancel, Idle
    <2>2. request' = request /\ request[r].status \in {"PENDING", "TAKEN"} /\ Holding(r) = {}
        BY <1>3 DEF StartCancel
    <2>3. \A t \in Session : ~(Holds(t) /\ tx[t].req = r)
        BY <2>2 DEF Holding, Holds
    <2>4. \A u \in Session : u # s => (Holds(u)' <=> Holds(u))
        BY <2>1, <2>2 DEF Holds
    <2>5. Holds(s)' => request[r].status = "PENDING"
        BY <1>0, <2>1, <2>2 DEF Holds, RowFine
    <2>6. Files(s)'
        BY <2>1, <2>2, <2>3, <2>4, <2>5 DEF Files
    <2>7. \A t \in Session : tx[t].op = "create" => tx[t].req # r
        BY <1>0, <2>2 DEF Files
    <2> QED
        BY <2>1, <2>2, <2>3, <2>6, <2>7, StartFiles
<1> QED
    BY <1>1, <1>2, <1>3

\* A review or a withdrawal that commits meets no creator and no holder but itself.
LEMMA CommitsFiles ==
    ASSUME TypeInv, HandlerInv, NEW s \in Session,
           CommitCreate(s) \/ CommitReview(s) \/ CommitCancel(s)
    PROVE  \A t \in Session : Files(t)'
<1>0. /\ TablesFine /\ HandlersFine /\ HandlerFine(tx[s])
      /\ \A t \in Session : Files(t) /\ HandlerFine(tx[t])
    BY DEF TypeInv, HandlersFine, HandlerInv
<1>1. PICK r \in Request : r = tx[s].req
    BY <1>0 DEF CommitCreate, CommitReview, CommitCancel, HandlerFine
<1>2. \A q \in Request : q # r => request'[q] = request[q]
    BY <1>0, <1>1 DEF CommitCreate, CommitReview, CommitCancel, TablesFine
<1>3. /\ \A u \in Session : u # s => tx'[u] = tx[u]
      /\ \/ tx'[s] = Idle
         \/ tx'[s].pc = "unlink" /\ tx'[s].req = r /\ tx'[s].op = "cancel"
    <2>1. CASE End(s)
        <3>1. tx'[s] = Idle /\ \A u \in Session : u # s => tx'[u] = tx[u]
            BY <1>0, <2>1, OneEnds
        <3> QED
            BY <3>1
    <2>2. CASE CommitCancel(s) /\ ~End(s)
        <3>1. tx[s] \in HandlerRow /\ tx \in [Session -> HandlerRow] /\ tx[s].op = "cancel"
            BY <1>0, <2>2 DEF CommitCancel, HandlerFine, HandlersFine
        <3>2. tx' = [tx EXCEPT ![s] = [tx[s] EXCEPT !.pc = "unlink"]]
            BY <2>2 DEF CommitCancel, End
        <3>3. LET x == [tx[s] EXCEPT !.pc = "unlink"]
              IN  x.pc = "unlink" /\ x.req = tx[s].req /\ x.op = tx[s].op
            BY <3>1 DEF HandlerRow
        <3> QED
            BY <1>1, <3>1, <3>2, <3>3
    <2> QED
        BY <2>1, <2>2 DEF CommitCreate, CommitReview
<1>4. ASSUME NEW t \in Session, t # s, tx[t].req # r PROVE Files(t)'
    <2>1. tx[t].op \in {"create", "review", "cancel"} => request'[tx[t].req] = request[tx[t].req]
        BY <1>0, <1>2, <1>4 DEF HandlerFine
    <2>2. tx[t].op = "create" => tx'[s].req # tx[t].req
        BY <1>0, <1>3, <1>4, SubjectAssumption DEF HandlerFine, Idle
    <2>3. ~(tx'[s].op = "cancel" /\ tx'[s].pc # "unlink")
        BY <1>3 DEF Idle
    <2>4. tx[t].pc = "unlink" => tx[t].op = "cancel"
        BY <1>0 DEF HandlerFine
    <2> QED
        BY <1>0, <1>3, <1>4, <2>1, <2>2, <2>3, <2>4, OtherFiles
<1>5. ASSUME NEW t \in Session, t # s, tx[t].req = r PROVE Files(t)'
    <2>1. tx'[t] = tx[t]
        BY <1>3, <1>5
    <2>2. CASE CommitCreate(s)
        BY <1>0, <1>1, <1>5, <2>2 DEF CommitCreate, Files
    <2>3. CASE CommitReview(s)
        <3>1. request[r].status = "PENDING" /\ Holding(r) = {}
            BY <1>1, <2>3 DEF CommitReview
        <3>2. request'[r].kind = request[r].kind /\ request'[r].status \in {"APPROVED", "REJECTED"}
            <4>1. PICK status \in {"APPROVED", "REJECTED"} :
                     request' = [request EXCEPT ![r].status = status]
                BY <1>1, <2>3 DEF CommitReview
            <4> QED
                BY <1>0, <4>1, DecidedRow
        <3>3. ~Holds(t) /\ tx[t].op # "create" /\ tx[t].pc # "unlink"
            BY <1>0, <1>5, <3>1 DEF Files, Holds, Holding, HandlerFine
        <3>4. ~Holds(t)'
            BY <1>5, <2>1, <3>2, <3>3 DEF Holds
        <3> QED
            BY <1>5, <2>1, <3>2, <3>3, <3>4 DEF Files
    <2>4. CASE CommitCancel(s)
        <3>1. request[r].status \in {"PENDING", "TAKEN"}
            BY <1>1, <2>4 DEF CommitCancel
        <3>2. request'[r].kind = None /\ request'[r].status = "gone"
            BY <1>0, <1>1, <2>4, WithdrawnRow DEF CommitCancel
        <3>3. tx[t].op # "create" /\ tx[t].pc # "unlink"
            BY <1>0, <1>5, <3>1 DEF Files, HandlerFine
        <3>4. ~Holds(t)'
            BY <1>5, <2>1, <3>2, SubjectAssumption DEF Holds, Kind
        <3> QED
            BY <1>5, <2>1, <3>2, <3>3, <3>4 DEF Files
    <2> QED
        BY <2>2, <2>3, <2>4
<1>6. Files(s)'
    <2>1. CASE tx'[s] = Idle
        BY <2>1, IdleFiles
    <2>2. CASE tx'[s] # Idle
        <3>1. tx'[s].pc = "unlink" /\ tx'[s].req = r /\ tx'[s].op = "cancel"
            BY <1>3, <2>2
        <3>2. CommitCancel(s)
            BY <1>0, <2>2, OneEnds DEF CommitCreate, CommitReview
        <3>3. request'[r].status = "gone"
            BY <1>0, <1>1, <3>2, WithdrawnRow DEF CommitCancel
        <3> QED
            BY <3>1, <3>3 DEF Files, Holds
    <2> QED
        BY <2>1, <2>2
<1> QED
    BY <1>4, <1>5, <1>6

\* Every step leaves all handlers what they know of their rows.
LEMMA NextFiles ==
    ASSUME TypeInv, HandlerInv, [Next]_vars
    PROVE  \A t \in Session : Files(t)'
<1>0. /\ tx \in [Session -> HandlerRow]
      /\ \A t \in Session : Files(t) /\ HandlerFine(tx[t]) /\ tx[t] \in HandlerRow
    BY DEF TypeInv, HandlersFine, HandlerFine, HandlerInv
<1>1. CASE UNCHANGED <<request, tx>>
    BY <1>0, <1>1 DEF Files, Holds
<1>2. ASSUME NEW s \in Session, End(s), request' = request PROVE \A t \in Session : Files(t)'
    BY <1>2, EndFiles
<1>3. ASSUME NEW s \in Session, ReadHr(s) PROVE \A t \in Session : Files(t)'
    <2>1. /\ tx'[s].op = tx[s].op /\ tx'[s].req = tx[s].req /\ tx'[s].pc # "unlink"
          /\ \A u \in Session : u # s => tx'[u] = tx[u]
        BY <1>0, <1>3 DEF ReadHr, HandlerRow
    <2>2. request' = request /\ tx[s].pc = "hr"
        BY <1>3 DEF ReadHr
    <2>3. \A u \in Session : Holds(u)' => Holds(u)
        BY <2>1, <2>2 DEF Holds
    <2>4. Files(s)'
        BY <1>0, <2>1, <2>2, <2>3 DEF Files, Holds
    <2> QED
        BY <2>1, <2>2, <2>4, QuietFiles
<1>4. ASSUME NEW s \in Session, Reminding(s) PROVE \A t \in Session : Files(t)'
    <2>1. request' = request
        BY <1>4 DEF Reminding, StartRemind, ReadHeld, CommitRemind, StartTerminate, ReadUnread,
                    CommitTerminate
    <2>2. CASE End(s)
        BY <1>2, <2>1, <2>2
    <2>3. CASE ~End(s)
        <3>1. tx'[s].op \in {"remind", "terminate"} /\ \A u \in Session : u # s => tx'[u] = tx[u]
            <4>1. CASE StartRemind(s)
                BY <1>0, <4>1 DEF StartRemind, Idle
            <4>2. CASE ReadHeld(s)
                BY <1>0, <4>2 DEF ReadHeld, HandlerFine, HandlerRow
            <4>3. ASSUME NEW e \in Employment, StartTerminate(s, e)
                  PROVE  /\ tx'[s].op \in {"remind", "terminate"}
                         /\ \A u \in Session : u # s => tx'[u] = tx[u]
                BY <1>0, <4>3 DEF StartTerminate, Idle
            <4>4. CASE ReadUnread(s)
                BY <1>0, <4>4 DEF ReadUnread, HandlerFine, HandlerRow
            <4> QED
                BY <1>4, <2>3, <4>1, <4>2, <4>3, <4>4 DEF Reminding, CommitRemind, CommitTerminate
        <3>2. HandlerFine(tx'[s])
            BY <1>4, RemindingHandlers DEF HandlersFine
        <3>3. tx'[s].req = None /\ tx'[s].pc # "unlink"
            BY <3>1, <3>2 DEF HandlerFine
        <3>4. Files(s)'
            BY <3>1, <3>3 DEF Files, Holds
        <3> QED
            BY <2>1, <3>1, <3>3, <3>4, QuietFiles
    <2> QED
        BY <2>2, <2>3
<1>5. CASE Restart
    <2>1. \A s \in Session : tx'[s] = Idle
        BY <1>5 DEF Restart
    <2> QED
        BY <2>1, IdleFiles
<1> QED
    BY <1>1, <1>2, <1>3, <1>4, <1>5, StartsFiles, CommitsFiles
       DEF Next, Filing, Unlink, LostRace, Fail, SetContract, SetActive, Reading, MarkRead, vars

-----------------------------------------------------------------------------
(* What the steps do to the notifications *)

\* A request that is filed adds copies for HR, ...
LEMMA CreateNotes ==
    ASSUME TypeInv, NEW s \in Session, CommitCreate(s)
    PROVE  \E F : /\ notes' = notes \cup F
                  /\ \A y \in F : /\ y \in Note /\ y.type = "SUBMITTED" /\ y.about = tx[s].req
                                  /\ y.to \in Hr /\ ~y.resolved
<1>1. NotesFine /\ tx[s].req \in Request /\ tx[s].hr \in SUBSET Hr
    BY DEF CommitCreate, TypeInv, HandlersFine, HandlerFine, HandlerRow
<1>2. PICK F : F = ToHr(tx[s].hr, "SUBMITTED", tx[s].req)
    OBVIOUS
<1>3. ASSUME NEW y \in F
      PROVE  /\ y \in Note /\ y.type = "SUBMITTED" /\ y.about = tx[s].req
             /\ y.to \in Hr /\ ~y.resolved
    <2>1. PICK A \in SUBSET Hr, r \in Request : A = tx[s].hr /\ r = tx[s].req
        BY <1>1
    <2>2. PICK type \in {"SUBMITTED", "DECIDED", "REQUEST_CANCELLED", "CONTRACT_ENDING"} :
             type = "SUBMITTED"
        OBVIOUS
    <2>3. y \in ToHr(A, type, r)
        BY <1>2, <2>1, <2>2
    <2>4. ~y.resolved
        BY <1>1, <2>3, ToHrOpen
    <2>5. y \in Note /\ y.to \in A /\ y.type = type /\ y.about = r
        BY <1>1, <2>3, ToHrRows
    <2>6. y \in Note /\ y.to \in Hr /\ y.type = "SUBMITTED" /\ y.about = tx[s].req
        BY <2>1, <2>2, <2>5
    <2> QED
        BY <2>4, <2>6
<1> QED
    BY <1>2, <1>3 DEF CommitCreate

\* ... one that is decided resolves them and adds the answer, ...
LEMMA ReviewNotes ==
    ASSUME TypeInv, NEW s \in Session, CommitReview(s)
    PROVE  \E r, status, m, y :
              /\ r \in Request /\ status \in {"APPROVED", "REJECTED"}
              /\ r = tx[s].req /\ request[r].status = "PENDING" /\ request'[r].status = status
              /\ Carries(m) /\ notes' = {m[x] : x \in notes} \cup {y}
              /\ \A x \in notes : IF x.about = r /\ x.to \in Hr
                                  THEN m[x].read /\ m[x].resolved ELSE m[x] = x
              /\ y.type = "DECIDED" /\ y.to = Owner /\ y.about = r /\ y.key = status
<1>0. NotesFine /\ TablesFine
    BY DEF TypeInv
<1>1. PICK r \in Request : r = tx[s].req /\ request[r].status = "PENDING"
    BY DEF CommitReview, TypeInv, HandlersFine, HandlerFine
<1>2. PICK status \in {"APPROVED", "REJECTED"} :
         /\ request' = [request EXCEPT ![r].status = status]
         /\ notes' = Resolve(r) \cup {Fresh(Owner, "DECIDED", r, status)}
    BY <1>1 DEF CommitReview
<1>3. PICK y : y = Fresh(Owner, "DECIDED", r, status)
    OBVIOUS
<1>4. y.type = "DECIDED" /\ y.to = Owner /\ y.about = r /\ y.key = status
    BY <1>0, <1>3, AnswerFine
<1>5. PICK m : /\ Carries(m) /\ Resolve(r) = {m[x] : x \in notes}
               /\ \A x \in notes : IF x.about = r /\ x.to \in Hr
                                   THEN m[x].read /\ m[x].resolved ELSE m[x] = x
    BY <1>0, ResolveCarries
<1>6. request'[r].status = status
    BY <1>0, <1>2, DecidedRow
<1>7. notes' = {m[x] : x \in notes} \cup {y}
    BY <1>2, <1>3, <1>5
<1> QED
    BY <1>1, <1>4, <1>5, <1>6, <1>7

\* A row that tells an account of the withdrawal of r, of which HR has open copies.
Withdrawal(y, r) ==
    /\ y \in Note /\ y.type = "REQUEST_CANCELLED" /\ y.about = r
    /\ y.n = Cardinality({x \in notes : x.to = y.to /\ x.about = r /\
                                        x.type = "REQUEST_CANCELLED" /\ x.key = None})
    /\ Unresolved(r) # {}

\* What emitToHr writes of it.
LEMMA WithdrawalRows ==
    ASSUME NotesFine, NEW A \in SUBSET Hr, NEW r \in Request,
           NEW y \in ToHr(A, "REQUEST_CANCELLED", r)
    PROVE  y \in Note /\ y.type = "REQUEST_CANCELLED" /\ y.about = r
<1>1. PICK type \in {"SUBMITTED", "DECIDED", "REQUEST_CANCELLED", "CONTRACT_ENDING"} :
         type = "REQUEST_CANCELLED"
    OBVIOUS
<1>2. y \in ToHr(A, type, r)
    BY <1>1
<1>3. y \in Note /\ y.type = type /\ y.about = r
    BY <1>2, ToHrRows
<1> QED
    BY <1>1, <1>3

\* ... one that is withdrawn resolves them and, if there were any, adds its withdrawal.
LEMMA CancelNotes ==
    ASSUME TypeInv, NEW s \in Session, CommitCancel(s)
    PROVE  \E r, m, F :
              /\ r \in Request /\ r = tx[s].req /\ request[r].status \in {"PENDING", "TAKEN"}
              /\ request'[r].status = "gone"
              /\ Carries(m) /\ notes' = {m[x] : x \in notes} \cup F
              /\ \A x \in notes : IF x.about = r /\ x.to \in Hr
                                  THEN m[x].read /\ m[x].resolved ELSE m[x] = x
              /\ \A y \in F : Withdrawal(y, r)
<1>0. NotesFine /\ TablesFine
    BY DEF TypeInv
<1>1. PICK r \in Request : r = tx[s].req /\ request[r].status \in {"PENDING", "TAKEN"}
    BY DEF CommitCancel, TypeInv, HandlersFine, HandlerFine
<1>2. request'[r].status = "gone"
    BY <1>0, <1>1, WithdrawnRow DEF CommitCancel
<1>3. PICK F : F = IF Unresolved(r) = {} THEN {} ELSE ToHr(tx[s].hr, "REQUEST_CANCELLED", r)
    OBVIOUS
<1>4. notes' = Resolve(r) \cup F
    BY <1>1, <1>3 DEF CommitCancel
<1>5. PICK m : /\ Carries(m) /\ Resolve(r) = {m[x] : x \in notes}
               /\ \A x \in notes : IF x.about = r /\ x.to \in Hr
                                   THEN m[x].read /\ m[x].resolved ELSE m[x] = x
    BY <1>0, ResolveCarries
<1>6. ASSUME NEW y \in F
      PROVE  Withdrawal(y, r)
    <2>1. tx[s].hr \in SUBSET Hr
        BY DEF TypeInv, HandlersFine, HandlerRow
    <2>2. y \in ToHr(tx[s].hr, "REQUEST_CANCELLED", r) /\ Unresolved(r) # {}
        BY <1>3, <1>6
    <2>3. y \in Note /\ y.type = "REQUEST_CANCELLED" /\ y.about = r
        BY <1>0, <2>1, <2>2, WithdrawalRows
    <2>4. PICK h : y = Fresh(h, "REQUEST_CANCELLED", r, None)
        BY <2>2 DEF ToHr
    <2>5. y.to = h /\ y.n = Cardinality({x \in notes : /\ x.to = h /\ x.type = "REQUEST_CANCELLED"
                                                       /\ x.about = r /\ x.key = None})
        BY <2>4 DEF Fresh
    <2>6. {x \in notes : /\ x.to = h /\ x.type = "REQUEST_CANCELLED" /\ x.about = r /\ x.key = None}
            = {x \in notes : x.to = y.to /\ x.about = r /\
                             x.type = "REQUEST_CANCELLED" /\ x.key = None}
        BY <2>5
    <2> QED
        BY <2>2, <2>3, <2>5, <2>6 DEF Withdrawal
<1> QED
    BY <1>1, <1>2, <1>4, <1>5, <1>6

\* The reminder of the account, employment and contract end in x.
Reminder(y, x) ==
    /\ y \in Note /\ y.type = "CONTRACT_ENDING" /\ y.about \in Employment
    /\ y.to = x[1] /\ y.about = x[2] /\ y.key = x[3]
    /\ y = Fresh(x[1], "CONTRACT_ENDING", x[2], x[3])

\* The catch-up adds the reminders that are missing.
LEMMA RemindNotes ==
    ASSUME TypeInv, NEW s \in Session, CommitRemind(s)
    PROVE  \E F : /\ notes' = notes \cup F
                  /\ \A y \in F : \E x \in tx[s].missing : Reminder(y, x)
<1>1. PICK M : M = tx[s].missing
    OBVIOUS
<1>2. IsFiniteSet(M) /\ M \in SUBSET (Hr \X Employment \X ContractEnd) /\ NotesFine
    BY <1>1, MissingFinite DEF TypeInv, HandlersFine, HandlerFine, HandlerRow
<1>3. PICK F : F = {Fresh(x[1], "CONTRACT_ENDING", x[2], x[3]) : x \in M}
    OBVIOUS
<1>4. notes' = notes \cup F
    BY <1>1, <1>3 DEF CommitRemind
<1>5. \A y \in F : \E x \in M :
         /\ NoteFine(y) /\ y.type = "CONTRACT_ENDING"
         /\ y.to = x[1] /\ y.about = x[2] /\ y.key = x[3]
         /\ y = Fresh(x[1], "CONTRACT_ENDING", x[2], x[3])
    BY <1>2, <1>3, RemindersFine
<1>6. \A y \in F : \E x \in M : Reminder(y, x)
    BY <1>2, <1>5 DEF Reminder, NoteFine
<1> QED
    BY <1>1, <1>4, <1>6

\* The rows a termination has stamped are as they were: nobody else writes a row of its
\* employment, and whoever reads waits.
LEMMA StampedStay ==
    ASSUME TypeInv, HandlerInv, [Next]_vars, NEW t \in Session, tx'[t] = tx[t],
           NEW x \in tx[t].resolving \cup tx[t].reading
    PROVE  x \in notes'
<1>0. /\ NotesFine /\ x \in notes /\ x.about = tx[t].emp
      /\ \A s \in Session : HandlerFine(tx[s]) /\ Terminates(s)
    BY DEF TypeInv, HandlerInv, HandlersFine, Terminates
<1>1. tx[t].op = "terminate" /\ x.about \in Employment /\ x.about \notin Request
    BY <1>0, SubjectAssumption DEF HandlerFine
<1>2. CASE notes' = notes
    BY <1>0, <1>2
<1>3. ASSUME NEW s \in Session, CommitCreate(s) \/ CommitRemind(s) PROVE x \in notes'
    BY <1>0, <1>3 DEF CommitCreate, CommitRemind
<1>4. ASSUME NEW s \in Session, CommitReview(s) PROVE x \in notes'
    <2>1. PICK r, m : /\ r \in Request /\ \A z \in notes : z.about # r => m[z] = z
                      /\ {m[z] : z \in notes} \subseteq notes'
        BY <1>4, ReviewNotes
    <2> QED
        BY <1>0, <1>1, <2>1
<1>5. ASSUME NEW s \in Session, CommitCancel(s) PROVE x \in notes'
    <2>1. PICK r, m : /\ r \in Request /\ \A z \in notes : z.about # r => m[z] = z
                      /\ {m[z] : z \in notes} \subseteq notes'
        BY <1>5, CancelNotes
    <2> QED
        BY <1>0, <1>1, <2>1
<1>6. ASSUME NEW s \in Session, CommitTerminate(s) PROVE x \in notes'
    <2>1. tx'[s] = Idle /\ tx[s].op = "terminate"
        BY <1>6, OneEnds DEF CommitTerminate, TypeInv
    <2>2. s # t
        BY <1>1, <2>1 DEF Idle
    <2>3. x \notin tx[s].resolving \cup tx[s].reading
        BY <1>0, <1>1, <2>1, <2>2 DEF Terminates
    <2>4. PICK m : /\ notes' = {m[z] : z \in notes}
                   /\ \A z \in notes : z \notin tx[s].resolving \cup tx[s].reading => m[z] = z
        BY <1>0, <1>6, TerminationCarries
    <2> QED
        BY <1>0, <2>3, <2>4
<1>7. ASSUME NEW u, NEW X \in SUBSET notes, MarkRead(u, X) PROVE x \in notes'
    BY <1>0, <1>7 DEF MarkRead, Stamped
<1> QED
    BY <1>2, <1>3, <1>4, <1>5, <1>6, <1>7, OthersNote

-----------------------------------------------------------------------------
(* Terminations and reminders *)

\* What the steps do to the handlers that write reminders.
LEMMA Moves ==
    ASSUME TypeInv, [Next]_vars
    PROVE  \/ tx' = tx
           \/ \A t \in Session : tx'[t] = Idle
           \/ \E s \in Session :
                 /\ \A t \in Session : t # s => tx'[t] = tx[t]
                 /\ \/ tx'[s].op \notin {"remind", "terminate"}
                    \/ /\ tx'[s].op = "remind"
                       /\ ReadHr(s) \/ StartRemind(s) \/ ReadHeld(s)
                    \/ ReadUnread(s) \/ \E e \in Employment : StartTerminate(s, e)
<1>0. HandlersFine /\ tx \in [Session -> HandlerRow] /\ \A s \in Session : tx[s] \in HandlerRow
    BY DEF TypeInv, HandlersFine
<1>1. ASSUME NEW s \in Session, End(s)
      PROVE  /\ \A t \in Session : t # s => tx'[t] = tx[t]
             /\ tx'[s].op \notin {"remind", "terminate"}
    BY <1>0, <1>1, OneEnds DEF Idle
<1>2. ASSUME NEW s \in Session, NEW r \in Request, NEW k \in Kind, NEW d \in Date,
             StartCreate(s, r, k, d)
      PROVE  /\ \A t \in Session : t # s => tx'[t] = tx[t]
             /\ tx'[s].op \notin {"remind", "terminate"}
    BY <1>0, <1>2 DEF StartCreate, Idle
<1>3. ASSUME NEW s \in Session, NEW r \in Request, StartReview(s, r) \/ StartCancel(s, r)
      PROVE  /\ \A t \in Session : t # s => tx'[t] = tx[t]
             /\ tx'[s].op \notin {"remind", "terminate"}
    BY <1>0, <1>3, ZenonT(60) DEF StartReview, StartCancel, Idle
<1>4. ASSUME NEW s \in Session, ReadHr(s)
      PROVE  /\ \A t \in Session : t # s => tx'[t] = tx[t]
             /\ tx'[s].op = tx[s].op
    BY <1>0, <1>4 DEF ReadHr, HandlerRow
<1>5. ASSUME NEW s \in Session, CommitCancel(s)
      PROVE  /\ \A t \in Session : t # s => tx'[t] = tx[t]
             /\ tx'[s].op \notin {"remind", "terminate"}
    <2>1. tx[s].op = "cancel"
        BY <1>5 DEF CommitCancel
    <2>2. CASE tx' = [tx EXCEPT ![s] = [tx[s] EXCEPT !.pc = "unlink"]]
        BY <1>0, <2>1, <2>2 DEF HandlerRow
    <2> QED
        BY <1>1, <1>5, <2>2 DEF CommitCancel, End
<1>6. ASSUME NEW s \in Session,
             \/ StartRemind(s) \/ ReadHeld(s) \/ ReadUnread(s)
             \/ \E e \in Employment : StartTerminate(s, e)
      PROVE  \A t \in Session : t # s => tx'[t] = tx[t]
    BY <1>0, <1>6 DEF StartRemind, ReadHeld, ReadUnread, StartTerminate
<1>7. ASSUME NEW s \in Session, ReadHr(s), tx[s].op # "remind"
      PROVE  tx'[s].op \notin {"remind", "terminate"}
    BY <1>0, <1>4, <1>7 DEF ReadHr, HandlersFine, HandlerFine
<1>8. ASSUME NEW s \in Session, StartRemind(s) \/ ReadHeld(s) PROVE tx'[s].op = "remind"
    <2>1. CASE StartRemind(s)
        BY <1>0, <2>1 DEF StartRemind, Idle
    <2>2. CASE ReadHeld(s)
        <3>1. tx[s].op = "remind"
            BY <1>0, <2>2 DEF ReadHeld, HandlersFine, HandlerFine
        <3>2. tx'[s].op = tx[s].op
            BY <1>0, <2>2 DEF ReadHeld, HandlerRow
        <3> QED
            BY <3>1, <3>2
    <2> QED
        BY <1>8, <2>1, <2>2
<1>9. CASE Restart
    BY <1>9 DEF Restart
<1>10. ASSUME NEW s \in Session, Filing(s) \/ Reminding(s) \/ Fail(s)
      PROVE  /\ \A t \in Session : t # s => tx'[t] = tx[t]
             /\ \/ tx'[s].op \notin {"remind", "terminate"}
                \/ /\ tx'[s].op = "remind"
                   /\ ReadHr(s) \/ StartRemind(s) \/ ReadHeld(s)
                \/ ReadUnread(s) \/ \E e \in Employment : StartTerminate(s, e)
    BY <1>1, <1>2, <1>3, <1>4, <1>5, <1>6, <1>7, <1>8, <1>10
       DEF Filing, Reminding, Fail, CommitCreate, CommitReview, Unlink, LostRace, CommitRemind,
           CommitTerminate
<1> QED
    BY <1>9, <1>10 DEF Next, SetContract, SetActive, Reading, MarkRead, vars

\* A termination keeps its stamps to the rows of its employment, ...
LEMMA NextStamps ==
    ASSUME TypeInv, HandlerInv, [Next]_vars, NEW t \in Session
    PROVE  tx'[t].resolving \cup tx'[t].reading \subseteq {x \in notes' : x.about = tx'[t].emp}
<1>0. /\ \A s \in Session : tx[s] \in HandlerRow /\ Terminates(s)
      /\ tx \in [Session -> HandlerRow]
    BY DEF TypeInv, HandlersFine, HandlerInv
<1>1. CASE tx'[t] = tx[t]
    <2>1. tx[t].resolving \cup tx[t].reading \subseteq {x \in notes : x.about = tx[t].emp}
        BY <1>0 DEF Terminates
    <2>2. \A x \in tx[t].resolving \cup tx[t].reading : x \in notes'
        BY <1>1, StampedStay
    <2> QED
        BY <1>1, <2>1, <2>2
<1>2. CASE tx'[t].op # "terminate"
    <2>1. tx'[t].resolving = {} /\ tx'[t].reading = {}
        BY <1>2, NextTypes DEF TypeInv, HandlersFine, HandlerFine
    <2> QED
        BY <2>1
<1>3. ASSUME NEW e \in Employment, StartTerminate(t, e)
      PROVE  tx'[t].resolving \cup tx'[t].reading \subseteq {x \in notes' : x.about = tx'[t].emp}
    <2>1. tx'[t].resolving = Unresolved(e) /\ tx'[t].reading = {} /\ tx'[t].emp = e
        BY <1>0, <1>3 DEF StartTerminate, Idle
    <2>2. notes' = notes
        BY <1>3 DEF StartTerminate
    <2>3. \A x \in Unresolved(e) : x \in notes /\ x.about = e
        BY DEF Unresolved
    <2> QED
        BY <2>1, <2>2, <2>3
<1>4. CASE ReadUnread(t)
    <2>1. PICK X : X = {x \in notes : x.about = tx[t].emp /\ x.to \in Hr /\ ~x.read}
        OBVIOUS
    <2>2. tx' = [tx EXCEPT ![t] = [tx[t] EXCEPT !.pc = "commit", !.reading = X]] /\ notes' = notes
        BY <1>4, <2>1 DEF ReadUnread
    <2>3. /\ tx'[t].resolving = tx[t].resolving /\ tx'[t].reading = X
          /\ tx'[t].emp = tx[t].emp
        BY <1>0, <2>2 DEF HandlerRow
    <2>4. \A x \in X : x \in notes /\ x.about = tx[t].emp
        BY <2>1
    <2>5. \A x \in tx[t].resolving : x \in notes /\ x.about = tx[t].emp
        BY <1>0 DEF Terminates
    <2> HIDE <2>1
    <2> QED
        BY <2>2, <2>3, <2>4, <2>5
<1>5. Idle.op # "terminate"
    BY DEF Idle
<1> QED
    BY <1>1, <1>2, <1>3, <1>4, <1>5, Moves

\* ... and is still the only one.
LEMMA NextTerminates ==
    ASSUME TypeInv, HandlerInv, [Next]_vars
    PROVE  \A t \in Session : Terminates(t)'
<1>0. /\ \A s \in Session : tx[s] \in HandlerRow /\ Terminates(s)
      /\ tx \in [Session -> HandlerRow]
    BY DEF TypeInv, HandlersFine, HandlerInv
<1>1. ASSUME NEW u \in Session, tx'[u].op = "terminate"
      PROVE  \/ tx[u].op = "terminate" /\ tx[u].emp = tx'[u].emp
             \/ StartTerminate(u, tx'[u].emp)
    <2>1. ASSUME ReadUnread(u) PROVE tx[u].op = "terminate" /\ tx[u].emp = tx'[u].emp
        <3>1. tx'[u].emp = tx[u].emp
            BY <1>0, <2>1 DEF ReadUnread, HandlerRow
        <3>2. tx[u].op = "terminate"
            BY <2>1 DEF ReadUnread, TypeInv, HandlersFine, HandlerFine
        <3> QED
            BY <3>1, <3>2
    <2>2. ASSUME NEW e \in Employment, StartTerminate(u, e) PROVE tx'[u].emp = e
        BY <1>0, <2>2 DEF StartTerminate, Idle
    <2>3. Idle.op # "terminate"
        BY DEF Idle
    <2> QED
        BY <1>1, <2>1, <2>2, <2>3, Moves
<1>2. ASSUME NEW t \in Session, NEW u \in Session, tx'[t].op = "terminate",
             tx'[u].op = "terminate", tx'[u].emp = tx'[t].emp
      PROVE  u = t
    <2>1. ASSUME NEW a \in Session, NEW b \in Session, StartTerminate(a, tx'[a].emp), a # b
          PROVE  ~(tx'[b].op = "terminate" /\ tx'[b].emp = tx'[a].emp)
        <3>1. /\ \A c \in Session : ~(tx[c].op = "terminate" /\ tx[c].emp = tx'[a].emp)
              /\ tx'[b] = tx[b]
            BY <1>0, <2>1 DEF StartTerminate, Terminating
        <3> QED
            BY <3>1
    <2>2. CASE StartTerminate(t, tx'[t].emp) \/ StartTerminate(u, tx'[u].emp)
        BY <1>2, <2>1, <2>2
    <2>3. CASE ~(StartTerminate(t, tx'[t].emp) \/ StartTerminate(u, tx'[u].emp))
        <3>1. tx[t].op = "terminate" /\ tx[u].op = "terminate" /\ tx[u].emp = tx[t].emp
            BY <1>1, <1>2, <2>3
        <3> QED
            BY <1>0, <3>1 DEF Terminates
    <2> QED
        BY <2>2, <2>3
<1> QED
    BY <1>2, NextStamps DEF Terminates

\* The rows are carried on, and those that are added are not about contracts.
Brings(m, F) ==
    /\ Carries(m) /\ notes' = {m[x] : x \in notes} \cup F
    /\ \A y \in F : y.type # "CONTRACT_ENDING"

\* Every step but the insert of reminders carries the rows on and adds none of a contract.
LEMMA Carried ==
    ASSUME TypeInv, [Next]_vars
    PROVE  \/ \E s \in Session : CommitRemind(s)
           \/ \E m, F : Brings(m, F)
<1>0. NotesFine
    BY DEF TypeInv
<1>1. PICK i : i = [x \in notes |-> x]
    OBVIOUS
<1>2. Carries(i) /\ {i[x] : x \in notes} = notes
    <2>1. \A x \in notes : i[x] = x /\ x \in Note /\ Grows(x, x)
        BY <1>0, <1>1 DEF NotesFine, NoteFine, Grows
    <2> QED
        BY <1>1, <2>1 DEF Carries
<1>3. ASSUME notes' = notes
      PROVE  \E m, F : Brings(m, F)
    <2>1. PICK F : F = {}
        OBVIOUS
    <2>2. Brings(i, F)
        BY <1>2, <1>3, <2>1 DEF Brings
    <2> QED
        BY <2>2
<1>4. ASSUME NEW s \in Session, CommitCreate(s)
      PROVE  \E m, F : Brings(m, F)
    <2>1. PICK F : notes' = notes \cup F /\ \A y \in F : y.type = "SUBMITTED"
        BY <1>4, CreateNotes
    <2> QED
        BY <1>2, <2>1 DEF Brings
<1>5. ASSUME NEW s \in Session, CommitReview(s)
      PROVE  \E m, F : Brings(m, F)
    <2>1. PICK m, y : /\ Carries(m) /\ notes' = {m[x] : x \in notes} \cup {y}
                      /\ y.type = "DECIDED"
        BY <1>5, ReviewNotes
    <2>2. PICK F : F = {y}
        OBVIOUS
    <2>3. Brings(m, F)
        BY <2>1, <2>2 DEF Brings
    <2> QED
        BY <2>3
<1>6. ASSUME NEW s \in Session, CommitCancel(s)
      PROVE  \E m, F : Brings(m, F)
    <2>1. PICK m, F : /\ Carries(m) /\ notes' = {m[x] : x \in notes} \cup F
                      /\ \A y \in F : \E r : Withdrawal(y, r)
        BY <1>6, CancelNotes
    <2> QED
        BY <2>1 DEF Brings, Withdrawal
<1>7. ASSUME NEW s \in Session, CommitTerminate(s)
      PROVE  \E m, F : Brings(m, F)
    <2>1. PICK m : Carries(m) /\ notes' = {m[x] : x \in notes}
        BY <1>0, <1>7, TerminationCarries
    <2>2. PICK F : F = {}
        OBVIOUS
    <2>3. Brings(m, F)
        BY <2>1, <2>2 DEF Brings
    <2> QED
        BY <2>3
<1>8. ASSUME NEW u, NEW X \in SUBSET notes, MarkRead(u, X)
      PROVE  \E m, F : Brings(m, F)
    <2>1. PICK m : Carries(m) /\ notes' = {m[x] : x \in notes}
        BY <1>0, <1>8, ReadingCarries
    <2>2. PICK F : F = {}
        OBVIOUS
    <2>3. Brings(m, F)
        BY <2>1, <2>2 DEF Brings
    <2> QED
        BY <2>3
<1> QED
    BY <1>3, <1>4, <1>5, <1>6, <1>7, <1>8, OthersNote

\* What is not out stays so while no reminders are inserted.
LEMMA NotHeldStays ==
    ASSUME NEW m, NEW F, Brings(m, F), NEW h, NEW e, NEW c, ~Held(h, e, c)
    PROVE  ~Held(h, e, c)'
<1> SUFFICES ASSUME Held(h, e, c)' PROVE FALSE
    OBVIOUS
<1>1. PICK y \in notes' : /\ y.type = "CONTRACT_ENDING" /\ y.to = h /\ y.about = e
                          /\ y.key = c /\ ~y.resolved
    BY DEF Held
<1>2. PICK x \in notes : y = m[x]
    BY <1>1 DEF Brings
<1>3. x.type = "CONTRACT_ENDING" /\ x.to = h /\ x.about = e /\ x.key = c
    BY <1>1, <1>2 DEF Brings, Carries, Grows
<1>4. ~x.resolved
    BY <1>1, <1>2 DEF Brings, Carries, Grows
<1> QED
    BY <1>3, <1>4 DEF Held

\* A run of the reminders is still the only one, and what it misses is missing.
LEMMA NextReminds ==
    ASSUME TypeInv, HandlerInv, [Next]_vars
    PROVE  \A t \in Session : Reminds(t)'
<1>0. /\ \A s \in Session : tx[s] \in HandlerRow /\ HandlerFine(tx[s]) /\ Reminds(s)
      /\ tx \in [Session -> HandlerRow] /\ HandlersFine'
    BY NextTypes DEF TypeInv, HandlersFine, HandlerInv
<1>1. ASSUME NEW u \in Session, tx'[u].op = "remind" PROVE tx[u].op = "remind" \/ StartRemind(u)
    <2>1. ASSUME ReadHr(u) PROVE tx'[u].op = tx[u].op
        BY <1>0, <2>1 DEF ReadHr, HandlerRow
    <2>2. ASSUME ReadHeld(u) PROVE tx[u].op = "remind"
        BY <1>0, <2>2 DEF ReadHeld, HandlerFine
    <2>3. ASSUME ReadUnread(u) PROVE tx'[u].op = tx[u].op
        BY <1>0, <2>3 DEF ReadUnread, HandlerRow
    <2>4. ASSUME NEW e \in Employment, StartTerminate(u, e) PROVE tx'[u].op = "terminate"
        BY <1>0, <2>4 DEF StartTerminate, Idle
    <2>5. Idle.op # "remind"
        BY DEF Idle
    <2> QED
        BY <1>1, <2>1, <2>2, <2>3, <2>4, <2>5, Moves
<1>2. ASSUME NEW t \in Session, NEW u \in Session, tx'[t].op = "remind", tx'[u].op = "remind"
      PROVE  u = t
    <2>1. ASSUME NEW a \in Session, NEW b \in Session, StartRemind(a), a # b
          PROVE  tx'[b].op # "remind"
        BY <1>0, <2>1 DEF StartRemind
    <2>2. CASE StartRemind(t) \/ StartRemind(u)
        BY <1>2, <2>1, <2>2
    <2>3. CASE ~(StartRemind(t) \/ StartRemind(u))
        <3>1. tx[t].op = "remind" /\ tx[u].op = "remind"
            BY <1>1, <1>2, <2>3
        <3> QED
            BY <1>0, <3>1 DEF Reminds
    <2> QED
        BY <2>2, <2>3
<1>3. ASSUME NEW t \in Session, NEW x \in tx'[t].missing PROVE ~Held(x[1], x[2], x[3])'
    <2>1. tx'[t].op = "remind"
        BY <1>0, <1>3 DEF HandlersFine, HandlerFine
    <2>2. CASE ReadHeld(t)
        <3>1. PICK M : M = {y \in Hr \X Employment \X ContractEnd :
                               /\ y[1] \in tx[t].hr /\ <<y[2], y[3]>> \in tx[t].due
                               /\ ~Held(y[1], y[2], y[3])}
            OBVIOUS
        <3>2. tx' = [tx EXCEPT ![t] = [tx[t] EXCEPT !.pc = "commit", !.due = {}, !.hr = {},
                                                    !.missing = M]] /\ notes' = notes
            BY <2>2, <3>1 DEF ReadHeld
        <3>3. tx'[t].missing = M
            BY <1>0, <3>2 DEF HandlerRow
        <3>4. ~Held(x[1], x[2], x[3])
            BY <1>3, <3>1, <3>3
        <3> QED
            BY <3>2, <3>4 DEF Held
    <2>3. CASE ~ReadHeld(t)
        <3>1. x \in tx[t].missing
            <4>1. ASSUME ReadHr(t) PROVE tx'[t].missing = tx[t].missing
                BY <1>0, <4>1 DEF ReadHr, HandlerRow
            <4>2. ASSUME StartRemind(t) PROVE tx'[t].missing = {}
                BY <1>0, <4>2 DEF StartRemind, Idle
            <4>3. ASSUME ReadUnread(t) PROVE tx'[t].missing = tx[t].missing
                BY <1>0, <4>3 DEF ReadUnread, HandlerRow
            <4>4. ASSUME NEW e \in Employment, StartTerminate(t, e) PROVE tx'[t].missing = {}
                BY <1>0, <4>4 DEF StartTerminate, Idle
            <4>5. Idle.missing = {}
                BY DEF Idle
            <4> QED
                BY <1>3, <2>1, <2>3, <4>1, <4>2, <4>3, <4>4, <4>5, Moves
        <3>2. ~Held(x[1], x[2], x[3])
            BY <1>0, <3>1 DEF Reminds
        <3>3. ~\E s \in Session : CommitRemind(s)
            <4> SUFFICES ASSUME NEW s \in Session, CommitRemind(s) PROVE FALSE
                OBVIOUS
            <4>1. tx[s].op = "remind" /\ tx[t].op = "remind"
                BY <1>0, <3>1 DEF CommitRemind, HandlerFine
            <4>2. s = t
                BY <1>0, <4>1 DEF Reminds
            <4>3. tx'[t] = Idle
                BY <1>0, <4>2, OneEnds DEF CommitRemind, TypeInv
            <4> QED
                BY <2>1, <4>3 DEF Idle
        <3> QED
            BY <3>2, <3>3, Carried, NotHeldStays
    <2> QED
        BY <2>2, <2>3
<1> QED
    BY <1>2, <1>3 DEF Reminds

-----------------------------------------------------------------------------
(* The promises of the notifications *)

\* No row is touched.
LEMMA SameCarries ==
    ASSUME NotesFine
    PROVE  \E m : /\ Carries(m) /\ notes = {m[x] : x \in notes}
                  /\ \A x \in notes : m[x] = x /\ m[x].resolved = x.resolved
<1>1. PICK i : i = [x \in notes |-> x]
    OBVIOUS
<1>2. \A x \in notes : i[x] = x /\ x \in Note /\ Grows(x, x)
    BY <1>1 DEF NotesFine, NoteFine, Grows
<1>3. Carries(i)
    BY <1>1, <1>2 DEF Carries
<1>4. notes = {i[x] : x \in notes}
    BY <1>2
<1> QED
    BY <1>2, <1>3, <1>4

\* The rows are carried on, none of a request is resolved, and those that are added
\* are about contracts.
Passes(m, F) ==
    /\ Carries(m) /\ notes' = {m[x] : x \in notes} \cup F
    /\ \A y \in F : y.type = "CONTRACT_ENDING"
    /\ \A x \in notes : x.about \in Request => m[x].resolved = x.resolved

\* The steps that leave the requests alone.
LEMMA OtherSteps ==
    ASSUME TypeInv, HandlerInv, [Next]_vars
    PROVE  \/ request' = request /\ \E m, F : Passes(m, F)
           \/ \E s \in Session : CommitCreate(s) \/ CommitReview(s) \/ CommitCancel(s)
<1>0. NotesFine
    BY DEF TypeInv
<1>1. PICK i : /\ Carries(i) /\ notes = {i[x] : x \in notes}
               /\ \A x \in notes : i[x].resolved = x.resolved
    BY <1>0, SameCarries
<1>2. PICK none : none = {}
    OBVIOUS
<1>3. ASSUME notes' = notes PROVE \E m, F : Passes(m, F)
    <2>1. Passes(i, none)
        BY <1>1, <1>2, <1>3 DEF Passes
    <2> QED
        BY <2>1
<1>4. ASSUME NEW s \in Session, CommitRemind(s) PROVE \E m, F : Passes(m, F)
    <2>1. PICK F : notes' = notes \cup F /\ \A y \in F : \E x : Reminder(y, x)
        BY <1>4, RemindNotes
    <2>2. Passes(i, F)
        BY <1>1, <2>1 DEF Passes, Reminder
    <2> QED
        BY <2>2
<1>5. ASSUME NEW s \in Session, CommitTerminate(s) PROVE \E m, F : Passes(m, F)
    <2>1. PICK m : /\ Carries(m) /\ notes' = {m[x] : x \in notes}
                   /\ \A x \in notes : x \notin tx[s].resolving \cup tx[s].reading => m[x] = x
        BY <1>0, <1>5, TerminationCarries
    <2>2. ASSUME NEW x \in notes, x.about \in Request PROVE m[x].resolved = x.resolved
        <3>1. tx[s].emp \in Employment
            BY <1>5 DEF CommitTerminate, TypeInv, HandlersFine, HandlerFine
        <3>2. x \notin tx[s].resolving \cup tx[s].reading
            BY <2>2, <3>1, SubjectAssumption DEF HandlerInv, Terminates
        <3> QED
            BY <2>1, <3>2
    <2>3. Passes(m, none)
        BY <1>2, <2>1, <2>2 DEF Passes
    <2> QED
        BY <2>3
<1>6. ASSUME NEW u, NEW X \in SUBSET notes, MarkRead(u, X) PROVE \E m, F : Passes(m, F)
    <2>1. PICK m : /\ Carries(m) /\ notes' = {m[x] : x \in notes}
                   /\ \A x \in notes : m[x].resolved = x.resolved
        BY <1>0, <1>6, ReadingCarries
    <2>2. Passes(m, none)
        BY <1>2, <2>1 DEF Passes
    <2> QED
        BY <2>2
<1> QED
    BY <1>3, <1>4, <1>5, <1>6, OthersNote, RowSteps

\* Of what a row is.
LEMMA RowKinds ==
    ASSUME NotesFine, NEW x \in notes
    PROVE  /\ x.type \in {"SUBMITTED", "DECIDED", "REQUEST_CANCELLED"} <=> x.about \in Request
           /\ x.type = "DECIDED" <=> x.to \notin Hr
           /\ x.type \in {"SUBMITTED", "DECIDED", "REQUEST_CANCELLED", "CONTRACT_ENDING"}
BY AccountAssumption, SubjectAssumption DEF NotesFine, NoteFine, Note

\* A copy of HR keeps to the status of its request.
Honest(x) ==
    x.type = "SUBMITTED" =>
       /\ request[x.about].status # "none"
       /\ x.resolved <=> request[x.about].status \in {"APPROVED", "REJECTED", "gone"}
       /\ x.resolved => x.read

\* A copy that is carried on unresolved or resolved as it was.
LEMMA HonestStays ==
    ASSUME NEW x, NEW y, Honest(x), Grows(x, y), y.resolved = x.resolved,
           request'[x.about] = request[x.about]
    PROVE  Honest(y)'
BY DEF Honest, Grows

\* Every step leaves the copies of HR honest.
LEMMA NextQueue ==
    ASSUME TypeInv, HandlerInv, QueueHonest, [Next]_vars
    PROVE  QueueHonest'
<1>0. NotesFine /\ TablesFine /\ \A x \in notes : Honest(x)
    BY DEF TypeInv, QueueHonest, Honest
<1>1. SUFFICES ASSUME NEW y \in notes' PROVE Honest(y)'
    BY DEF QueueHonest, Honest
<1>2. ASSUME NEW m, NEW F, Passes(m, F), request' = request PROVE Honest(y)'
    <2>1. CASE y \in F
        BY <1>2, <2>1 DEF Passes, Honest
    <2>2. CASE \E x \in notes : y = m[x]
        <3>1. PICK x \in notes : y = m[x]
            BY <2>2
        <3>2. Grows(x, y) /\ (x.type = "SUBMITTED" => y.resolved = x.resolved)
            BY <1>0, <1>2, <3>1, RowKinds DEF Passes, Carries
        <3>3. CASE x.type = "SUBMITTED"
            BY <1>0, <1>2, <3>2, <3>3, HonestStays
        <3>4. CASE x.type # "SUBMITTED"
            BY <3>2, <3>4 DEF Grows, Honest
        <3> QED
            BY <3>3, <3>4
    <2> QED
        BY <1>2, <2>1, <2>2 DEF Passes
<1>3. ASSUME NEW s \in Session, CommitCreate(s) PROVE Honest(y)'
    <2>0. tx[s].op = "create" /\ HandlersFine /\ Files(s)
        BY <1>3 DEF CommitCreate, TypeInv, HandlerInv
    <2>1. PICK r \in Request : /\ r = tx[s].req /\ request[r].status = "none"
                               /\ request'[r].status \in {"PENDING", "TAKEN"}
                               /\ \A q \in Request : q # r => request'[q] = request[q]
        BY <1>0, <1>3, <2>0, CreatedRow DEF Files
    <2>2. PICK F : /\ notes' = notes \cup F
                   /\ \A z \in F : z.type = "SUBMITTED" /\ z.about = r /\ ~z.resolved
        BY <1>3, <2>1, CreateNotes
    <2>3. CASE y \in F
        BY <2>1, <2>2, <2>3 DEF Honest
    <2>4. CASE y \in notes
        <3>1. y.type = "SUBMITTED" => y.about \in Request /\ y.about # r
            BY <1>0, <2>1, <2>4, RowKinds DEF Honest
        <3> QED
            BY <1>0, <2>1, <2>4, <3>1 DEF Honest
    <2> QED
        BY <2>2, <2>3, <2>4
<1>4. ASSUME NEW s \in Session, NEW r \in Request, NEW m, NEW F, r = tx[s].req,
             CommitReview(s) \/ CommitCancel(s), Carries(m), notes' = {m[x] : x \in notes} \cup F,
             \A x \in notes : IF x.about = r /\ x.to \in Hr THEN m[x].read /\ m[x].resolved
                              ELSE m[x] = x,
             \A z \in F : z.type # "SUBMITTED",
             request'[r].status \in {"APPROVED", "REJECTED", "gone"}
      PROVE  Honest(y)'
    <2>1. CASE y \in F
        BY <1>4, <2>1 DEF Honest
    <2>2. CASE \E x \in notes : y = m[x]
        <3>1. PICK x \in notes : y = m[x]
            BY <2>2
        <3>2. Grows(x, y)
            BY <1>4, <3>1 DEF Carries
        <3>3. CASE x.about = r /\ x.to \in Hr
            <4>1. y.read /\ y.resolved
                BY <1>4, <3>1, <3>3
            <4>2. y.about = r
                BY <3>2, <3>3 DEF Grows
            <4> QED
                BY <1>4, <4>1, <4>2 DEF Honest
        <3>4. CASE ~(x.about = r /\ x.to \in Hr)
            <4>1. y = x
                BY <1>4, <3>1, <3>4
            <4>2. x.type = "SUBMITTED" => x.about \in Request /\ x.about # r
                BY <1>0, <3>4, RowKinds
            <4>3. \A q \in Request : q # r => request'[q] = request[q]
                BY <1>0, <1>4 DEF CommitReview, CommitCancel, TablesFine
            <4> QED
                BY <1>0, <4>1, <4>2, <4>3 DEF Honest
        <3> QED
            BY <3>3, <3>4
    <2> QED
        BY <1>4, <2>1, <2>2
<1>5. ASSUME NEW s \in Session, CommitReview(s) PROVE Honest(y)'
    <2>1. PICK r, m, z :
             /\ r \in Request /\ r = tx[s].req /\ request'[r].status \in {"APPROVED", "REJECTED"}
             /\ Carries(m) /\ notes' = {m[x] : x \in notes} \cup {z}
             /\ \A x \in notes : IF x.about = r /\ x.to \in Hr
                                 THEN m[x].read /\ m[x].resolved ELSE m[x] = x
             /\ z.type = "DECIDED"
        BY <1>5, ReviewNotes
    <2>2. PICK F : F = {z}
        OBVIOUS
    <2>3. \A x \in F : x.type # "SUBMITTED"
        BY <2>1, <2>2
    <2> QED
        BY <1>4, <1>5, <2>1, <2>2, <2>3
<1>6. ASSUME NEW s \in Session, CommitCancel(s) PROVE Honest(y)'
    <2>1. PICK r, m, F :
             /\ r \in Request /\ r = tx[s].req /\ request'[r].status = "gone"
             /\ Carries(m) /\ notes' = {m[x] : x \in notes} \cup F
             /\ \A x \in notes : IF x.about = r /\ x.to \in Hr
                                 THEN m[x].read /\ m[x].resolved ELSE m[x] = x
             /\ \A z \in F : Withdrawal(z, r)
        BY <1>6, CancelNotes
    <2>2. \A z \in F : z.type # "SUBMITTED"
        BY <2>1 DEF Withdrawal
    <2> QED
        BY <1>4, <1>6, <2>1, <2>2
<1> QED
    BY <1>2, <1>3, <1>5, <1>6, OtherSteps

\* The answers to the owner.
Told(r) == {x \in notes : x.type = "DECIDED" /\ x.about = r}

OnceTold(r) ==
    IF request[r].status \in {"APPROVED", "REJECTED"}
    THEN \E x \in Told(r) : Told(r) = {x} /\ x.to = Owner /\ x.key = request[r].status
    ELSE Told(r) = {}

\* Each request by itself.
LEMMA ToldMeans == ToldOnce <=> \A r \in Request : OnceTold(r)
BY DEF ToldOnce, OnceTold, Told

\* They stand while the decision does.
LEMMA ToldStays ==
    ASSUME NotesFine, NEW r \in Request, OnceTold(r), NEW m, NEW F, Carries(m),
           notes' = {m[x] : x \in notes} \cup F,
           \A y \in F : ~(y.type = "DECIDED" /\ y.about = r),
           \/ request'[r].status = request[r].status
           \/ {request[r].status, request'[r].status} \cap {"APPROVED", "REJECTED"} = {}
    PROVE  OnceTold(r)'
<1>1. ASSUME NEW y \in Told(r)' PROVE \E x \in Told(r) : y = m[x]
    <2>1. y \in notes' /\ y.type = "DECIDED" /\ y.about = r
        BY <1>1 DEF Told
    <2>2. PICK x \in notes : y = m[x]
        BY <2>1
    <2>3. x \in Told(r)
        BY <2>1, <2>2 DEF Told, Carries, Grows
    <2> QED
        BY <2>2, <2>3
<1>2. ASSUME NEW x \in Told(r)
      PROVE  m[x] \in Told(r)' /\ m[x].to = x.to /\ m[x].key = x.key
    <2>1. x \in notes /\ x.type = "DECIDED" /\ x.about = r
        BY DEF Told
    <2>2. Grows(x, m[x]) /\ m[x] \in notes'
        BY <2>1 DEF Carries
    <2> QED
        BY <2>1, <2>2 DEF Told, Grows
<1>3. CASE request[r].status \in {"APPROVED", "REJECTED"}
    <2>1. PICK x \in Told(r) : Told(r) = {x} /\ x.to = Owner /\ x.key = request[r].status
        BY <1>3 DEF OnceTold
    <2>2. m[x] \in Told(r)' /\ m[x].to = Owner /\ m[x].key = request[r].status
        BY <1>2, <2>1
    <2>3. \A y \in Told(r)' : y = m[x]
        BY <1>1, <2>1
    <2>4. Told(r)' = {m[x]}
        BY <2>2, <2>3
    <2>5. request'[r].status = request[r].status
        BY <1>3
    <2> QED
        BY <1>3, <2>2, <2>4, <2>5 DEF OnceTold
<1>4. CASE request[r].status \notin {"APPROVED", "REJECTED"}
    <2>1. request'[r].status \notin {"APPROVED", "REJECTED"}
        BY <1>4
    <2>2. Told(r)' = {}
        BY <1>1, <1>4 DEF OnceTold
    <2> QED
        BY <2>1, <2>2 DEF OnceTold
<1> QED
    BY <1>3, <1>4

\* Every step leaves the owner told once.
LEMMA NextTold ==
    ASSUME TypeInv, HandlerInv, ToldOnce, [Next]_vars
    PROVE  ToldOnce'
<1>0. NotesFine /\ TablesFine /\ HandlersFine /\ \A r \in Request : OnceTold(r)
    BY ToldMeans DEF TypeInv
<1>1. SUFFICES ASSUME NEW q \in Request PROVE OnceTold(q)'
    BY DEF ToldOnce, OnceTold, Told
<1>2. ASSUME NEW m, NEW F, Passes(m, F), request' = request PROVE OnceTold(q)'
    BY <1>0, <1>2, ToldStays DEF Passes
<1>3. ASSUME NEW s \in Session, CommitCreate(s) PROVE OnceTold(q)'
    <2>0. tx[s].op = "create" /\ Files(s)
        BY <1>3 DEF CommitCreate, HandlerInv
    <2>1. PICK r \in Request : /\ r = tx[s].req /\ request[r].status = "none"
                               /\ request'[r].status \in {"PENDING", "TAKEN"}
                               /\ \A p \in Request : p # r => request'[p] = request[p]
        BY <1>0, <1>3, <2>0, CreatedRow DEF Files
    <2>2. PICK F : notes' = notes \cup F /\ \A y \in F : y.type = "SUBMITTED"
        BY <1>3, CreateNotes
    <2>3. PICK m : Carries(m) /\ notes = {m[x] : x \in notes}
        BY <1>0, SameCarries
    <2>4. \/ request'[q].status = request[q].status
          \/ {request[q].status, request'[q].status} \cap {"APPROVED", "REJECTED"} = {}
        BY <2>1
    <2>5. notes' = {m[x] : x \in notes} \cup F /\ \A y \in F : ~(y.type = "DECIDED" /\ y.about = q)
        BY <2>2, <2>3
    <2> QED
        BY <1>0, <2>3, <2>4, <2>5, ToldStays
<1>4. ASSUME NEW s \in Session, CommitReview(s) PROVE OnceTold(q)'
    <2>1. PICK r, status, m, y :
             /\ r \in Request /\ status \in {"APPROVED", "REJECTED"}
             /\ r = tx[s].req /\ request[r].status = "PENDING" /\ request'[r].status = status
             /\ Carries(m) /\ notes' = {m[x] : x \in notes} \cup {y}
             /\ y.type = "DECIDED" /\ y.to = Owner /\ y.about = r /\ y.key = status
        BY <1>4, ReviewNotes
    <2>2. CASE q = r
        <3>1. Told(q) = {}
            BY <1>0, <2>1, <2>2 DEF OnceTold
        <3>2. ASSUME NEW z \in notes', z.type = "DECIDED", z.about = q PROVE z = y
            <4>1. ASSUME NEW x \in notes, z = m[x] PROVE FALSE
                <5>1. x.type = "DECIDED" /\ x.about = q
                    BY <2>1, <3>2, <4>1 DEF Carries, Grows
                <5> QED
                    BY <3>1, <5>1 DEF Told
            <4> QED
                BY <2>1, <3>2, <4>1
        <3>3. Told(q)' = {y}
            BY <2>1, <2>2, <3>2 DEF Told
        <3> QED
            BY <2>1, <2>2, <3>3 DEF OnceTold
    <2>3. CASE q # r
        <3>1. request'[q] = request[q]
            BY <1>0, <1>4, <2>1, <2>3 DEF CommitReview, TablesFine
        <3>2. PICK F : F = {y}
            OBVIOUS
        <3>3. notes' = {m[x] : x \in notes} \cup F /\ \A z \in F : ~(z.type = "DECIDED" /\ z.about = q)
            BY <2>1, <2>3, <3>2
        <3> QED
            BY <1>0, <2>1, <3>1, <3>3, ToldStays
    <2> QED
        BY <2>2, <2>3
<1>5. ASSUME NEW s \in Session, CommitCancel(s) PROVE OnceTold(q)'
    <2>1. PICK r, m, F :
             /\ r \in Request /\ r = tx[s].req /\ request[r].status \in {"PENDING", "TAKEN"}
             /\ request'[r].status = "gone"
             /\ Carries(m) /\ notes' = {m[x] : x \in notes} \cup F
             /\ \A y \in F : Withdrawal(y, r)
        BY <1>5, CancelNotes
    <2>2. q # r => request'[q] = request[q]
        BY <1>0, <1>5, <2>1 DEF CommitCancel, TablesFine
    <2>3. \/ request'[q].status = request[q].status
          \/ {request[q].status, request'[q].status} \cap {"APPROVED", "REJECTED"} = {}
        BY <2>1, <2>2
    <2>4. \A y \in F : ~(y.type = "DECIDED" /\ y.about = q)
        BY <2>1 DEF Withdrawal
    <2> QED
        BY <1>0, <2>1, <2>3, <2>4, ToldStays
<1> QED
    BY <1>2, <1>3, <1>4, <1>5, OtherSteps

\* A withdrawal that HR hears of.
Announced(x) ==
    x.type = "REQUEST_CANCELLED" =>
       /\ request[x.about].status = "gone" /\ x.n = 0
       /\ \E y \in notes : y.type = "SUBMITTED" /\ y.about = x.about

\* It stands, since its request does not come back.
LEMMA AnnouncedStays ==
    ASSUME NEW m, Carries(m), {m[z] : z \in notes} \subseteq notes', NEW x \in notes, Announced(x),
           x.type = "REQUEST_CANCELLED" => request'[x.about].status = "gone"
    PROVE  Announced(m[x])'
<1>1. Grows(x, m[x])
    BY DEF Carries
<1>2. CASE x.type # "REQUEST_CANCELLED"
    BY <1>1, <1>2 DEF Announced, Grows
<1>3. CASE x.type = "REQUEST_CANCELLED"
    <2>1. PICK y \in notes : y.type = "SUBMITTED" /\ y.about = x.about
        BY <1>3 DEF Announced
    <2>2. Grows(y, m[y]) /\ m[y] \in notes'
        BY DEF Carries
    <2>3. m[y].type = "SUBMITTED" /\ m[y].about = m[x].about
        BY <1>1, <2>1, <2>2 DEF Grows
    <2>4. request'[m[x].about].status = "gone" /\ m[x].n = 0
        BY <1>1, <1>3 DEF Announced, Grows
    <2> QED
        BY <2>2, <2>3, <2>4 DEF Announced
<1> QED
    BY <1>2, <1>3

\* Every step leaves withdrawals announced once.
LEMMA NextAnnounced ==
    ASSUME TypeInv, HandlerInv, AnnouncedToReaders, [Next]_vars
    PROVE  AnnouncedToReaders'
<1>0. NotesFine /\ TablesFine /\ HandlersFine /\ \A x \in notes : Announced(x)
    BY DEF TypeInv, AnnouncedToReaders, Announced
<1>1. SUFFICES ASSUME NEW y \in notes' PROVE Announced(y)'
    BY DEF AnnouncedToReaders, Announced
<1>2. ASSUME NEW m, NEW F, Carries(m), notes' = {m[x] : x \in notes} \cup F,
             \A z \in F : Announced(z)',
             \A q \in Request : request[q].status = "gone" => request'[q].status = "gone"
      PROVE  Announced(y)'
    <2>1. \A x \in notes : x.type = "REQUEST_CANCELLED" => request'[x.about].status = "gone"
        BY <1>0, <1>2, RowKinds DEF Announced
    <2> QED
        BY <1>0, <1>2, <2>1, AnnouncedStays
<1>3. ASSUME NEW m, NEW F, Passes(m, F), request' = request PROVE Announced(y)'
    <2>1. \A z \in F : Announced(z)'
        BY <1>3 DEF Passes, Announced
    <2> QED
        BY <1>2, <1>3, <2>1 DEF Passes
<1>4. ASSUME NEW s \in Session, CommitCreate(s) PROVE Announced(y)'
    <2>0. tx[s].op = "create" /\ Files(s)
        BY <1>4 DEF CommitCreate, HandlerInv
    <2>1. PICK r \in Request : /\ r = tx[s].req /\ request[r].status = "none"
                               /\ \A p \in Request : p # r => request'[p] = request[p]
        BY <1>0, <1>4, <2>0, CreatedRow DEF Files
    <2>2. PICK F : notes' = notes \cup F /\ \A z \in F : z.type = "SUBMITTED"
        BY <1>4, CreateNotes
    <2>3. PICK m : Carries(m) /\ notes = {m[x] : x \in notes}
        BY <1>0, SameCarries
    <2>4. \A z \in F : Announced(z)'
        BY <2>2 DEF Announced
    <2>5. notes' = {m[x] : x \in notes} \cup F
        BY <2>2, <2>3
    <2>6. \A q \in Request : request[q].status = "gone" => request'[q].status = "gone"
        BY <2>1
    <2> QED
        BY <1>2, <2>3, <2>4, <2>5, <2>6
<1>5. ASSUME NEW s \in Session, CommitReview(s) PROVE Announced(y)'
    <2>1. PICK r, m, z :
             /\ r \in Request /\ r = tx[s].req /\ request[r].status = "PENDING"
             /\ Carries(m) /\ notes' = {m[x] : x \in notes} \cup {z}
             /\ z.type = "DECIDED"
        BY <1>5, ReviewNotes
    <2>2. \A q \in Request : request[q].status = "gone" => request'[q].status = "gone"
        BY <1>0, <1>5, <2>1 DEF CommitReview, TablesFine
    <2>3. PICK F : F = {z}
        OBVIOUS
    <2>4. \A x \in F : Announced(x)'
        BY <2>1, <2>3 DEF Announced
    <2> QED
        BY <1>2, <2>1, <2>2, <2>3, <2>4
<1>6. ASSUME NEW s \in Session, CommitCancel(s) PROVE Announced(y)'
    <2>1. PICK r, m, F :
             /\ r \in Request /\ r = tx[s].req /\ request[r].status \in {"PENDING", "TAKEN"}
             /\ request'[r].status = "gone"
             /\ Carries(m) /\ notes' = {m[x] : x \in notes} \cup F
             /\ \A z \in F : Withdrawal(z, r)
        BY <1>6, CancelNotes
    <2>2. \A q \in Request : q # r => request'[q] = request[q]
        BY <1>0, <1>6, <2>1 DEF CommitCancel, TablesFine
    <2>3. \A x \in notes : x.type = "REQUEST_CANCELLED" => x.about # r
        BY <1>0, <2>1 DEF Announced
    <2>4. ASSUME NEW z \in F PROVE Announced(z)'
        <3>1. /\ z.type = "REQUEST_CANCELLED" /\ z.about = r /\ Unresolved(r) # {}
              /\ z.n = Cardinality({x \in notes : x.to = z.to /\ x.about = r /\
                                            x.type = "REQUEST_CANCELLED" /\ x.key = None})
            BY <2>1, <2>4 DEF Withdrawal
        <3>2. {x \in notes : x.to = z.to /\ x.about = r /\
                             x.type = "REQUEST_CANCELLED" /\ x.key = None} = {}
            BY <2>3
        <3>3. z.n = 0
            BY <3>1, <3>2, FS_EmptySet
        <3>4. PICK x \in notes : x.about = r /\ x.to \in Hr
            BY <3>1 DEF Unresolved
        <3>5. x.type = "SUBMITTED"
            <4>1. r \in Request
                BY <2>1
            <4> QED
                BY <1>0, <2>3, <3>4, <4>1, RowKinds
        <3>6. m[x] \in notes' /\ m[x].type = "SUBMITTED" /\ m[x].about = r
            BY <2>1, <3>4, <3>5 DEF Carries, Grows
        <3> QED
            BY <2>1, <3>1, <3>3, <3>6 DEF Announced
    <2> QED
        BY <1>2, <2>1, <2>2, <2>4
<1> QED
    BY <1>3, <1>4, <1>5, <1>6, OtherSteps

\* Reminders of the same contract end.
Alike(x, y) == x.to = y.to /\ x.type = y.type /\ x.about = y.about /\ x.key = y.key

\* Every step leaves each account one open reminder of a contract end.
LEMMA NextReminder ==
    ASSUME TypeInv, HandlerInv, OneReminder, [Next]_vars
    PROVE  OneReminder'
<1>0. \A x, y \in notes : /\ x.type = "CONTRACT_ENDING" /\ ~x.resolved /\ ~y.resolved
                          /\ Alike(x, y)
                          => x = y
    BY DEF OneReminder, Alike
<1>1. SUFFICES ASSUME NEW x \in notes', NEW y \in notes', x.type = "CONTRACT_ENDING",
                      ~x.resolved, ~y.resolved, Alike(x, y)
               PROVE  x = y
    BY DEF OneReminder, Alike
<1>2. ASSUME NEW m, NEW F, Brings(m, F) PROVE x = y
    <2>1. y.type = "CONTRACT_ENDING"
        BY <1>1 DEF Alike
    <2>2. PICK a \in notes, b \in notes : x = m[a] /\ y = m[b]
        BY <1>1, <1>2, <2>1 DEF Brings
    <2>3. Grows(a, x) /\ Grows(b, y)
        BY <1>2, <2>2 DEF Brings, Carries
    <2>4. a.type = "CONTRACT_ENDING" /\ Alike(a, b)
        BY <1>1, <2>3 DEF Grows, Alike
    <2>5. ~a.resolved /\ ~b.resolved
        BY <1>1, <2>3 DEF Grows
    <2> QED
        BY <1>0, <2>2, <2>4, <2>5
<1>3. ASSUME NEW s \in Session, CommitRemind(s) PROVE x = y
    <2>1. PICK F : /\ notes' = notes \cup F
                   /\ \A z \in F : \E d \in tx[s].missing : Reminder(z, d)
        BY <1>3, RemindNotes
    <2>2. /\ \A d \in tx[s].missing : ~Held(d[1], d[2], d[3])
          /\ tx[s].missing \in SUBSET (Hr \X Employment \X ContractEnd)
        BY DEF TypeInv, HandlerInv, HandlersFine, HandlerRow, Reminds
    <2>3. ASSUME NEW a \in notes, a.type = "CONTRACT_ENDING", ~a.resolved, NEW b \in F
          PROVE  ~(a.to = b.to /\ a.about = b.about /\ a.key = b.key)
        <3>1. PICK d \in tx[s].missing : b.to = d[1] /\ b.about = d[2] /\ b.key = d[3]
            BY <2>1, <2>3 DEF Reminder
        <3> QED
            BY <2>2, <2>3, <3>1 DEF Held
    <2>4. CASE x \in notes /\ y \in notes
        BY <1>0, <1>1, <2>4
    <2>5. CASE x \in F /\ y \in F
        <3>1. PICK d \in tx[s].missing : /\ x.to = d[1] /\ x.about = d[2] /\ x.key = d[3]
                                         /\ x = Fresh(d[1], "CONTRACT_ENDING", d[2], d[3])
            BY <2>1, <2>5 DEF Reminder
        <3>2. PICK e \in tx[s].missing : /\ y.to = e[1] /\ y.about = e[2] /\ y.key = e[3]
                                         /\ y = Fresh(e[1], "CONTRACT_ENDING", e[2], e[3])
            BY <2>1, <2>5 DEF Reminder
        <3>3. d[1] = e[1] /\ d[2] = e[2] /\ d[3] = e[3]
            BY <1>1, <3>1, <3>2 DEF Alike
        <3> QED
            BY <3>1, <3>2, <3>3
    <2>6. y.type = "CONTRACT_ENDING" /\ x.to = y.to /\ x.about = y.about /\ x.key = y.key
        BY <1>1 DEF Alike
    <2>7. CASE x \in notes /\ y \in F
        BY <1>1, <2>3, <2>6, <2>7
    <2>8. CASE x \in F /\ y \in notes
        BY <1>1, <2>3, <2>6, <2>8
    <2> QED
        BY <2>1, <2>4, <2>5, <2>7, <2>8
<1> QED
    BY <1>2, <1>3, Carried

-----------------------------------------------------------------------------
(* The invariant of every behaviour *)

\* The invariant holds at first, ...
LEMMA InitInv == Init => Inv
<1> SUFFICES ASSUME Init PROVE Inv
    OBVIOUS
<1>1. notes = {} /\ \A s \in Session : tx[s] = Idle
    BY DEF Init
<1>2. \A r \in Request : request[r].status = "none"
    BY DEF Init, NoRequest
<1>3. HandlerInv
    BY <1>1 DEF HandlerInv, Files, Holds, Terminates, Reminds, Idle
<1>4. ToldOnce
    BY <1>1, <1>2 DEF ToldOnce
<1>5. QueueHonest /\ AnnouncedToReaders /\ OneReminder
    BY <1>1 DEF QueueHonest, AnnouncedToReaders, OneReminder
<1> QED
    BY <1>3, <1>4, <1>5, InitTypes DEF Inv, NoteInv

\* ... and every step keeps it.
LEMMA NextInv == Inv /\ [Next]_vars => Inv'
<1> SUFFICES ASSUME TypeInv, HandlerInv, NoteInv, [Next]_vars PROVE Inv'
    BY DEF Inv
<1>1. TypeInv'
    BY NextTypes
<1>2. HandlerInv'
    BY NextFiles, NextTerminates, NextReminds DEF HandlerInv
<1>3. NoteInv'
    BY NextQueue, NextTold, NextAnnounced, NextReminder DEF NoteInv
<1> QED
    BY <1>1, <1>2, <1>3 DEF Inv

\* The handlers, the rows they have read and the notifications agree in every state,
\* whatever overlaps, fails or is cut short by a restart.
THEOREM InboxCorrect == Spec => []Inv
<1>1. Init => Inv
    BY InitInv
<1>2. Inv /\ [Next]_vars => Inv'
    BY NextInv
<1> QED
    BY <1>1, <1>2, PTL DEF Spec

\* A handler without its stamps.
LEMMA Unstamped ==
    ASSUME NEW x \in HandlerRow
    PROVE  [x EXCEPT !.resolving = {}, !.reading = {}] \in Handler
BY DEF HandlerRow, Handler

\* Every row and every handler has its type, and a termination holds existing rows.
THEOREM TypesHold == Spec => []TypeOK
<1>1. ASSUME Inv PROVE TypeOK
    <2>1. TablesFine /\ \A x \in notes : x \in Note
        BY <1>1 DEF Inv, TypeInv, NotesFine, NoteFine
    <2>2. ASSUME NEW s \in Session
          PROVE  /\ [tx[s] EXCEPT !.resolving = {}, !.reading = {}] \in Handler
                 /\ tx[s].resolving \cup tx[s].reading \subseteq notes
        <3>1. tx[s] \in HandlerRow /\ Terminates(s)
            BY <1>1 DEF Inv, TypeInv, HandlersFine, HandlerInv
        <3>2. [tx[s] EXCEPT !.resolving = {}, !.reading = {}] \in Handler
            BY <3>1, Unstamped
        <3> QED
            BY <3>1, <3>2 DEF Terminates
    <2> QED
        BY <2>1, <2>2 DEF TypeOK, TablesFine
<1>2. Inv => TypeOK
    BY <1>1
<1> QED
    BY <1>2, InboxCorrect, PTL

\* What HR has on its list is what is still to be decided (resolveGroup, emitToHr).
THEOREM QueueStaysHonest == Spec => []QueueHonest
<1>1. Inv => QueueHonest
    BY DEF Inv, NoteInv
<1> QED
    BY <1>1, InboxCorrect, PTL

\* The owner is told of the decision that stands, once (reviewOvertime,
\* reviewReimbursement: the conditional update lets one review through).
THEOREM OwnerToldOnce == Spec => []ToldOnce
<1>1. Inv => ToldOnce
    BY DEF Inv, NoteInv
<1> QED
    BY <1>1, InboxCorrect, PTL

\* HR hears of a withdrawal once, and of none it was not shown (cancelOvertime,
\* cancelReimbursement, cancelLeave).
THEOREM AnnouncedOnce == Spec => []AnnouncedToReaders
<1>1. Inv => AnnouncedToReaders
    BY DEF Inv, NoteInv
<1> QED
    BY <1>1, InboxCorrect, PTL

\* No account has the same open reminder twice (ensureContractRemindersUpToDate).
THEOREM RemindedOnce == Spec => []OneReminder
<1>1. Inv => OneReminder
    BY DEF Inv, NoteInv
<1> QED
    BY <1>1, InboxCorrect, PTL

\* The row a cancellation has locked is still pending when it commits: the status in
\* the guard of its commit turns nobody away who holds the lock (SELECT ... FOR UPDATE).
HeldPending == \A s \in Session : Holds(s) => request[tx[s].req].status = "PENDING"

\* Whoever withdraws overtime or a claim finds it pending still (cancelOvertime,
\* cancelReimbursement).
THEOREM LockedRowStaysPending == Spec => []HeldPending
<1>1. Inv => HeldPending
    BY DEF Inv, HandlerInv, Files, HeldPending
<1> QED
    BY <1>1, InboxCorrect, PTL

-----------------------------------------------------------------------------
(* Evidence *)

\* An upload has a name of its own.
NamesDiffer == \A q, r \in Request : FileOf[q] = FileOf[r] => q = r

\* What a request that is being filed refers to has been stored.
Uploaded == \A s \in Session : tx[s].op = "create" => tx[s].file \subseteq disk

\* A handler that files a request is a new one or has its upload from before.
LEMMA Creators ==
    ASSUME TypeInv, [Next]_vars, NEW s \in Session, tx'[s].op = "create"
    PROVE  \/ tx[s].op = "create" /\ tx'[s].file = tx[s].file /\ tx'[s].req = tx[s].req
           \/ tx'[s].file \subseteq disk' /\ disk \subseteq disk'
<1>0. tx \in [Session -> HandlerRow] /\ tx[s] \in HandlerRow /\ HandlersFine
    BY DEF TypeInv, HandlersFine
<1>1. ASSUME NEW t \in Session, End(t) PROVE t # s /\ tx'[s] = tx[s]
    BY <1>0, <1>1, OneEnds DEF Idle
<1>2. ASSUME NEW t \in Session, NEW r \in Request, NEW k \in Kind, NEW d \in Date,
             StartCreate(t, r, k, d)
      PROVE  tx'[s] = tx[s] \/ (tx'[s].file \subseteq disk' /\ disk \subseteq disk')
    <2>1. PICK f : f = IF k = "REIMBURSEMENT" THEN {FileOf[r]} ELSE {}
        OBVIOUS
    <2>2. /\ tx' = [tx EXCEPT ![t] = [Idle EXCEPT !.op = "create", !.pc = "hr", !.req = r,
                                                  !.kind = k, !.date = d, !.file = f]]
          /\ disk' = disk \cup f
        BY <1>2, <2>1 DEF StartCreate
    <2>3. tx'[s] = tx[s] \/ tx'[s].file = f
        BY <1>0, <2>2 DEF Idle
    <2> QED
        BY <2>2, <2>3
<1>3. ASSUME NEW t \in Session, NEW r \in Request, StartReview(t, r) \/ StartCancel(t, r)
      PROVE  tx'[s] = tx[s]
    <2>1. CASE t # s
        BY <1>0, <1>3, <2>1 DEF StartReview, StartCancel
    <2>2. CASE t = s
        <3>1. ASSUME StartReview(t, r) PROVE tx'[s].op = "review"
            BY <1>0, <2>2, <3>1 DEF StartReview, Idle
        <3>2. ASSUME StartCancel(t, r) PROVE tx'[s].op = "cancel"
            BY <1>0, <2>2, <3>2 DEF StartCancel, Idle
        <3> QED
            BY <1>3, <3>1, <3>2
    <2> QED
        BY <2>1, <2>2
<1>4. ASSUME NEW t \in Session, ReadHr(t)
      PROVE  tx'[s].op = tx[s].op /\ tx'[s].file = tx[s].file /\ tx'[s].req = tx[s].req
    BY <1>0, <1>4 DEF ReadHr, HandlerRow
<1>5. ASSUME NEW t \in Session, CommitCancel(t) PROVE tx'[s] = tx[s]
    <2>1. tx[t].op = "cancel" /\ tx[t] \in HandlerRow
        BY <1>0, <1>5 DEF CommitCancel
    <2>2. CASE tx' = [tx EXCEPT ![t] = [tx[t] EXCEPT !.pc = "unlink"]]
        BY <1>0, <2>1, <2>2 DEF HandlerRow
    <2> QED
        BY <1>1, <1>5, <2>2 DEF CommitCancel, End
<1>6. CASE tx'[s] = tx[s]
    BY <1>6
<1>7. Idle.op # "create"
    BY DEF Idle
<1>8. ASSUME NEW t \in Session, Reminding(t) PROVE tx'[s] = tx[s]
    <2>1. CASE End(t)
        BY <1>1, <2>1
    <2>2. CASE t # s
        BY <1>8, <2>2, Moves, <1>0 DEF Reminding, StartRemind, ReadHeld, CommitRemind, End,
            StartTerminate, ReadUnread, CommitTerminate
    <2>3. CASE t = s
        <3>1. CASE StartRemind(s)
            BY <1>0, <3>1 DEF StartRemind, Idle
        <3>2. CASE ReadHeld(s)
            BY <1>0, <3>2 DEF ReadHeld, HandlersFine, HandlerFine, HandlerRow
        <3>3. ASSUME NEW e \in Employment, StartTerminate(s, e) PROVE FALSE
            BY <1>0, <3>3 DEF StartTerminate, Idle
        <3>4. CASE ReadUnread(s)
            BY <1>0, <3>4 DEF ReadUnread, HandlersFine, HandlerFine, HandlerRow
        <3> QED
            BY <1>8, <2>1, <2>3, <3>1, <3>2, <3>3, <3>4 DEF Reminding, CommitRemind, CommitTerminate
    <2> QED
        BY <2>2, <2>3
<1> QED
    BY <1>1, <1>2, <1>3, <1>4, <1>5, <1>6, <1>7, <1>8
       DEF Next, Filing, CommitCreate, CommitReview, Unlink, LostRace, Fail, SetContract, SetActive,
           Reading, MarkRead, Restart, vars

\* A file is removed for a request that is gone, or for one that is not stored yet.
LEMMA Removals ==
    ASSUME TypeInv, HandlerInv, [Next]_vars
    PROVE  \/ disk \subseteq disk'
           \/ \E s \in Session :
                 /\ disk \ {FileOf[tx[s].req]} \subseteq disk' /\ tx[s].req \in Request
                 /\ End(s) /\ request' = request
                 /\ \/ request[tx[s].req].status = "gone"
                    \/ request[tx[s].req].status = "none" /\ tx[s].op = "create"
<1>1. ASSUME NEW s \in Session, Unlink(s)
      PROVE  /\ disk \ {FileOf[tx[s].req]} \subseteq disk' /\ tx[s].req \in Request
             /\ End(s) /\ request' = request /\ request[tx[s].req].status = "gone"
    <2>1. HandlerFine(tx[s]) /\ Files(s) /\ tx[s].pc = "unlink"
        BY <1>1 DEF Unlink, TypeInv, HandlersFine, HandlerInv
    <2>2. tx[s].req \in Request /\ tx[s].file \subseteq {FileOf[tx[s].req]}
        BY <2>1 DEF HandlerFine
    <2> QED
        BY <1>1, <2>1, <2>2 DEF Unlink, Files
<1>2. ASSUME NEW s \in Session, Fail(s), tx[s].op = "create"
      PROVE  /\ disk \ {FileOf[tx[s].req]} \subseteq disk' /\ tx[s].req \in Request
             /\ End(s) /\ request' = request /\ request[tx[s].req].status = "none"
    <2>1. HandlerFine(tx[s]) /\ Files(s)
        BY DEF TypeInv, HandlersFine, HandlerInv
    <2>2. tx[s].req \in Request /\ tx[s].file \subseteq {FileOf[tx[s].req]}
        BY <1>2, <2>1 DEF HandlerFine
    <2> QED
        BY <1>2, <2>1, <2>2 DEF Fail, Files
<1>3. ASSUME NEW s \in Session, Fail(s), tx[s].op # "create" PROVE disk \subseteq disk'
    BY <1>3 DEF Fail
<1>4. ASSUME NEW s \in Session, NEW r \in Request, NEW k \in Kind, NEW d \in Date,
             StartCreate(s, r, k, d)
      PROVE  disk \subseteq disk'
    BY <1>4 DEF StartCreate
<1>5. CASE disk' = disk
    BY <1>5
<1> QED
    BY <1>1, <1>2, <1>3, <1>4, <1>5, ZenonT(60)
       DEF Next, vars, Filing, Reminding, StartReview, StartCancel, ReadHr, CommitCreate, CommitReview,
           CommitCancel, LostRace, StartRemind, ReadHeld, CommitRemind, StartTerminate, ReadUnread,
           CommitTerminate, SetContract, SetActive, Reading, MarkRead, Restart

\* Every step leaves uploads where their requests will look for them, ...
LEMMA NextUploaded ==
    ASSUME NamesDiffer, TypeInv, HandlerInv, Uploaded, [Next]_vars
    PROVE  Uploaded'
<1> SUFFICES ASSUME NEW t \in Session, tx'[t].op = "create" PROVE tx'[t].file \subseteq disk'
    BY DEF Uploaded
<1>0. \A s \in Session : HandlerFine(tx[s]) /\ Files(s)
    BY DEF TypeInv, HandlersFine, HandlerInv
<1>1. CASE tx'[t].file \subseteq disk'
    BY <1>1
<1>2. CASE tx[t].op = "create" /\ tx'[t].file = tx[t].file
    <2>1. /\ tx[t].file \subseteq disk /\ tx[t].file \subseteq {FileOf[tx[t].req]}
          /\ tx[t].req \in Request /\ request[tx[t].req].status = "none"
        BY <1>0, <1>2 DEF Uploaded, HandlerFine, Files
    <2>2. ASSUME NEW s \in Session, tx[s].req \in Request, End(s),
                 disk \ {FileOf[tx[s].req]} \subseteq disk',
                 \/ request[tx[s].req].status = "gone"
                 \/ request[tx[s].req].status = "none" /\ tx[s].op = "create"
          PROVE  tx[t].file \subseteq disk'
        <3>1. tx'[s] = Idle
            BY <2>2, OneEnds DEF TypeInv
        <3>2. s # t
            BY <3>1 DEF Idle
        <3>3. tx[s].req # tx[t].req
            BY <1>0, <1>2, <2>1, <2>2, <3>2 DEF Files
        <3>4. FileOf[tx[s].req] # FileOf[tx[t].req]
            BY <2>1, <2>2, <3>3 DEF NamesDiffer
        <3> QED
            BY <2>1, <2>2, <3>4
    <2> QED
        BY <1>2, <2>1, <2>2, Removals
<1> QED
    BY <1>1, <1>2, Creators

\* A row that stands was there before with its evidence, or is stored with an upload.
LEMMA Standing ==
    ASSUME TypeInv, HandlerInv, Uploaded, EvidenceKept, [Next]_vars, NEW r \in Request,
           request'[r].status \in {"PENDING", "APPROVED", "REJECTED"}
    PROVE  request'[r].file \subseteq disk
<1>0. TablesFine /\ HandlersFine
    BY DEF TypeInv
<1>1. CASE request'[r] = request[r]
    BY <1>1 DEF EvidenceKept
<1>2. ASSUME NEW s \in Session, r = tx[s].req, CommitCreate(s) PROVE request'[r].file \subseteq disk
    <2>1. request'[r].file = tx[s].file
        BY <1>0, <1>2, CreatedRow
    <2> QED
        BY <1>2, <2>1 DEF CommitCreate, Uploaded
<1>3. ASSUME NEW s \in Session, r = tx[s].req, CommitReview(s) PROVE request'[r].file \subseteq disk
    <2>1. PICK status \in {"APPROVED", "REJECTED"} :
             request' = [request EXCEPT ![r].status = status]
        BY <1>3 DEF CommitReview
    <2>2. request'[r].file = request[r].file
        BY <1>0, <2>1, DecidedRow
    <2> QED
        BY <1>3, <2>2 DEF CommitReview, EvidenceKept
<1>4. ASSUME NEW s \in Session, r = tx[s].req, CommitCancel(s) PROVE FALSE
    <2>1. request'[r].status = "gone"
        BY <1>0, <1>4, WithdrawnRow DEF CommitCancel
    <2> QED
        BY <2>1
<1> QED
    BY <1>1, <1>2, <1>3, <1>4, RowSteps

\* ... and the evidence of what stands.
LEMMA NextEvidence ==
    ASSUME NamesDiffer, TypeInv, HandlerInv, Uploaded, EvidenceKept, [Next]_vars
    PROVE  EvidenceKept'
<1> SUFFICES ASSUME NEW r \in Request, request'[r].status \in {"PENDING", "APPROVED", "REJECTED"}
             PROVE  request'[r].file \subseteq disk'
    BY DEF EvidenceKept
<1>1. request'[r].file \subseteq disk /\ request'[r].file \subseteq {FileOf[r]}
    BY Standing, NextTypes DEF TypeInv, TablesFine, RowFine
<1>2. ASSUME NEW s \in Session, tx[s].req \in Request, disk \ {FileOf[tx[s].req]} \subseteq disk',
             request' = request, request[tx[s].req].status \in {"gone", "none"}
      PROVE  request'[r].file \subseteq disk'
    <2>1. tx[s].req # r
        BY <1>2
    <2>2. FileOf[tx[s].req] # FileOf[r]
        BY <1>2, <2>1 DEF NamesDiffer
    <2> QED
        BY <1>1, <1>2, <2>2
<1> QED
    BY <1>1, <1>2, Removals

\* The evidence of a request that stands is on disk, provided no two uploads are stored
\* under one name (upload, removeUploadedFile): that is all it takes.
THEOREM EvidenceStays ==
    ASSUME \A q, r \in Request : FileOf[q] = FileOf[r] => q = r
    PROVE  Spec => []EvidenceKept
<1> DEFINE E == Inv /\ Uploaded /\ EvidenceKept
<1>1. Init => E
    <2>1. Init => Uploaded /\ EvidenceKept
        BY DEF Init, Uploaded, EvidenceKept, Idle, NoRequest
    <2> QED
        BY <2>1, InitInv
<1>2. E /\ [Next]_vars => E'
    <2> SUFFICES ASSUME E, [Next]_vars PROVE E'
        OBVIOUS
    <2>1. Inv' /\ TypeInv /\ HandlerInv /\ NamesDiffer
        BY NextInv DEF Inv, NamesDiffer
    <2>2. Uploaded'
        BY <2>1, NextUploaded
    <2>3. EvidenceKept'
        BY <2>1, NextEvidence
    <2> QED
        BY <2>1, <2>2, <2>3
<1> QED
    BY <1>1, <1>2, PTL DEF Spec
=============================================================================
