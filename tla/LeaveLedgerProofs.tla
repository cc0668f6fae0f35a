------------------------- MODULE LeaveLedgerProofs -------------------------
(***************************************************************************)
(* Proofs about LeaveLedger, for any calendar, any number of employments,  *)
(* leaves and requests at once.                                            *)
(***************************************************************************)
EXTENDS LeaveLedger, FiniteSums

-----------------------------------------------------------------------------
(* The inductive invariant *)

\* A request in progress has what its handler needs.
ReqFine(x) ==
    /\ x \in Request
    /\ IsFiniteSet(x.rows)
    /\ \A e \in Employment : IsFiniteSet({r \in x.mint : r[1] = e})
    /\ x.pc = "plan" => x.op = "cancel"
    /\ x.op \in {"submit", "cancel"} =>
          x.leave \in Leave /\ x.first \in Day /\ x.last \in Day /\ x.first <= x.last
    /\ x.op \in {"submit", "update"} => x.emp \in Employment
    /\ x.op = "terminate" => x.last \in Day
    /\ x.op \in {"rehire", "update"} =>
          x.first \in Day /\ x.type \in EmploymentType /\ x.anchor \in Day

\* Leave that is taken has its days.
LeaveFine ==
    \A l \in Taken : /\ leave[l].first \in Day /\ leave[l].last \in Day
                     /\ leave[l].first <= leave[l].last

TypeInv ==
    /\ TypeOK
    /\ \A s \in Session : ReqFine(tx[s])
    /\ IsFiniteSet(granted)
    /\ LeaveFine

\* e has ended before f begins.
Before(e, f) == Ended(e) /\ emp[e].end < emp[f].start

\* One of any two employments precedes the other: they are a line, with a first
\* and a last one.
IsFirst(e) == e \in Known /\ \A f \in Known : f # e => Before(e, f)
IsLast(e) == e \in Known /\ \A f \in Known : f # e => Before(f, e)

Blank == \A e \in Employment : ~Exists(e) => emp[e] = NoEmployment
Proper == \A e \in Known : Ended(e) => emp[e].start <= emp[e].end
Apart == \A e, f \in Known : e # f => Before(e, f) \/ Before(f, e)
Line == (\E e \in Employment : IsFirst(e)) /\ (\E e \in Employment : IsLast(e))

EmpInv == Blank /\ Proper /\ Apart /\ Line

\* What the holder of the Employee row found under the lock still stands.
Stands(s) ==
    /\ tx[s].op = "submit" => ~DoubleBooked(tx[s].first, tx[s].last)
    /\ tx[s].op = "terminate" =>
          /\ tx[s].emp \in Known /\ ~Ended(tx[s].emp)
          /\ emp[tx[s].emp].start <= tx[s].last
          /\ tx[s].rows \cap spent = {}

LockInv ==
    /\ \A s, t \in Locking : s = t
    /\ \A s \in Locking : Stands(s)
    /\ \A s \in Session : tx[s].op = "update" => tx[s].emp \in Known

Inv == TypeInv /\ EmpInv /\ LockInv /\ NoDoubleBooking

-----------------------------------------------------------------------------
(* Employments in a line *)

\* What the steps that change something else leave alone.
LEMMA EmpStands ==
    ASSUME EmpInv, emp' = emp
    PROVE  EmpInv'
BY DEF EmpInv, Blank, Proper, Apart, Line, IsFirst, IsLast, Before, Known, Exists, Ended

\* Days are integers, so they can be compared, and None is none of them.
LEMMA RowTypes ==
    ASSUME TypeOK
    PROVE  \A e \in Employment :
             /\ Exists(e) => emp[e].start \in Day /\ emp[e].start \in Int
             /\ Ended(e) => emp[e].end \in Day /\ emp[e].end \in Int
<1>1. emp \in [Employment -> [start : Day \cup {None}, end : Day \cup {None},
                              since : Day \cup {None}, frozen : Nat \cup {None}]]
    BY DEF TypeOK
<1>2. \A d \in Day : d \in Int
    BY CalendarAssumption
<1>3. ASSUME NEW e \in Employment
      PROVE  emp[e].start \in Day \cup {None} /\ emp[e].end \in Day \cup {None}
    BY <1>1
<1> QED
    BY <1>2, <1>3 DEF Exists, Ended

\* currentFirst finds the last employment of the line, ...
LEMMA LatestIsLast ==
    ASSUME TypeOK, EmpInv, NEW e, IsLast(e)
    PROVE  Latest(Known) = e
<1> DEFINE P(g) == \A f \in Known \ {g} :
                      \/ ~Ended(g)
                      \/ Ended(f) /\ emp[f].end < emp[g].end
                      \/ Ended(f) /\ emp[f].end = emp[g].end /\ emp[f].start <= emp[g].start
<1>1. \A f \in Known : /\ f \in Employment /\ emp[f].start \in Int
                       /\ Ended(f) => emp[f].end \in Int /\ emp[f].start <= emp[f].end
    BY RowTypes DEF Known, EmpInv, Proper
<1>2. e \in Known /\ P(e)
    BY <1>1 DEF IsLast, Before
<1>3. ASSUME NEW g \in Known, P(g) PROVE g = e
    <2> SUFFICES ASSUME g # e PROVE FALSE
        OBVIOUS
    <2>1. Ended(g) /\ emp[g].end < emp[e].start
        BY DEF IsLast, Before
    <2>2. e \in Known \ {g}
        BY <1>2
    <2>3. Ended(e) /\ emp[e].end <= emp[g].end
        BY <1>1, <1>3, <2>1, <2>2
    <2> QED
        BY <1>1, <1>2, <2>1, <2>3
<1>4. Latest(Known) = CHOOSE g \in Known : P(g)
    BY DEF Latest
<1> HIDE DEF P
<1> QED
    BY <1>2, <1>3, <1>4

\* ... and the correction of the join date the first one.
LEMMA EarliestIsFirst ==
    ASSUME TypeOK, EmpInv, NEW e, IsFirst(e)
    PROVE  Earliest = e
<1> DEFINE P(g) == \A f \in Known : emp[g].start <= emp[f].start
<1>1. \A f \in Known : /\ f \in Employment /\ emp[f].start \in Int
                       /\ Ended(f) => emp[f].end \in Int /\ emp[f].start <= emp[f].end
    BY RowTypes DEF Known, EmpInv, Proper
<1>2. e \in Known /\ P(e)
    BY <1>1 DEF IsFirst, Before
<1>3. ASSUME NEW g \in Known, P(g) PROVE g = e
    BY <1>1, <1>2, <1>3 DEF IsFirst, Before
<1>4. Earliest = CHOOSE g \in Known : P(g)
    BY DEF Earliest
<1> HIDE DEF P
<1> QED
    BY <1>2, <1>3, <1>4

\* The line has a last employment, and currentFirst finds it.
LEMMA LatestExists ==
    ASSUME TypeOK, EmpInv
    PROVE  IsLast(Latest(Known)) /\ Latest(Known) \in Known
BY LatestIsLast DEF EmpInv, Line, IsLast

\* It has a first one.
LEMMA EarliestExists ==
    ASSUME TypeOK, EmpInv
    PROVE  IsFirst(Earliest) /\ Earliest \in Known
BY EarliestIsFirst DEF EmpInv, Line, IsFirst

\* Somebody who is employed today is so by the last employment.
LEMMA CurrentExists ==
    ASSUME TypeOK, EmpInv, Current # {}
    PROVE  Latest(Current) \in Current
<1>1. PICK m \in Known : IsLast(m)
    BY DEF EmpInv, Line, IsLast
<1>2. \A f \in Known : /\ f \in Employment /\ emp[f].start \in Int
                       /\ Ended(f) => emp[f].end \in Int /\ emp[f].start <= emp[f].end
    BY RowTypes DEF Known, EmpInv, Proper
<1>3. Current \subseteq Known /\ today \in Int
    BY CalendarAssumption DEF Current, Employed, Known, TypeOK
<1>4. m \in Current
    <2>1. PICK c \in Current : TRUE
        OBVIOUS
    <2>2. CASE c = m
        BY <2>1, <2>2
    <2>3. CASE c # m
        <3>1. Ended(c) /\ emp[c].end < emp[m].start /\ emp[c].end >= today
            BY <1>1, <1>3, <2>1, <2>3 DEF IsLast, Before, Current, Employed
        <3>2. Ended(m) => emp[m].end >= today
            BY <1>2, <1>3, <2>1, <3>1
        <3> QED
            BY <1>1, <3>2 DEF Current, Employed, Known
    <2> QED
        BY <2>2, <2>3
<1> DEFINE P(g) == \A f \in Current \ {g} :
                      \/ ~Ended(g)
                      \/ Ended(f) /\ emp[f].end < emp[g].end
                      \/ Ended(f) /\ emp[f].end = emp[g].end /\ emp[f].start <= emp[g].start
<1>5. P(m)
    <2>1. ASSUME NEW f \in Current \ {m} PROVE Ended(f) /\ (Ended(m) => emp[f].end < emp[m].end)
        <3>1. Ended(f) /\ emp[f].end < emp[m].start
            BY <1>1, <1>3, <2>1 DEF IsLast, Before
        <3> QED
            BY <1>2, <1>3, <3>1
    <2> QED
        BY <2>1
<1>6. Latest(Current) = CHOOSE g \in Current : P(g)
    BY DEF Latest
<1> HIDE DEF P
<1> QED
    BY <1>4, <1>5, <1>6

-----------------------------------------------------------------------------
(* Requests *)

\* A session without a request.
LEMMA IdleFine == ReqFine(Idle)
BY FS_EmptySet DEF Idle, Request, ReqFine

\* A step that gives one request a fine value keeps them all fine.
LEMMA OneChanges ==
    ASSUME TypeInv, NEW s \in Session, NEW x, ReqFine(x), tx' = [tx EXCEPT ![s] = x]
    PROVE  /\ tx' \in [Session -> Request] /\ tx'[s] = x
           /\ \A t \in Session : ReqFine(tx'[t]) /\ (t # s => tx'[t] = tx[t])
<1>1. x \in Request
    BY DEF ReqFine
<1>2. tx \in [Session -> Request]
    BY DEF TypeInv, TypeOK
<1>3. tx' \in [Session -> Request] /\ tx'[s] = x /\ \A t \in Session : t # s => tx'[t] = tx[t]
    BY <1>1, <1>2
<1> QED
    BY <1>3 DEF TypeInv

\* So does one that ends a request.
LEMMA OneEnds ==
    ASSUME TypeInv, NEW s \in Session, End(s)
    PROVE  /\ tx' \in [Session -> Request] /\ tx'[s] = Idle
           /\ \A t \in Session : ReqFine(tx'[t]) /\ (t # s => tx'[t] = tx[t])
BY IdleFine, OneChanges DEF End

\* What Proceed makes of the request: it goes on, or is answered, and keeps its kind.
Goes(y, x) ==
    \/ y = Idle
    \/ \E p \in {"mint", "rows", "lock"} : y = [x EXCEPT !.pc = p]

\* What follows the catch-up leaves the request fine.
LEMMA ProceedKeeps ==
    ASSUME TypeInv, NEW s \in Session, NEW x, ReqFine(x), Proceed(s, x)
    PROVE  /\ tx' \in [Session -> Request] /\ Goes(tx'[s], x)
           /\ \A t \in Session : ReqFine(tx'[t]) /\ (t # s => tx'[t] = tx[t])
<1> DEFINE y == CASE x.rows # {} -> [x EXCEPT !.pc = "mint"]
                  [] x.rows = {} /\ x.mint # {} -> [x EXCEPT !.pc = "rows"]
                  [] x.rows = {} /\ x.mint = {} /\ x.op = "balance" -> Idle
                  [] OTHER -> [x EXCEPT !.pc = "lock"]
<1>1. tx' = [tx EXCEPT ![s] = y]
    BY DEF Proceed
<1>2. Goes(y, x)
    BY DEF Goes
<1>3. ReqFine(y)
    <2>1. ASSUME NEW p \in {"mint", "rows", "lock"} PROVE ReqFine([x EXCEPT !.pc = p])
        BY DEF ReqFine, Request
    <2> QED
        BY <1>2, <2>1, IdleFine DEF Goes
<1> HIDE DEF y
<1> QED
    BY <1>1, <1>2, <1>3, OneChanges

\* A request that has taken its rows from a table goes on to commit.
LEMMA PlannedFine ==
    ASSUME NEW x, ReqFine(x), NEW R \in SUBSET Row, IsFiniteSet(R)
    PROVE  ReqFine([x EXCEPT !.pc = "commit", !.rows = R])
<1> DEFINE y == [x EXCEPT !.pc = "commit", !.rows = R]
<1>1. x \in Request
    BY DEF ReqFine
<1>2. y \in Request
    BY <1>1 DEF Request
<1>3. /\ y.op = x.op /\ y.pc = "commit" /\ y.rows = R /\ y.mint = x.mint /\ y.emp = x.emp
      /\ y.leave = x.leave /\ y.first = x.first /\ y.last = x.last
      /\ y.type = x.type /\ y.anchor = x.anchor
    BY <1>1 DEF Request
<1> HIDE DEF y
<1>4. ReqFine(y)
    BY <1>2, <1>3 DEF ReqFine
<1> QED
    BY <1>4 DEF y

\* One that has read an employment's accrual rows goes on to insert those missing.
LEMMA MintingFine ==
    ASSUME NEW x, ReqFine(x), NEW M \in SUBSET Row, NEW R \in SUBSET Row, IsFiniteSet(R),
           \A e \in Employment : IsFiniteSet({r \in M : r[1] = e})
    PROVE  ReqFine([x EXCEPT !.mint = M, !.rows = R])
<1> DEFINE y == [x EXCEPT !.mint = M, !.rows = R]
<1>1. x \in Request
    BY DEF ReqFine
<1>2. y \in Request
    BY <1>1 DEF Request
<1>3. /\ y.op = x.op /\ y.pc = x.pc /\ y.rows = R /\ y.mint = M /\ y.emp = x.emp
      /\ y.leave = x.leave /\ y.first = x.first /\ y.last = x.last
      /\ y.type = x.type /\ y.anchor = x.anchor
    BY <1>1 DEF Request
<1> HIDE DEF y
<1>4. ReqFine(y)
    BY <1>2, <1>3 DEF ReqFine
<1> QED
    BY <1>4 DEF y

\* What a rehire and an edit carry to the lock.
LEMMA RehireFine ==
    ASSUME NEW start \in Day, NEW t \in EmploymentType, NEW since \in Day \cup {None}
    PROVE  ReqFine([Idle EXCEPT !.op = "rehire", !.pc = "lock", !.first = start,
                                !.type = t, !.since = since, !.anchor = start])
<1> DEFINE y == [Idle EXCEPT !.op = "rehire", !.pc = "lock", !.first = start,
                             !.type = t, !.since = since, !.anchor = start]
<1>1. y \in Request
    BY DEF Idle, Request
<1>2. /\ y.op = "rehire" /\ y.pc = "lock" /\ y.first = start /\ y.type = t /\ y.anchor = start
      /\ y.rows = {} /\ y.mint = {}
    BY DEF Idle
<1> HIDE DEF y
<1>3. ReqFine(y)
    BY <1>1, <1>2, FS_EmptySet DEF ReqFine
<1> QED
    BY <1>3 DEF y

\* The same of an edit of the record.
LEMMA UpdateFine ==
    ASSUME NEW join \in Day, NEW e \in Employment, NEW t \in EmploymentType,
           NEW was \in EmploymentType, NEW since \in Day \cup {None}, NEW a \in Day
    PROVE  ReqFine([Idle EXCEPT !.op = "update", !.pc = "lock", !.first = join, !.emp = e,
                                !.type = t, !.was = was, !.since = since, !.anchor = a])
<1> DEFINE y == [Idle EXCEPT !.op = "update", !.pc = "lock", !.first = join, !.emp = e,
                             !.type = t, !.was = was, !.since = since, !.anchor = a]
<1>1. y \in Request
    BY DEF Idle, Request
<1>2. /\ y.op = "update" /\ y.pc = "lock" /\ y.first = join /\ y.emp = e /\ y.type = t
      /\ y.anchor = a /\ y.rows = {} /\ y.mint = {}
    BY DEF Idle
<1> HIDE DEF y
<1>3. ReqFine(y)
    BY <1>1, <1>2, FS_EmptySet DEF ReqFine
<1> QED
    BY <1>3 DEF y

\* A month is an integer.
LEMMA MonthInt == \A d \in Day : Month(d) \in Int
BY CalendarAssumption DEF Month

\* The months an employment is due are finitely many.
LEMMA DueFinite ==
    ASSUME TypeOK, NEW e \in Accruing
    PROVE  Due(e) \subseteq Row /\ IsFiniteSet(Due(e)) /\ \A r \in Due(e) : r[1] = e
<1>1. e \in Employment /\ emp[e].since \in Day /\ today \in Day
    BY DEF TypeOK, Accruing, Current
<1>2. LastMonth(e) \in Int /\ Month(emp[e].since) \in Int
    <2>1. Ended(e) => emp[e].end \in Day
        BY <1>1, RowTypes
    <2> QED
        BY <1>1, <2>1, MonthInt DEF LastMonth
<1> DEFINE I == Month(emp[e].since) .. LastMonth(e)
           f == [r \in Due(e) |-> r[2]]
<1>3. \A r \in Due(e) : r = <<e, r[2]>> /\ r[2] \in I /\ r \in Row
    BY <1>1, <1>2, MonthInt DEF Due, Row
<1>4. IsFiniteSet(I)
    BY <1>2, FS_Interval
<1>5. f \in Injection(Due(e), I)
    BY <1>3 DEF Injection, IsInjective
<1> HIDE DEF I, f
<1> QED
    BY <1>3, <1>4, <1>5, FS_Injection

-----------------------------------------------------------------------------
(* Types *)

\* A new employee.
LEMMA InitTypes == Init => TypeInv
<1> SUFFICES ASSUME Init PROVE TypeInv
    OBVIOUS
<1>1. \A s \in Session : tx[s] = Idle
    BY DEF Init
<1>2. \A s \in Session : ReqFine(tx[s])
    BY <1>1, IdleFine
<1>3. tx \in [Session -> Request]
    BY IdleFine DEF Init, ReqFine
<1>4. \A l \in Leave : leave[l] = NoLeave
    BY DEF Init
<1>5. leave \in [Leave -> [status : {"none", "taken", "gone"}, paid : BOOLEAN,
                           first : Day \cup {None}, last : Day \cup {None},
                           drew : SUBSET Row]]
    BY DEF Init, NoLeave
<1>6. emp \in [Employment -> [start : Day \cup {None}, end : Day \cup {None},
                              since : Day \cup {None}, frozen : Nat \cup {None}]]
    <2>1. today \in Day
        BY DEF Init
    <2>2. \A d \in Day \cup {None} :
             [NoEmployment EXCEPT !.start = today, !.since = d]
                \in [start : Day \cup {None}, end : Day \cup {None},
                     since : Day \cup {None}, frozen : Nat \cup {None}]
        BY <2>1 DEF NoEmployment
    <2>3. NoEmployment \in [start : Day \cup {None}, end : Day \cup {None},
                            since : Day \cup {None}, frozen : Nat \cup {None}]
        BY DEF NoEmployment
    <2>4. PICK e \in Employment :
             emp = [f \in Employment |->
                      IF f # e THEN NoEmployment
                      ELSE [NoEmployment EXCEPT
                              !.start = today,
                              !.since = IF type = "FULL_TIME" THEN today ELSE None]]
        BY DEF Init
    <2> QED
        BY <2>1, <2>2, <2>3, <2>4
<1>7. TypeOK
    BY <1>3, <1>5, <1>6 DEF Init, TypeOK
<1>8. LeaveFine
    BY <1>4 DEF LeaveFine, Taken, NoLeave
<1>9. IsFiniteSet(granted)
    BY FS_EmptySet DEF Init
<1> QED
    BY <1>2, <1>7, <1>8, <1>9 DEF TypeInv

\* A step that changes nothing but requests.
LEMMA OnlyRequests ==
    ASSUME TypeInv, UNCHANGED <<today, type, emp, granted, spent, leave, stale>>,
           tx' \in [Session -> Request], \A t \in Session : ReqFine(tx'[t])
    PROVE  TypeInv'
<1>1. TypeOK'
    BY DEF TypeInv, TypeOK
<1> QED
    BY <1>1 DEF TypeInv, LeaveFine, Taken

\* The catch-up keeps the types.
LEMMA AccrualTypes ==
    ASSUME TypeInv, NEW s \in Session, Accrual(s)
    PROVE  TypeInv'
<1>0. ReqFine(tx[s]) /\ tx[s] \in Request
    BY DEF TypeInv, ReqFine
<1>1. CASE StartBalance(s)
    <2>1. ReqFine([Idle EXCEPT !.op = "balance", !.pc = "accrue"])
        BY FS_EmptySet DEF Idle, Request, ReqFine
    <2> QED
        BY <1>1, <2>1, OneChanges, OnlyRequests DEF StartBalance
<1>2. CASE ReadEmployments(s)
    <2> DEFINE M == UNION {Due(e) : e \in Accruing}
               x == [tx[s] EXCEPT !.mint = M]
               y == [tx[s] EXCEPT !.mint = M, !.rows = tx[s].rows]
    <2>1. M \subseteq Row
        BY DueFinite DEF TypeInv
    <2>2. ASSUME NEW e \in Employment PROVE IsFiniteSet({r \in M : r[1] = e})
        <3>1. CASE e \in Accruing
            <4>1. {r \in M : r[1] = e} \in SUBSET Due(e)
                BY DueFinite DEF TypeInv
            <4> QED
                BY <3>1, <4>1, DueFinite, FS_Subset DEF TypeInv
        <3>2. CASE e \notin Accruing
            <4>1. {r \in M : r[1] = e} = {}
                BY <3>2, DueFinite DEF TypeInv
            <4> QED
                BY <4>1, FS_EmptySet
        <3> QED
            BY <3>1, <3>2
    <2> HIDE DEF M
    <2>3. x = y
        BY <1>0 DEF Request
    <2>4. tx[s].rows \in SUBSET Row /\ IsFiniteSet(tx[s].rows)
        BY <1>0 DEF ReqFine, Request
    <2>5. ReqFine(x)
        BY <1>0, <2>1, <2>2, <2>3, <2>4, MintingFine
    <2> QED
        BY <1>2, <2>5, ProceedKeeps, OnlyRequests DEF ReadEmployments, M
<1>3. CASE Mint(s)
    <2> DEFINE x == [tx[s] EXCEPT !.rows = {}]
    <2>1. ReqFine(x)
        BY <1>0, FS_EmptySet DEF ReqFine, Request
    <2>2. tx' \in [Session -> Request] /\ \A t \in Session : ReqFine(tx'[t])
        BY <1>3, <2>1, ProceedKeeps DEF Mint
    <2>3. IsFiniteSet(granted') /\ granted' \in SUBSET Row
        BY <1>0, <1>3, FS_Union DEF Mint, ReqFine, Request, TypeInv, TypeOK
    <2>4. TypeOK'
        BY <1>3, <2>2, <2>3 DEF Mint, TypeInv, TypeOK
    <2> QED
        BY <1>3, <2>2, <2>3, <2>4 DEF Mint, TypeInv, LeaveFine, Taken
<1>4. ASSUME NEW e \in Employment, ReadRows(s, e) PROVE TypeInv'
    <2> DEFINE due == {r \in tx[s].mint : r[1] = e}
               x == [tx[s] EXCEPT !.mint = @ \ due, !.rows = due \ granted]
    <2>1. IsFiniteSet(due \ granted)
        BY <1>0, FS_Difference DEF ReqFine
    <2>2. ASSUME NEW f \in Employment PROVE IsFiniteSet({r \in tx[s].mint \ due : r[1] = f})
        <3>1. {r \in tx[s].mint \ due : r[1] = f} \in SUBSET {r \in tx[s].mint : r[1] = f}
            OBVIOUS
        <3> QED
            BY <1>0, <3>1, FS_Subset DEF ReqFine
    <2>3. due \ granted \in SUBSET Row /\ tx[s].mint \ due \in SUBSET Row
        BY <1>0 DEF Request
    <2> HIDE DEF due
    <2>4. ReqFine(x)
        BY <1>0, <2>1, <2>2, <2>3, MintingFine
    <2> QED
        BY <1>4, <2>4, ProceedKeeps, OnlyRequests DEF ReadRows, due
<1> QED
    BY <1>1, <1>2, <1>3, <1>4 DEF Accrual

\* A plan only picks among rows there are.
LEMMA PickedFinite ==
    ASSUME TypeInv, NEW S \in SUBSET granted
    PROVE  IsFiniteSet(S) /\ S \in SUBSET Row
BY FS_Subset DEF TypeInv, TypeOK

\* So do submission and cancellation, ...
LEMMA LeaveTypes ==
    ASSUME TypeInv, EmpInv, NEW s \in Session, LeaveStep(s)
    PROVE  TypeInv'
<1>0. ReqFine(tx[s]) /\ tx[s] \in Request /\ TypeOK
    BY DEF TypeInv, ReqFine
<1>1. ASSUME NEW l \in Leave, NEW ask \in Ask, StartSubmit(s, l, ask) PROVE TypeInv'
    <2> DEFINE x == [Idle EXCEPT !.op = "submit", !.leave = l, !.paid = ask.paid,
                                 !.first = ask.first, !.last = ask.last, !.emp = Latest(Current),
                                 !.pc = IF ask.paid THEN "accrue" ELSE "lock"]
    <2>1. Latest(Current) \in Employment
        BY <1>0, <1>1, CurrentExists DEF StartSubmit, Current
    <2>2. /\ ask.paid \in BOOLEAN /\ ask.first \in Day /\ ask.last \in Day
          /\ ask.first <= ask.last
        BY CalendarAssumption
    <2>3. ReqFine(x)
        BY <2>1, <2>2, FS_EmptySet DEF Idle, Request, ReqFine
    <2> QED
        BY <1>1, <2>3, OneChanges, OnlyRequests DEF StartSubmit
<1>2. ASSUME NEW l \in Leave, NEW hr \in BOOLEAN, StartCancel(s, l, hr) PROVE TypeInv'
    <2> DEFINE x == [Idle EXCEPT !.op = "cancel", !.pc = "plan", !.leave = l,
                                 !.paid = leave[l].paid,
                                 !.first = leave[l].first, !.last = leave[l].last]
    <2>1. /\ leave[l].paid \in BOOLEAN /\ leave[l].first \in Day /\ leave[l].last \in Day
          /\ leave[l].first <= leave[l].last
        BY <1>0, <1>2 DEF StartCancel, TypeInv, TypeOK, LeaveFine, Taken
    <2>2. ReqFine(x)
        BY <2>1, FS_EmptySet DEF Idle, Request, ReqFine
    <2> QED
        BY <1>2, <2>2, OneChanges, OnlyRequests DEF StartCancel
<1>3. CASE PlanSubmit(s)
    <2> DEFINE R == IF tx[s].paid
                    THEN FirstOf(Free(tx[s].emp), Length(tx[s].first, tx[s].last)) ELSE {}
    <2>1. R \in SUBSET granted
        BY DEF FirstOf, Free, Live
    <2> HIDE DEF R
    <2>2. ReqFine([tx[s] EXCEPT !.pc = "commit", !.rows = R])
        BY <1>0, <2>1, PickedFinite, PlannedFine
    <2>3. tx' = [tx EXCEPT ![s] = [tx[s] EXCEPT !.pc = "commit", !.rows = R]]
        BY <1>3 DEF PlanSubmit, R
    <2> QED
        BY <1>3, <2>2, <2>3, OneChanges, OnlyRequests DEF PlanSubmit
<1>4. CASE CommitSubmit(s)
    <2> DEFINE x == tx[s]
               n == [status |-> "taken", paid |-> x.paid, first |-> x.first,
                     last |-> x.last, drew |-> x.rows]
    <2>1. /\ x.leave \in Leave /\ x.paid \in BOOLEAN /\ x.first \in Day /\ x.last \in Day
          /\ x.first <= x.last /\ x.rows \in SUBSET Row
        BY <1>0, <1>4 DEF CommitSubmit, ReqFine, Request
    <2>2. leave' = [leave EXCEPT ![x.leave] = n] /\ spent' = spent \cup x.rows
        BY <1>4 DEF CommitSubmit
    <2>3. leave' \in [Leave -> [status : {"none", "taken", "gone"}, paid : BOOLEAN,
                                first : Day \cup {None}, last : Day \cup {None},
                                drew : SUBSET Row]]
        BY <1>0, <2>1, <2>2 DEF TypeOK
    <2>4. LeaveFine'
        BY <1>0, <2>1, <2>2 DEF TypeInv, TypeOK, LeaveFine, Taken
    <2>5. tx' \in [Session -> Request] /\ \A t \in Session : ReqFine(tx'[t])
        BY <1>4, OneEnds DEF CommitSubmit
    <2>6. TypeOK'
        BY <1>0, <1>4, <2>1, <2>2, <2>3, <2>5 DEF CommitSubmit, TypeOK
    <2> QED
        BY <1>4, <2>4, <2>5, <2>6 DEF CommitSubmit, TypeInv
<1>5. CASE PlanCancel(s)
    <2> DEFINE e == RefundTo(tx[s].first)
               n == Length(tx[s].first, tx[s].last)
               R == IF tx[s].paid THEN Refund(e, n) ELSE {}
    <2>1. R \in SUBSET granted
        BY DEF Refund, FirstOf
    <2>2. tx' = [tx EXCEPT ![s] = [tx[s] EXCEPT !.pc = "commit", !.rows = R]]
        BY <1>5 DEF PlanCancel
    <2> HIDE DEF R
    <2>3. ReqFine([tx[s] EXCEPT !.pc = "commit", !.rows = R])
        BY <1>0, <2>1, PickedFinite, PlannedFine
    <2> QED
        BY <1>5, <2>2, <2>3, OneChanges, OnlyRequests DEF PlanCancel
<1>6. CASE CommitCancel(s)
    <2>1. tx[s].leave \in Leave
        BY <1>0, <1>6 DEF CommitCancel, ReqFine
    <2>2. leave' = [leave EXCEPT ![tx[s].leave] =
                      [leave[tx[s].leave] EXCEPT !.status = "gone", !.drew = {}]]
        BY <1>6 DEF CommitCancel
    <2> DEFINE L == [status : {"none", "taken", "gone"}, paid : BOOLEAN,
                     first : Day \cup {None}, last : Day \cup {None}, drew : SUBSET Row]
    <2>3. leave \in [Leave -> L]
        BY <1>0 DEF TypeOK
    <2>4. \A row \in L : [row EXCEPT !.status = "gone", !.drew = {}] \in L
        OBVIOUS
    <2>5. leave' \in [Leave -> L]
        BY <2>1, <2>2, <2>3, <2>4
    <2>6. LeaveFine'
        BY <1>0, <2>1, <2>2 DEF TypeInv, TypeOK, LeaveFine, Taken
    <2>7. tx' \in [Session -> Request] /\ \A t \in Session : ReqFine(tx'[t])
        BY <1>6, OneEnds DEF CommitCancel
    <2>8. spent' \in SUBSET Row
        BY <1>0, <1>6 DEF CommitCancel, TypeOK
    <2>9. TypeOK'
        BY <1>0, <1>6, <2>5, <2>7, <2>8 DEF CommitCancel, TypeOK
    <2> QED
        BY <1>6, <2>6, <2>7, <2>9 DEF CommitCancel, TypeInv
<1> QED
    BY <1>1, <1>2, <1>3, <1>4, <1>5, <1>6 DEF LeaveStep

\* An anchor or none.
LEMMA AnchorTypes ==
    ASSUME TypeOK, NEW x \in Request
    PROVE  FullTimeSince(x) \in Day \cup {None}
BY DEF FullTimeSince, Request, TypeOK

\* A row of the table changes into a row of the table.
LEMMA RowKept ==
    ASSUME TypeOK
    PROVE  \A e \in Employment : emp[e] \in [start : Day \cup {None}, end : Day \cup {None},
                                             since : Day \cup {None}, frozen : Nat \cup {None}]
BY DEF TypeOK

\* What the date and the balance of a termination, or a corrected start and anchor, make
\* of a row.
LEMMA RowChanges ==
    ASSUME TypeOK, NEW e \in Employment, NEW f \in Employment,
           NEW a \in Day \cup {None}, NEW b \in Day \cup {None}, NEW n \in Nat \cup {None}
    PROVE  /\ [emp EXCEPT ![e].end = a, ![e].frozen = n] \in
                 [Employment -> [start : Day \cup {None}, end : Day \cup {None},
                                 since : Day \cup {None}, frozen : Nat \cup {None}]]
           /\ [emp EXCEPT ![e].start = a, ![f].since = b] \in
                 [Employment -> [start : Day \cup {None}, end : Day \cup {None},
                                 since : Day \cup {None}, frozen : Nat \cup {None}]]
           /\ [emp EXCEPT ![e] = [NoEmployment EXCEPT !.start = a, !.since = b]] \in
                 [Employment -> [start : Day \cup {None}, end : Day \cup {None},
                                 since : Day \cup {None}, frozen : Nat \cup {None}]]
<1> DEFINE R == [start : Day \cup {None}, end : Day \cup {None},
                 since : Day \cup {None}, frozen : Nat \cup {None}]
<1>1. emp \in [Employment -> R]
    BY DEF TypeOK
<1>2. \A r \in R : /\ [r EXCEPT !.end = a, !.frozen = n] \in R
                   /\ [r EXCEPT !.start = a] \in R
                   /\ [r EXCEPT !.since = b] \in R
    OBVIOUS
<1>3. [NoEmployment EXCEPT !.start = a, !.since = b] \in R
    BY DEF NoEmployment
<1> HIDE DEF R
<1>4. [emp EXCEPT ![e].end = a, ![e].frozen = n]
        = [emp EXCEPT ![e] = [emp[e] EXCEPT !.end = a, !.frozen = n]]
    BY <1>1
<1>5. [emp EXCEPT ![e].start = a] \in [Employment -> R]
    BY <1>1, <1>2
<1>6. [emp EXCEPT ![e].start = a, ![f].since = b]
        = [[emp EXCEPT ![e].start = a] EXCEPT ![f].since = b]
    BY <1>1
<1>7. [[emp EXCEPT ![e].start = a] EXCEPT ![f].since = b] \in [Employment -> R]
    BY <1>2, <1>5
<1>8. [emp EXCEPT ![e].end = a, ![e].frozen = n] \in [Employment -> R]
    BY <1>1, <1>2, <1>4
<1>9. [emp EXCEPT ![e] = [NoEmployment EXCEPT !.start = a, !.since = b]] \in [Employment -> R]
    BY <1>1, <1>3
<1> QED
    BY <1>6, <1>7, <1>8, <1>9 DEF R

\* The steps of terminations, rehires and edits that only read.
LEMMA EmployingReads ==
    ASSUME TypeInv, EmpInv, NEW s \in Session,
           \/ \E end \in Day : StartTerminate(s, end)
           \/ PlanTerminate(s)
           \/ \E start \in Day, since \in Anchor \cup {None} : StartRehire(s, start, since)
           \/ \E new \in EmploymentType, join \in JoinDate, since \in Anchor \cup {None} :
                 StartUpdate(s, new, join, since)
    PROVE  TypeInv'
<1>0. ReqFine(tx[s]) /\ tx[s] \in Request /\ TypeOK /\ type \in EmploymentType
    BY DEF TypeInv, ReqFine, TypeOK
<1>1. ASSUME NEW end \in Day, StartTerminate(s, end) PROVE TypeInv'
    <2>1. ReqFine([Idle EXCEPT !.op = "terminate", !.pc = "accrue", !.last = end])
        BY FS_EmptySet DEF Idle, Request, ReqFine
    <2> QED
        BY <1>1, <2>1, OneChanges, OnlyRequests DEF StartTerminate
<1>2. CASE PlanTerminate(s)
    <2> DEFINE e == Latest(Known)
               R == {r \in granted \ spent : r[1] = e /\ r[2] > Month(tx[s].last)}
               n == Cardinality(Free(e) \ R)
               y == [tx[s] EXCEPT !.pc = "commit", !.rows = R]
               z == [y EXCEPT !.emp = e, !.frozen = n]
    <2>1. e \in Employment
        BY <1>0, LatestExists DEF Known
    <2>2. n \in Nat
        <3>1. Free(e) \ R \in SUBSET granted
            BY DEF Free, Live
        <3> QED
            BY <3>1, PickedFinite, FS_CardinalityType
    <2>3. ReqFine(y)
        BY <1>0, PickedFinite, PlannedFine
    <2>4. tx' = [tx EXCEPT ![s] = [tx[s] EXCEPT !.pc = "commit", !.emp = e, !.rows = R,
                                                !.frozen = n]]
        BY <1>2 DEF PlanTerminate
    <2>5. y \in Request /\ y.op = "terminate"
        BY <1>0, <1>2, <2>3 DEF PlanTerminate, ReqFine, Request
    <2>6. z = [tx[s] EXCEPT !.pc = "commit", !.emp = e, !.rows = R, !.frozen = n]
        BY <1>0 DEF Request
    <2> HIDE DEF e, n, R, y
    <2>7. z \in Request
        BY <2>1, <2>2, <2>5 DEF Request
    <2>8. /\ z.op = "terminate" /\ z.pc = y.pc /\ z.rows = y.rows /\ z.mint = y.mint
          /\ z.last = y.last
        BY <2>5 DEF Request
    <2>9. ReqFine(z)
        BY <2>3, <2>5, <2>7, <2>8 DEF ReqFine
    <2> HIDE DEF z
    <2> QED
        BY <1>2, <2>4, <2>6, <2>9, OneChanges, OnlyRequests DEF PlanTerminate
<1>3. ASSUME NEW start \in Day, NEW since \in Anchor \cup {None}, StartRehire(s, start, since)
      PROVE  TypeInv'
    <2>1. since \in Day \cup {None}
        BY CalendarAssumption
    <2>2. ReqFine([Idle EXCEPT !.op = "rehire", !.pc = "lock", !.first = start,
                               !.type = type, !.since = since, !.anchor = start])
        BY <1>0, <2>1, RehireFine
    <2> QED
        BY <1>3, <2>2, OneChanges, OnlyRequests DEF StartRehire
<1>4. ASSUME NEW new \in EmploymentType, NEW join \in JoinDate, NEW since \in Anchor \cup {None},
             StartUpdate(s, new, join, since)
      PROVE  TypeInv'
    <2> DEFINE e == Latest(Known)
               a == IF emp[e].since # None THEN emp[e].since ELSE emp[e].start
    <2>1. since \in Day \cup {None} /\ join \in Day
        BY CalendarAssumption
    <2>2. e \in Known
        BY <1>0, LatestExists
    <2> HIDE DEF e
    <2>3. e \in Employment /\ a \in Day
        <3>1. e \in Employment /\ Exists(e)
            BY <2>2 DEF Known
        <3>2. emp[e].start \in Day
            BY <1>0, <3>1, RowTypes
        <3>3. emp[e].since \in Day \cup {None}
            BY <1>0, <3>1, RowKept
        <3> QED
            BY <3>1, <3>2, <3>3
    <2> HIDE DEF a
    <2>4. ReqFine([Idle EXCEPT !.op = "update", !.pc = "lock", !.first = join, !.emp = e,
                               !.type = new, !.was = type, !.since = since, !.anchor = a])
        BY <1>0, <2>1, <2>3, UpdateFine
    <2> QED
        BY <1>4, <2>4, OneChanges, OnlyRequests DEF StartUpdate, e, a
<1> QED
    BY <1>1, <1>2, <1>3, <1>4

\* ... and termination, rehire and edit.
LEMMA EmployingTypes ==
    ASSUME TypeInv, EmpInv, LockInv, NEW s \in Session, Employing(s)
    PROVE  TypeInv'
<1>0. ReqFine(tx[s]) /\ tx[s] \in Request /\ TypeOK
    BY DEF TypeInv, ReqFine
<1>1. CASE CommitTerminate(s)
    <2>1. tx[s].emp \in Employment
        <3>1. s \in Locking
            BY <1>1 DEF CommitTerminate, Locking
        <3> QED
            BY <1>1, <3>1 DEF CommitTerminate, LockInv, Stands, Known
    <2>2. tx[s].last \in Day \cup {None} /\ tx[s].frozen \in Nat \cup {None}
        BY <1>0 DEF Request
    <2>3. emp' \in [Employment -> [start : Day \cup {None}, end : Day \cup {None},
                                   since : Day \cup {None}, frozen : Nat \cup {None}]]
        BY <1>0, <1>1, <2>1, <2>2, RowChanges DEF CommitTerminate
    <2>4. IsFiniteSet(granted') /\ granted' \in SUBSET Row
        BY <1>1, PickedFinite DEF CommitTerminate
    <2>5. tx' \in [Session -> Request] /\ \A t \in Session : ReqFine(tx'[t])
        BY <1>1, OneEnds DEF CommitTerminate
    <2>6. TypeOK'
        BY <1>0, <1>1, <2>3, <2>4, <2>5 DEF CommitTerminate, TypeOK
    <2> QED
        BY <1>1, <2>4, <2>5, <2>6 DEF CommitTerminate, TypeInv, LeaveFine, Taken
<1>2. ASSUME NEW e \in Employment, Rehire(s, e) PROVE TypeInv'
    <2>1. FullTimeSince(tx[s]) \in Day \cup {None} /\ tx[s].first \in Day \cup {None}
        BY <1>0, AnchorTypes DEF Request
    <2>2. emp' \in [Employment -> [start : Day \cup {None}, end : Day \cup {None},
                                   since : Day \cup {None}, frozen : Nat \cup {None}]]
        BY <1>0, <1>2, <2>1, RowChanges DEF Rehire
    <2>3. tx' \in [Session -> Request] /\ \A t \in Session : ReqFine(tx'[t])
        BY <1>2, OneEnds DEF Rehire
    <2>4. stale' \subseteq Employment
        BY <1>0, <1>2 DEF Rehire, TypeOK
    <2>5. TypeOK'
        BY <1>0, <1>2, <2>2, <2>3, <2>4 DEF Rehire, TypeOK
    <2> QED
        BY <1>2, <2>3, <2>5 DEF Rehire, TypeInv, LeaveFine, Taken
<1>3. CASE Update(s)
    <2>1. FullTimeSince(tx[s]) \in Day \cup {None} /\ tx[s].first \in Day \cup {None}
        BY <1>0, AnchorTypes DEF Request
    <2>2. Earliest \in Employment /\ Latest(Known) \in Employment /\ tx[s].emp \in Employment
          /\ tx[s].type \in EmploymentType
        BY <1>0, <1>3, EarliestExists, LatestExists DEF Known, Update, ReqFine
    <2>3. emp' \in [Employment -> [start : Day \cup {None}, end : Day \cup {None},
                                   since : Day \cup {None}, frozen : Nat \cup {None}]]
        <3>1. emp' = [emp EXCEPT ![Earliest].start = tx[s].first,
                                 ![tx[s].emp].since = FullTimeSince(tx[s])]
            BY <1>3 DEF Update
        <3> QED
            BY <1>0, <2>1, <2>2, <3>1, RowChanges
    <2>4. tx' \in [Session -> Request] /\ \A t \in Session : ReqFine(tx'[t])
        BY <1>3, OneEnds, SMTT(30) DEF Update
    <2>5. stale' \subseteq Employment /\ type' \in EmploymentType
        BY <1>0, <1>3, <2>2 DEF Update, TypeOK
    <2>6. TypeOK'
        BY <1>0, <1>3, <2>3, <2>4, <2>5 DEF Update, TypeOK
    <2> QED
        BY <1>3, <2>4, <2>6 DEF Update, TypeInv, LeaveFine, Taken
<1> QED
    BY <1>1, <1>2, <1>3, EmployingReads DEF Employing

\* TypeInv is inductive, given the line of employments.
LEMMA NextTypes ==
    ASSUME Inv, [Next]_vars
    PROVE  TypeInv'
<1>0. TypeInv /\ EmpInv /\ LockInv
    BY DEF Inv
<1>1. ASSUME NEW s \in Session, Rollback(s) PROVE TypeInv'
    BY <1>0, <1>1, OneEnds, OnlyRequests DEF Rollback
<1>2. CASE Tick
    <2>1. TypeOK'
        BY <1>0, <1>2 DEF Tick, TypeInv, TypeOK
    <2> QED
        BY <1>0, <1>2, <2>1 DEF Tick, TypeInv, LeaveFine, Taken
<1>3. CASE UNCHANGED vars
    BY <1>0, <1>3 DEF vars, TypeInv, TypeOK, LeaveFine, Taken
<1> QED
    BY <1>0, <1>1, <1>2, <1>3, AccrualTypes, LeaveTypes, EmployingTypes DEF Next

-----------------------------------------------------------------------------
(* The line of employments *)

\* The one employment of a new employee is a line.
LEMMA InitEmp ==
    ASSUME Init
    PROVE  EmpInv
<1>1. PICK e \in Employment : /\ Exists(e) /\ ~Ended(e)
                              /\ \A f \in Employment : f # e => emp[f] = NoEmployment
    <2>1. PICK e \in Employment :
             emp = [f \in Employment |->
                      IF f # e THEN NoEmployment
                      ELSE [NoEmployment EXCEPT
                              !.start = today,
                              !.since = IF type = "FULL_TIME" THEN today ELSE None]]
        BY DEF Init
    <2>2. emp[e].start = today /\ emp[e].end = None
        BY <2>1 DEF NoEmployment
    <2>3. today # None
        BY NoneAssumption DEF Init
    <2>4. \A f \in Employment : f # e => emp[f] = NoEmployment
        BY <2>1
    <2> QED
        BY <2>2, <2>3, <2>4 DEF Exists, Ended
<1>2. \A f \in Employment : f # e => ~Exists(f)
    BY <1>1 DEF Exists, NoEmployment
<1>3. Known = {e}
    BY <1>1, <1>2 DEF Known
<1> QED
    BY <1>1, <1>3 DEF EmpInv, Blank, Proper, Apart, Line, IsFirst, IsLast

\* The termination ends the open employment, which is the last one, on or after its start.
LEMMA TerminateEmp ==
    ASSUME TypeInv, EmpInv, LockInv, NEW s \in Session, CommitTerminate(s)
    PROVE  EmpInv'
<1>0. PICK e, d : e = tx[s].emp /\ d = tx[s].last
    OBVIOUS
<1>1. e \in Known /\ ~Ended(e) /\ emp[e].start <= d
    <2>1. s \in Locking
        BY DEF CommitTerminate, Locking
    <2> QED
        BY <1>0, <2>1 DEF CommitTerminate, LockInv, Stands
<1>2. d \in Day /\ d # None
    BY <1>0, NoneAssumption DEF TypeInv, CommitTerminate, ReqFine
<1>3. e \in Employment /\ Exists(e)
    BY <1>1 DEF Known
<1>4. \A f \in Known : /\ f \in Employment /\ emp[f].start \in Int
                       /\ Ended(f) => emp[f].end \in Int /\ emp[f].start <= emp[f].end
    BY RowTypes DEF Known, EmpInv, Proper, TypeInv
<1>5. /\ \A f \in Employment : emp'[f].start = emp[f].start
      /\ \A f \in Employment : f # e => emp'[f] = emp[f]
      /\ emp'[e].end = d
    <2>1. emp' = [emp EXCEPT ![e].end = d, ![e].frozen = tx[s].frozen]
        BY <1>0 DEF CommitTerminate
    <2> QED
        BY <1>3, <2>1, RowKept DEF TypeInv, TypeOK
<1>6. /\ \A f \in Employment : Exists(f)' <=> Exists(f)
      /\ \A f \in Employment : f # e => (Ended(f)' <=> Ended(f)) /\ emp'[f].end = emp[f].end
      /\ Ended(e)' /\ emp'[e].end = d
    BY <1>2, <1>5 DEF Exists, Ended
<1>7. Known' = Known
    BY <1>6 DEF Known
<1>8. \A f \in Known : f # e => Before(f, e)
    BY <1>1 DEF EmpInv, Apart, Before
<1>9. \A f, g \in Known : f # e => (Before(f, g)' <=> Before(f, g))
    BY <1>4, <1>5, <1>6 DEF Before
<1>10. Blank'
    BY <1>3, <1>5, <1>6 DEF EmpInv, Blank
<1>11. Proper'
    BY <1>1, <1>4, <1>5, <1>6, <1>7 DEF EmpInv, Proper
<1>12. Apart'
    BY <1>7, <1>8, <1>9 DEF EmpInv, Apart
<1>13. IsLast(e)'
    BY <1>1, <1>7, <1>8, <1>9 DEF IsLast
<1>14. \E f \in Employment : IsFirst(f)'
    <2>1. PICK f \in Employment : IsFirst(f)
        BY DEF EmpInv, Line
    <2>2. f # e \/ \A g \in Known : g = e
        BY <1>1, <2>1 DEF IsFirst, Before
    <2> QED
        BY <1>7, <1>9, <2>1, <2>2 DEF IsFirst
<1> QED
    BY <1>3, <1>10, <1>11, <1>12, <1>13, <1>14 DEF EmpInv, Line

\* A rehire adds one at the end.
LEMMA RehireEmp ==
    ASSUME TypeInv, EmpInv, NEW s \in Session, NEW e \in Employment, Rehire(s, e)
    PROVE  EmpInv' /\ IsLast(e)'
<1> DEFINE d == tx[s].first
           m == Latest(Known)
<1>1. d \in Day /\ d # None /\ d \in Int
    BY NoneAssumption, CalendarAssumption DEF TypeInv, Rehire, ReqFine
<1>2. IsLast(m) /\ m \in Known /\ Ended(m) /\ emp[m].end < d
    <2>1. IsLast(m) /\ m \in Known
        BY LatestExists DEF TypeInv
    <2>2. Ended(m) /\ emp[m].end \in Int
        BY <2>1, RowTypes DEF Rehire, Known, TypeInv
    <2> QED
        BY <1>1, <2>1, <2>2 DEF Rehire
<1>3. \A f \in Known : /\ f \in Employment /\ emp[f].start \in Int
                       /\ Ended(f) => emp[f].end \in Int /\ emp[f].start <= emp[f].end
    BY RowTypes DEF Known, EmpInv, Proper, TypeInv
<1> HIDE DEF d, m
<1>4. ~Exists(e) /\ e \notin Known
    BY DEF Rehire, Known
<1>5. emp'[e].start = d /\ emp'[e].end = None /\ \A f \in Employment : f # e => emp'[f] = emp[f]
    <2>1. emp' = [emp EXCEPT ![e] = [NoEmployment EXCEPT !.start = d,
                                                         !.since = FullTimeSince(tx[s])]]
        BY DEF Rehire, d
    <2> QED
        BY <2>1 DEF TypeInv, TypeOK, NoEmployment
<1>6. /\ Exists(e)' /\ ~Ended(e)'
      /\ \A f \in Employment : f # e => (Exists(f)' <=> Exists(f)) /\ (Ended(f)' <=> Ended(f))
    BY <1>1, <1>5 DEF Exists, Ended
<1>7. Known' = Known \cup {e}
    BY <1>6 DEF Known
<1>8. \A f, g \in Known : Before(f, g)' <=> Before(f, g)
    BY <1>3, <1>4, <1>5, <1>6 DEF Before
<1>9. \A f \in Known : Before(f, e)'
    <2>1. ASSUME NEW f \in Known PROVE Ended(f) /\ emp[f].end < d
        BY <1>1, <1>2, <1>3 DEF IsLast, Before
    <2> QED
        BY <1>3, <1>4, <1>5, <1>6, <2>1 DEF Before
<1>10. Blank'
    BY <1>5, <1>6 DEF EmpInv, Blank
<1>11. Proper'
    BY <1>3, <1>4, <1>5, <1>6, <1>7 DEF EmpInv, Proper
<1>12. Apart'
    BY <1>7, <1>8, <1>9 DEF EmpInv, Apart
<1>13. IsLast(e)'
    BY <1>7, <1>9 DEF IsLast
<1>14. \E f \in Employment : IsFirst(f)'
    <2>1. PICK f \in Employment : IsFirst(f)
        BY DEF EmpInv, Line
    <2> QED
        BY <1>7, <1>8, <1>9, <2>1 DEF IsFirst
<1> QED
    BY <1>10, <1>11, <1>12, <1>13, <1>14 DEF EmpInv, Line

\* A correction of the join date moves the start of the first one, up to its end.
LEMMA UpdateEmp ==
    ASSUME TypeInv, EmpInv, LockInv, NEW s \in Session, Update(s)
    PROVE  EmpInv' /\ \A e : IsLast(e) => IsLast(e)'
<1>0. PICK d, i, u : d = tx[s].first /\ i = Earliest /\ u = tx[s].emp
    OBVIOUS
<1>1. d \in Day /\ d # None /\ d \in Int /\ u \in Known
    BY <1>0, NoneAssumption, CalendarAssumption DEF TypeInv, Update, ReqFine, LockInv
<1>2. IsFirst(i) /\ i \in Known
    BY <1>0, EarliestExists DEF TypeInv
<1>3. \A f \in Known : /\ f \in Employment /\ Exists(f) /\ emp[f].start \in Int
                       /\ Ended(f) => emp[f].end \in Int /\ emp[f].start <= emp[f].end
    BY RowTypes DEF Known, EmpInv, Proper, TypeInv
<1>4. Ended(i) => d <= emp[i].end
    BY <1>0 DEF Update
<1>5. emp' = [emp EXCEPT ![i].start = d, ![u].since = FullTimeSince(tx[s])]
    BY <1>0 DEF Update
<1>6. /\ emp'[i].start = d
      /\ \A f \in Employment : emp'[f].end = emp[f].end
      /\ \A f \in Employment : f # i => emp'[f].start = emp[f].start
      /\ \A f \in Employment : f # i /\ f # u => emp'[f] = emp[f]
    BY <1>1, <1>2, <1>3, <1>5, RowKept DEF TypeInv, TypeOK
<1>7. \A f \in Employment : (Exists(f)' <=> Exists(f)) /\ (Ended(f)' <=> Ended(f))
    BY <1>1, <1>2, <1>3, <1>6 DEF Exists, Ended
<1>8. Known' = Known
    BY <1>7 DEF Known
<1>9. \A f, g \in Known : g # i => (Before(f, g)' <=> Before(f, g))
    BY <1>3, <1>6, <1>7 DEF Before
<1>10. \A f \in Known : f # i => Before(i, f) /\ ~Before(f, i)
    BY <1>2, <1>3 DEF IsFirst, Before
<1>11. Blank'
    BY <1>1, <1>2, <1>3, <1>6, <1>7 DEF EmpInv, Blank
<1>12. Proper'
    BY <1>3, <1>4, <1>6, <1>7, <1>8 DEF EmpInv, Proper
<1>13. Apart'
    BY <1>8, <1>9, <1>10 DEF EmpInv, Apart
<1>14. IsFirst(i)'
    BY <1>2, <1>8, <1>9, <1>10 DEF IsFirst
<1>15. ASSUME NEW e, IsLast(e) PROVE IsLast(e)'
    <2>1. e # i \/ \A g \in Known : g = i
        BY <1>10, <1>15 DEF IsLast
    <2> QED
        BY <1>8, <1>9, <1>15, <2>1 DEF IsLast
<1>16. \E e \in Employment : IsLast(e)'
    BY <1>15 DEF EmpInv, Line
<1> QED
    BY <1>2, <1>3, <1>11, <1>12, <1>13, <1>14, <1>15, <1>16 DEF EmpInv, Line

\* The other steps change neither the employments nor the type.
LEMMA OthersType ==
    ASSUME [Next]_vars
    PROVE  \/ UNCHANGED <<emp, type, stale>>
           \/ \E s \in Session : CommitTerminate(s) \/ Update(s)
           \/ \E s \in Session, e \in Employment : Rehire(s, e)
<1>1. ASSUME NEW s \in Session, Accrual(s) \/ LeaveStep(s) \/ Rollback(s)
      PROVE  UNCHANGED <<emp, type, stale>>
    BY <1>1 DEF Accrual, LeaveStep, Rollback, StartBalance, ReadEmployments, ReadRows, Mint,
                StartSubmit, StartCancel, PlanSubmit, CommitSubmit, PlanCancel, CommitCancel
<1>2. ASSUME NEW s \in Session, Employing(s)
      PROVE  \/ UNCHANGED <<emp, type, stale>>
             \/ CommitTerminate(s) \/ Update(s)
             \/ \E e \in Employment : Rehire(s, e)
    BY <1>2 DEF Employing, StartTerminate, PlanTerminate, StartRehire, StartUpdate
<1>3. CASE Tick \/ UNCHANGED vars
    BY <1>3 DEF Tick, vars
<1> QED
    BY <1>1, <1>2, <1>3 DEF Next

\* Every step keeps the employments in a line.
LEMMA NextEmp ==
    ASSUME Inv, [Next]_vars
    PROVE  EmpInv'
BY EmpStands, OthersType, TerminateEmp, RehireEmp, UpdateEmp DEF Inv

-----------------------------------------------------------------------------
(* The lock on the Employee row *)

Locks(x) == x.pc = "commit" /\ x.op \in {"submit", "terminate"}

\* Who holds the Employee row can be read off the request alone.
LEMMA LockingIs == \A s \in Session : s \in Locking <=> Locks(tx[s])
BY DEF Locking, Locks

\* A step of a request that neither holds the lock nor takes it, and changes nothing
\* its holder relies on.
LEMMA LockStands ==
    ASSUME LockInv, NEW s \in Session, ~Locks(tx'[s]),
           \A t \in Session : t # s => tx'[t] = tx[t],
           tx'[s].op = "update" => tx'[s].emp \in Known,
           emp' = emp, spent' \subseteq spent,
           \A l \in Leave : leave'[l].status = "taken" =>
              /\ leave[l].status = "taken"
              /\ leave'[l].first = leave[l].first /\ leave'[l].last = leave[l].last
    PROVE  LockInv'
<1>1. Locking' \subseteq Locking /\ s \notin Locking'
    BY DEF Locking, Locks
<1>2. Known' = Known /\ \A e \in Employment : Ended(e)' <=> Ended(e)
    BY DEF Known, Exists, Ended
<1>3. \A t \in Locking' : tx'[t] = tx[t] /\ t \in Session
    BY <1>1 DEF Locking
<1>4. ASSUME NEW t \in Locking' PROVE Stands(t)'
    <2>1. tx'[t] = tx[t] /\ Stands(t)
        BY <1>1, <1>3 DEF LockInv
    <2>2. (tx[t].op = "submit" => ~DoubleBooked(tx[t].first, tx[t].last))'
        BY <2>1 DEF Stands, DoubleBooked, Overlaps
    <2>3. tx[t].op = "terminate" => tx[t].emp \in Employment
        BY <2>1 DEF Stands, Known
    <2> QED
        BY <1>2, <2>1, <2>2, <2>3 DEF Stands
<1>5. \A t \in Session : tx'[t].op = "update" => tx'[t].emp \in Known'
    BY <1>2 DEF LockInv
<1>6. (\A t, u \in Locking : t = u)'
    BY <1>1 DEF LockInv
<1> QED
    BY <1>4, <1>5, <1>6 DEF LockInv

\* A step that leaves the row unlocked.
LEMMA Unlocked ==
    ASSUME LockInv, NEW s \in Session, Locking \subseteq {s}, ~Locks(tx'[s]),
           \A t \in Session : t # s => tx'[t] = tx[t],
           tx'[s].op # "update", Known \subseteq Known'
    PROVE  LockInv'
<1>1. Locking' = {}
    BY DEF Locking, Locks
<1>2. \A t \in Session : tx'[t].op = "update" => tx'[t].emp \in Known'
    BY DEF LockInv
<1> QED
    BY <1>1, <1>2 DEF LockInv

\* The request that takes the lock is its only holder.
LEMMA Locked ==
    ASSUME NEW s \in Session, Locking \subseteq {s}, \A t \in Session : t # s => tx'[t] = tx[t]
    PROVE  Locking' \subseteq {s}
BY DEF Locking

\* At first nobody holds the row, and there is no leave.
LEMMA InitLock == Init => LockInv /\ NoDoubleBooking
<1> SUFFICES ASSUME Init PROVE LockInv /\ NoDoubleBooking
    OBVIOUS
<1>1. \A s \in Session : tx[s] = Idle
    BY DEF Init
<1>2. Locking = {}
    BY <1>1 DEF Locking, Idle
<1>3. \A l \in Leave : leave[l].status = "none"
    BY DEF Init, NoLeave
<1> QED
    BY <1>1, <1>2, <1>3 DEF LockInv, Idle, NoDoubleBooking, Taken

\* A request that ended holds no row.
LEMMA IdleUnlocked == ~Locks(Idle) /\ Idle.op # "update"
BY DEF Locks, Idle

\* The catch-up holds no lock and removes no row.
LEMMA AccrualLock ==
    ASSUME Inv, NEW s \in Session, Accrual(s)
    PROVE  LockInv'
<1>0. TypeInv /\ LockInv /\ ReqFine(tx[s]) /\ tx[s] \in Request
    BY DEF Inv, TypeInv, ReqFine
<1>1. /\ UNCHANGED <<emp, spent, leave>>
      /\ \/ tx' = [tx EXCEPT ![s] = [Idle EXCEPT !.op = "balance", !.pc = "accrue"]]
         \/ \E M, R : Proceed(s, [tx[s] EXCEPT !.mint = M, !.rows = R])
    <2>1. \A M : [tx[s] EXCEPT !.mint = M] = [tx[s] EXCEPT !.mint = M, !.rows = tx[s].rows]
        BY <1>0 DEF Request
    <2>2. \A R : [tx[s] EXCEPT !.rows = R] = [tx[s] EXCEPT !.mint = tx[s].mint, !.rows = R]
        BY <1>0 DEF Request
    <2>3. CASE StartBalance(s)
        BY <2>3 DEF StartBalance
    <2>4. CASE ReadEmployments(s)
        BY <2>1, <2>4 DEF ReadEmployments
    <2>5. CASE Mint(s)
        BY <2>2, <2>5 DEF Mint
    <2>6. ASSUME NEW e \in Employment, ReadRows(s, e)
          PROVE  /\ UNCHANGED <<emp, spent, leave>>
                 /\ \E M, R : Proceed(s, [tx[s] EXCEPT !.mint = M, !.rows = R])
        BY <2>6 DEF ReadRows
    <2> QED
        BY <2>3, <2>4, <2>5, <2>6 DEF Accrual
<1>2. /\ \A t \in Session : t # s => tx'[t] = tx[t]
      /\ ~Locks(tx'[s]) /\ (tx'[s].op = "update" => tx'[s].emp \in Known)
    <2>1. CASE tx' = [tx EXCEPT ![s] = [Idle EXCEPT !.op = "balance", !.pc = "accrue"]]
        BY <1>0, <2>1 DEF TypeInv, TypeOK, Locks, Idle
    <2>2. ASSUME NEW M, NEW R, Proceed(s, [tx[s] EXCEPT !.mint = M, !.rows = R])
          PROVE  /\ \A t \in Session : t # s => tx'[t] = tx[t]
                 /\ ~Locks(tx'[s]) /\ (tx'[s].op = "update" => tx'[s].emp \in Known)
        <3> DEFINE x == [tx[s] EXCEPT !.mint = M, !.rows = R]
        <3>1. x.op = tx[s].op /\ x.emp = tx[s].emp
            BY <1>0 DEF Request
        <3>2. tx \in [Session -> Request]
            BY <1>0 DEF TypeInv, TypeOK
        <3>3. (\A t \in Session : t # s => tx'[t] = tx[t]) /\ Goes(tx'[s], x)
            BY <2>2, <3>2 DEF Proceed, Goes
        <3>4. \A p \in {"mint", "rows", "lock"} :
                 /\ [x EXCEPT !.pc = p].pc = p
                 /\ [x EXCEPT !.pc = p].op = x.op /\ [x EXCEPT !.pc = p].emp = x.emp
            BY <1>0 DEF Request
        <3>5. ~Locks(tx'[s]) /\ (tx'[s].op = "update" => x.op = "update" /\ tx'[s].emp = x.emp)
            BY <3>3, <3>4, IdleUnlocked DEF Goes, Locks
        <3> QED
            BY <1>0, <3>1, <3>3, <3>5 DEF LockInv
    <2> QED
        BY <1>1, <2>1, <2>2
<1> QED
    BY <1>0, <1>1, <1>2, LockStands

\* What a submission or a cancellation does leaves the findings of the lock's holder true.
LEMMA LeaveLock ==
    ASSUME Inv, NEW s \in Session, LeaveStep(s)
    PROVE  LockInv'
<1>0. TypeInv /\ EmpInv /\ LockInv /\ ReqFine(tx[s]) /\ tx[s] \in Request
      /\ tx \in [Session -> Request]
    BY DEF Inv, TypeInv, TypeOK, ReqFine
<1>1. ASSUME NEW l \in Leave, NEW ask \in Ask, StartSubmit(s, l, ask) PROVE LockInv'
    <2>1. /\ tx'[s].op = "submit" /\ tx'[s].pc # "commit"
          /\ \A t \in Session : t # s => tx'[t] = tx[t]
        BY <1>0, <1>1 DEF StartSubmit, Idle
    <2> QED
        BY <1>0, <1>1, <2>1, LockStands DEF StartSubmit, Locks
<1>2. ASSUME NEW l \in Leave, NEW hr \in BOOLEAN, StartCancel(s, l, hr) PROVE LockInv'
    <2>1. /\ tx'[s].op = "cancel"
          /\ \A t \in Session : t # s => tx'[t] = tx[t]
        BY <1>0, <1>2 DEF StartCancel, Idle
    <2> QED
        BY <1>0, <1>2, <2>1, LockStands DEF StartCancel, Locks
<1>3. CASE PlanSubmit(s)
    <2>1. PICK R : tx' = [tx EXCEPT ![s] = [tx[s] EXCEPT !.pc = "commit", !.rows = R]]
        BY <1>3 DEF PlanSubmit
    <2>2. /\ tx'[s].op = "submit" /\ tx'[s].first = tx[s].first /\ tx'[s].last = tx[s].last
          /\ \A t \in Session : t # s => tx'[t] = tx[t]
        BY <1>0, <1>3, <2>1 DEF PlanSubmit, Request
    <2>3. Locking' \subseteq {s}
        BY <1>3, <2>2, Locked DEF PlanSubmit
    <2>4. ~DoubleBooked(tx[s].first, tx[s].last) /\ UNCHANGED <<emp, leave>>
        BY <1>3 DEF PlanSubmit
    <2>5. (~DoubleBooked(tx[s].first, tx[s].last))'
        BY <2>2, <2>4 DEF DoubleBooked, Overlaps
    <2>6. Stands(s)'
        BY <2>2, <2>5 DEF Stands
    <2>7. (\A t \in Session : tx[t].op = "update" => tx[t].emp \in Known)'
        BY <1>0, <2>2, <2>4 DEF LockInv, Known, Exists
    <2> QED
        BY <2>3, <2>6, <2>7 DEF LockInv
<1>4. CASE CommitSubmit(s)
    <2>1. tx'[s] = Idle /\ \A t \in Session : t # s => tx'[t] = tx[t]
        BY <1>0, <1>4, OneEnds DEF CommitSubmit
    <2>2. Locking \subseteq {s}
        BY <1>0, <1>4 DEF CommitSubmit, Locking, LockInv
    <2>3. Known' = Known
        BY <1>4 DEF CommitSubmit, Known, Exists
    <2> QED
        BY <1>0, <2>1, <2>2, <2>3, Unlocked, IdleUnlocked
<1>5. CASE PlanCancel(s)
    <2>1. PICK R : tx' = [tx EXCEPT ![s] = [tx[s] EXCEPT !.pc = "commit", !.rows = R]]
        BY <1>5 DEF PlanCancel
    <2>2. tx[s].op = "cancel"
        BY <1>0, <1>5 DEF PlanCancel, ReqFine
    <2>3. tx'[s].op = "cancel" /\ \A t \in Session : t # s => tx'[t] = tx[t]
        BY <1>0, <2>1, <2>2 DEF Request
    <2> QED
        BY <1>0, <1>5, <2>3, LockStands DEF PlanCancel, Locks
<1>6. CASE CommitCancel(s)
    <2>1. tx'[s] = Idle /\ \A t \in Session : t # s => tx'[t] = tx[t]
        BY <1>0, <1>6, OneEnds DEF CommitCancel
    <2>2. tx[s].leave \in Leave
        BY <1>0, <1>6 DEF CommitCancel, ReqFine
    <2>3. \A l \in Leave : leave'[l].status = "taken" =>
              /\ leave[l].status = "taken"
              /\ leave'[l].first = leave[l].first /\ leave'[l].last = leave[l].last
        BY <1>0, <1>6, <2>2 DEF CommitCancel, TypeInv, TypeOK
    <2> QED
        BY <1>0, <1>6, <2>1, <2>3, LockStands, IdleUnlocked DEF CommitCancel
<1> QED
    BY <1>1, <1>2, <1>3, <1>4, <1>5, <1>6 DEF LeaveStep

\* What a termination's plan writes into the request.
LEMMA PlannedFields ==
    ASSUME NEW x \in Request, NEW e, NEW R, NEW n
    PROVE  LET z == [x EXCEPT !.pc = "commit", !.emp = e, !.rows = R, !.frozen = n]
           IN  z.op = x.op /\ z.emp = e /\ z.rows = R /\ z.last = x.last
BY DEF Request

\* So does what a termination, a rehire or an edit does.
LEMMA EmployingLock ==
    ASSUME Inv, NEW s \in Session, Employing(s)
    PROVE  LockInv'
<1>0. TypeInv /\ EmpInv /\ LockInv /\ ReqFine(tx[s]) /\ tx[s] \in Request
      /\ tx \in [Session -> Request]
    BY DEF Inv, TypeInv, TypeOK, ReqFine
<1>1. ASSUME NEW end \in Day, StartTerminate(s, end) PROVE LockInv'
    <2>1. /\ tx'[s].op = "terminate" /\ tx'[s].pc # "commit"
          /\ \A t \in Session : t # s => tx'[t] = tx[t]
        BY <1>0, <1>1 DEF StartTerminate, Idle
    <2> QED
        BY <1>0, <1>1, <2>1, LockStands DEF StartTerminate, Locks
<1>2. CASE PlanTerminate(s)
    <2>1. PICK e, R, n :
             /\ e = Latest(Known) /\ R = {r \in granted \ spent : r[1] = e /\ r[2] > Month(tx[s].last)}
             /\ n = Cardinality(Free(e) \ R)
        OBVIOUS
    <2>2. tx' = [tx EXCEPT ![s] = [tx[s] EXCEPT !.pc = "commit", !.emp = e, !.rows = R,
                                                !.frozen = n]]
        BY <1>2, <2>1 DEF PlanTerminate
    <2>3. /\ tx'[s].op = "terminate" /\ tx'[s].emp = e /\ tx'[s].rows = R
          /\ tx'[s].last = tx[s].last
          /\ \A t \in Session : t # s => tx'[t] = tx[t]
        <3>1. tx[s].op = "terminate"
            BY <1>2 DEF PlanTerminate
        <3> QED
            BY <1>0, <2>2, <3>1, PlannedFields
    <2>4. Locking' \subseteq {s}
        BY <1>2, <2>3, Locked DEF PlanTerminate
    <2>5. /\ e \in Known /\ ~Ended(e) /\ emp[e].start <= tx[s].last
          /\ R \cap spent = {} /\ UNCHANGED <<emp, spent>>
        BY <1>0, <1>2, <2>1, LatestExists DEF PlanTerminate, TypeInv
    <2>6. Stands(s)'
        BY <2>3, <2>5 DEF Stands, Known, Exists, Ended
    <2>7. (\A t \in Session : tx[t].op = "update" => tx[t].emp \in Known)'
        BY <1>0, <2>3, <2>5 DEF LockInv, Known, Exists
    <2> QED
        BY <2>4, <2>6, <2>7 DEF LockInv
<1>3. CASE CommitTerminate(s)
    <2>1. tx'[s] = Idle /\ \A t \in Session : t # s => tx'[t] = tx[t]
        BY <1>0, <1>3, OneEnds DEF CommitTerminate
    <2>2. Locking \subseteq {s} /\ s \in Locking
        BY <1>0, <1>3 DEF CommitTerminate, Locking, LockInv
    <2>3. Known \subseteq Known'
        BY <1>0, <1>3, RowKept DEF CommitTerminate, Known, Exists, TypeInv, TypeOK
    <2> QED
        BY <1>0, <2>1, <2>2, <2>3, Unlocked, IdleUnlocked
<1>4. ASSUME NEW start \in Day, NEW since \in Anchor \cup {None}, StartRehire(s, start, since)
      PROVE  LockInv'
    <2>1. tx'[s].op = "rehire" /\ \A t \in Session : t # s => tx'[t] = tx[t]
        BY <1>0, <1>4 DEF StartRehire, Idle
    <2> QED
        BY <1>0, <1>4, <2>1, LockStands DEF StartRehire, Locks
<1>5. ASSUME NEW e \in Employment, Rehire(s, e) PROVE LockInv'
    <2>1. tx'[s] = Idle /\ \A t \in Session : t # s => tx'[t] = tx[t]
        BY <1>0, <1>5, OneEnds DEF Rehire
    <2>2. Known \subseteq Known'
        BY <1>0, <1>5 DEF Rehire, Known, Exists, TypeInv, TypeOK
    <2>3. Locking \subseteq {s}
        BY <1>5 DEF Rehire
    <2> QED
        BY <1>0, <2>1, <2>2, <2>3, Unlocked, IdleUnlocked
<1>6. ASSUME NEW new \in EmploymentType, NEW join \in JoinDate, NEW since \in Anchor \cup {None},
             StartUpdate(s, new, join, since)
      PROVE  LockInv'
    <2>1. tx'[s].op = "update" /\ tx'[s].emp = Latest(Known)
          /\ \A t \in Session : t # s => tx'[t] = tx[t]
        BY <1>0, <1>6 DEF StartUpdate, Idle
    <2>2. Latest(Known) \in Known
        BY <1>0, LatestExists DEF TypeInv
    <2> QED
        BY <1>0, <1>6, <2>1, <2>2, LockStands DEF StartUpdate, Locks
<1>7. CASE Update(s)
    <2>1. tx'[s] = Idle /\ \A t \in Session : t # s => tx'[t] = tx[t]
        BY <1>0, <1>7, OneEnds DEF Update
    <2>2. Known \subseteq Known'
        <3>1. tx[s].first # None
            BY <1>0, <1>7, NoneAssumption DEF Update, ReqFine
        <3> QED
            BY <1>0, <1>7, <3>1, RowKept DEF Update, Known, Exists, TypeInv, TypeOK
    <2>3. Locking \subseteq {s}
        BY <1>7 DEF Update
    <2> QED
        BY <1>0, <2>1, <2>2, <2>3, Unlocked, IdleUnlocked
<1> QED
    BY <1>1, <1>2, <1>3, <1>4, <1>5, <1>6, <1>7 DEF Employing

\* LockInv is inductive.
LEMMA NextLock ==
    ASSUME Inv, [Next]_vars
    PROVE  LockInv'
<1>0. TypeInv /\ LockInv
    BY DEF Inv
<1>1. ASSUME NEW s \in Session, Rollback(s) PROVE LockInv'
    <2>1. tx'[s] = Idle /\ \A t \in Session : t # s => tx'[t] = tx[t]
        BY <1>0, <1>1, OneEnds DEF Rollback
    <2> QED
        BY <1>0, <1>1, <2>1, LockStands, IdleUnlocked DEF Rollback
<1>2. CASE UNCHANGED <<emp, spent, leave, tx>>
    <2>1. UNCHANGED <<Known, Locking>> /\ \A s : Stands(s)' <=> Stands(s)
        BY <1>2 DEF Known, Exists, Locking, Stands, DoubleBooked, Overlaps, Ended
    <2> QED
        BY <1>0, <1>2, <2>1 DEF LockInv
<1> QED
    BY <1>1, <1>2, AccrualLock, LeaveLock, EmployingLock DEF Next, Tick, vars

-----------------------------------------------------------------------------
(* No day is booked twice *)

\* Only a submission stores leave, and only a cancellation removes it.
LEMMA OthersLeave ==
    ASSUME [Next]_vars
    PROVE  leave' = leave \/ \E s \in Session : CommitSubmit(s) \/ CommitCancel(s)
BY ZenonT(60)
   DEF Next, vars, Accrual, LeaveStep, Employing, Rollback, Tick, StartBalance, ReadEmployments,
       ReadRows, Mint, StartSubmit, StartCancel, PlanSubmit, PlanCancel, StartTerminate,
       PlanTerminate, CommitTerminate, StartRehire, Rehire, StartUpdate, Update

\* What was free under the lock is free when the submission commits.
LEMMA NextBooking ==
    ASSUME Inv, [Next]_vars
    PROVE  NoDoubleBooking'
<1>0. TypeInv /\ LockInv /\ NoDoubleBooking /\ TypeOK
    BY DEF Inv, TypeInv
<1>1. CASE leave' = leave
    BY <1>0, <1>1 DEF NoDoubleBooking, Taken, Overlaps
<1>2. ASSUME NEW s \in Session, CommitSubmit(s) PROVE NoDoubleBooking'
    <2>1. PICK k, a, b : k = tx[s].leave /\ a = tx[s].first /\ b = tx[s].last
        OBVIOUS
    <2>2. k \in Leave /\ s \in Locking
        BY <1>0, <1>2, <2>1 DEF CommitSubmit, TypeInv, ReqFine, Locking
    <2>3. ~DoubleBooked(a, b)
        BY <1>0, <1>2, <2>1, <2>2 DEF CommitSubmit, LockInv, Stands
    <2>4. /\ leave'[k].status = "taken" /\ leave'[k].first = a /\ leave'[k].last = b
          /\ \A l \in Leave : l # k => leave'[l] = leave[l]
        BY <1>0, <1>2, <2>1, <2>2 DEF CommitSubmit, TypeOK
    <2>5. Taken' \subseteq Taken \cup {k}
        BY <2>4 DEF Taken
    <2>6. ASSUME NEW l \in Taken, l # k
          PROVE  /\ ~(leave[l].first <= b /\ a <= leave[l].last)
                 /\ leave'[l] = leave[l]
        BY <2>3, <2>4, <2>6 DEF DoubleBooked, Overlaps, Taken
    <2> QED
        BY <1>0, <2>4, <2>5, <2>6 DEF NoDoubleBooking, Overlaps
<1>3. ASSUME NEW s \in Session, CommitCancel(s) PROVE NoDoubleBooking'
    <2>1. tx[s].leave \in Leave
        BY <1>0, <1>3 DEF CommitCancel, TypeInv, ReqFine
    <2>2. Taken' \subseteq Taken /\ \A l \in Taken' : leave'[l] = leave[l]
        BY <1>0, <1>3, <2>1 DEF CommitCancel, Taken, TypeOK
    <2> QED
        BY <1>0, <2>2 DEF NoDoubleBooking, Overlaps
<1> QED
    BY <1>1, <1>2, <1>3, OthersLeave

-----------------------------------------------------------------------------
(* The theorems *)

\* The inductive invariant: types, the line of employments, the lock, and no double booking.
THEOREM LedgerCorrect == Spec => []Inv
<1>1. Init => Inv
    <2> SUFFICES ASSUME Init PROVE Inv
        OBVIOUS
    <2> QED
        BY InitTypes, InitEmp, InitLock DEF Inv
<1>2. Inv /\ [Next]_vars => Inv'
    BY NextTypes, NextEmp, NextLock, NextBooking DEF Inv
<1> QED
    BY <1>1, <1>2, PTL DEF Spec

\* Type correctness of employments, accrual rows, leaves and requests in progress.
THEOREM TypesHold == Spec => []TypeOK
<1>1. Inv => TypeOK
    BY DEF Inv, TypeInv
<1> QED
    BY <1>1, LedgerCorrect, PTL

\* However many submissions and cancellations run at once, one employee never has two
\* leaves on the same day (the overlap check of submitLeave, made under the row lock).
THEOREM NeverDoubleBooked == Spec => []NoDoubleBooking
<1>1. Inv => NoDoubleBooking
    BY DEF Inv
<1> QED
    BY <1>1, LedgerCorrect, PTL

\* At most one employment is open and no day belongs to two of them, for any number of
\* terminations, rehires and corrections at once (terminateEmployee, rehireEmployee and
\* updateEmployee, which check under the row lock).
THEOREM EmploymentsStayApart == Spec => []EmploymentsApart
<1>1. Inv => EmploymentsApart
    <2> SUFFICES ASSUME Inv PROVE EmploymentsApart
        OBVIOUS
    <2>1. \A e \in Employment : /\ Exists(e) => emp[e].start \in Int
                                /\ Ended(e) => emp[e].end \in Int
        BY RowTypes DEF Inv, TypeInv
    <2>2. \A e, f \in Known : e # f => Before(e, f) \/ Before(f, e)
        BY DEF Inv, EmpInv, Apart
    <2>3. \A e, f \in Known : e # f => Ended(e) \/ Ended(f)
        BY <2>2 DEF Before
    <2>4. ASSUME NEW e \in Known, NEW f \in Known, NEW d \in Day, Covers(e, d), Covers(f, d)
          PROVE  e = f
        <3>1. d \in Int
            BY CalendarAssumption
        <3>2. ~Before(e, f) /\ ~Before(f, e)
            BY <2>1, <2>4, <3>1 DEF Before, Covers, Known
        <3> QED
            BY <2>2, <3>2
    <2> QED
        BY <2>3, <2>4 DEF EmploymentsApart
<1> QED
    BY <1>1, LedgerCorrect, PTL

\* The date and the frozen balance of a recorded termination are never overwritten
\* (terminateEmployee's guard, read under the row lock).
THEOREM TerminationStands == Spec => TerminationFinal
<1>1. Inv /\ [Next]_vars =>
        [\A e \in Employment : Ended(e) =>
            emp'[e].end = emp[e].end /\ emp'[e].frozen = emp[e].frozen]_vars
    <2> SUFFICES ASSUME Inv, [Next]_vars, NEW e \in Employment, Ended(e)
                 PROVE  emp'[e].end = emp[e].end /\ emp'[e].frozen = emp[e].frozen
        OBVIOUS
    <2>0. TypeOK /\ EmpInv /\ LockInv
        BY DEF Inv, TypeInv
    <2>1. CASE emp' = emp
        BY <2>1
    <2>2. ASSUME NEW s \in Session, CommitTerminate(s)
          PROVE  emp'[e] = emp[e]
        <3>1. e # tx[s].emp
            BY <2>0, <2>2 DEF CommitTerminate, Locking, LockInv, Stands
        <3> QED
            BY <2>0, <2>2, <3>1 DEF CommitTerminate, TypeOK
    <2>3. ASSUME NEW s \in Session, NEW f \in Employment, Rehire(s, f)
          PROVE  emp'[e] = emp[e]
        <3>1. e # f
            BY <2>0, <2>3 DEF Rehire, EmpInv, Blank, Ended, NoEmployment
        <3> QED
            BY <2>0, <2>3, <3>1 DEF Rehire, TypeOK
    <2>4. ASSUME NEW s \in Session, Update(s)
          PROVE  emp'[e].end = emp[e].end /\ emp'[e].frozen = emp[e].frozen
        <3>1. PICK i, u, a, b : emp' = [emp EXCEPT ![i].start = a, ![u].since = b]
            BY <2>4 DEF Update
        <3> QED
            BY <2>0, <3>1, RowKept DEF TypeOK
    <2> QED
        BY <2>1, <2>2, <2>3, <2>4, OthersType
<1> QED
    BY <1>1, LedgerCorrect, PTL DEF Spec, TerminationFinal

-----------------------------------------------------------------------------
(* Who accrues leave *)

\* The last employment accrues by the type of the employee, unless it is stale.
Accrues(e) == e \in stale \/ (emp[e].since # None <=> type = "FULL_TIME")
LastAccrues == \E e \in Employment : IsLast(e) /\ Accrues(e)

\* A new full-timer accrues from the start, a new part-timer does not.
LEMMA InitAccrues ==
    ASSUME Init
    PROVE  LastAccrues
<1>1. PICK e \in Employment :
         emp = [f \in Employment |->
                  IF f # e THEN NoEmployment
                  ELSE [NoEmployment EXCEPT
                          !.start = today,
                          !.since = IF type = "FULL_TIME" THEN today ELSE None]]
    BY DEF Init
<1>2. today # None
    BY NoneAssumption DEF Init
<1>3. /\ emp[e].start = today
      /\ emp[e].since = IF type = "FULL_TIME" THEN today ELSE None
    BY <1>1 DEF NoEmployment
<1>4. \A f \in Employment : f # e => emp[f].start = None
    BY <1>1 DEF NoEmployment
<1>5. Known = {e}
    BY <1>2, <1>3, <1>4 DEF Known, Exists
<1>6. IsLast(e)
    BY <1>5 DEF IsLast
<1>7. Accrues(e)
    BY <1>2, <1>3 DEF Accrues
<1> QED
    BY <1>6, <1>7 DEF LastAccrues

\* resolveFullTimeSince gives an anchor to whom it takes for full-time, and to nobody else.
LEMMA AnchorByType ==
    ASSUME TypeOK, NEW x, ReqFine(x), x.op \in {"rehire", "update"}
    PROVE  FullTimeSince(x) # None <=> x.type = "FULL_TIME"
<1>1. today # None /\ x.anchor # None
    BY NoneAssumption DEF TypeOK, ReqFine
<1> QED
    BY <1>1 DEF FullTimeSince

\* Neither the last employment nor what it accrues by changes.
LEMMA AccruesStands ==
    ASSUME LastAccrues, UNCHANGED <<emp, type, stale>>
    PROVE  LastAccrues'
BY DEF LastAccrues, Accrues, IsLast, Before, Known, Exists, Ended

\* A termination ends the last employment, which stays the last.
LEMMA TerminateAccrues ==
    ASSUME TypeInv, EmpInv, LockInv, LastAccrues, NEW s \in Session, CommitTerminate(s)
    PROVE  LastAccrues'
<1>1. PICK e \in Employment : IsLast(e) /\ Accrues(e)
    BY DEF LastAccrues
<1>2. tx[s].emp \in Known /\ ~Ended(tx[s].emp)
    BY DEF CommitTerminate, Locking, LockInv, Stands
<1>3. tx[s].emp = e
    BY <1>1, <1>2 DEF IsLast, Before
<1>4. emp' = [emp EXCEPT ![e].end = tx[s].last, ![e].frozen = tx[s].frozen]
    BY <1>3 DEF CommitTerminate
<1>5. /\ \A f \in Employment : emp'[f].start = emp[f].start
      /\ \A f \in Employment : f # e => emp'[f] = emp[f]
      /\ emp'[e].since = emp[e].since
    BY <1>4, RowKept DEF TypeInv, TypeOK
<1>6. Known' = Known /\ \A f \in Known : f \in Employment
    BY <1>5 DEF Known, Exists
<1>7. IsLast(e)'
    BY <1>1, <1>5, <1>6 DEF IsLast, Before, Ended
<1>8. Accrues(e)'
    BY <1>1, <1>5 DEF Accrues, CommitTerminate
<1> QED
    BY <1>7, <1>8 DEF LastAccrues

\* A rehire's employment is the last; its anchor follows the type that was read.
LEMMA RehireAccrues ==
    ASSUME TypeInv, EmpInv, NEW s \in Session, NEW e \in Employment, Rehire(s, e)
    PROVE  LastAccrues'
<1>1. IsLast(e)'
    BY RehireEmp
<1>2. emp'[e].since = FullTimeSince(tx[s]) /\ type' = type
    BY DEF Rehire, TypeInv, TypeOK, NoEmployment
<1>3. FullTimeSince(tx[s]) # None <=> tx[s].type = "FULL_TIME"
    BY AnchorByType DEF TypeInv, Rehire
<1>4. e \in stale' \/ tx[s].type = type
    BY DEF Rehire
<1>5. Accrues(e)'
    BY <1>2, <1>3, <1>4 DEF Accrues
<1> QED
    BY <1>1, <1>5 DEF LastAccrues

\* An edit decides the type, and the anchor of the employment it had read.
LEMMA UpdateAccrues ==
    ASSUME TypeInv, EmpInv, LockInv, LastAccrues, NEW s \in Session, Update(s)
    PROVE  LastAccrues'
<1>1. PICK e \in Employment : IsLast(e) /\ Accrues(e)
    BY DEF LastAccrues
<1>2. Latest(Known) = e
    BY <1>1, LatestIsLast DEF TypeInv
<1>3. IsLast(e)'
    BY <1>1, UpdateEmp
<1>4. PICK i, u : i = Earliest /\ u = tx[s].emp
    OBVIOUS
<1>5. /\ emp' = [emp EXCEPT ![i].start = tx[s].first, ![u].since = FullTimeSince(tx[s])]
      /\ stale' = IF u = e \/ tx[s].type = type THEN stale ELSE stale \cup {e}
      /\ type' = tx[s].type
    BY <1>2, <1>4 DEF Update
<1>6. emp'[e].since = IF u = e THEN FullTimeSince(tx[s]) ELSE emp[e].since
    BY <1>5, RowKept DEF TypeInv, TypeOK
<1>7. FullTimeSince(tx[s]) # None <=> tx[s].type = "FULL_TIME"
    BY AnchorByType DEF TypeInv, Update
<1>8. Accrues(e)'
    BY <1>1, <1>5, <1>6, <1>7 DEF Accrues
<1> QED
    BY <1>3, <1>8 DEF LastAccrues

\* The employment that counts accrues leave exactly while the employee is full-time,
\* unless its anchor was decided by a request that had read something older.
THEOREM AccrualFollowsType == Spec => []AccruesByType
<1>1. Init => LastAccrues
    BY InitAccrues
<1>2. Inv /\ LastAccrues /\ [Next]_vars => LastAccrues'
    BY OthersType, AccruesStands, TerminateAccrues, RehireAccrues, UpdateAccrues DEF Inv
<1>3. Inv /\ LastAccrues => AccruesByType
    BY LatestIsLast DEF Inv, TypeInv, LastAccrues, Accrues, AccruesByType
<1> QED
    BY <1>1, <1>2, <1>3, LedgerCorrect, PTL DEF Spec

-----------------------------------------------------------------------------
(* FIFO order *)

\* Accrual rows of one employment: their months tell them apart.
Ordered(S) ==
    /\ IsFiniteSet(S)
    /\ \A r \in S : r[2] \in Int
    /\ \A q, r \in S : q[2] = r[2] => q = r

\* A part of an ordered set is ordered.
LEMMA OrderedPart == ASSUME NEW S, Ordered(S), NEW T \in SUBSET S PROVE Ordered(T)
BY FS_Subset DEF Ordered

\* One of finitely many rows is the newest.
LEMMA NewestExists ==
    ASSUME NEW S, Ordered(S), S # {}
    PROVE  \E m \in S : \A q \in S : q # m => q[2] < m[2]
<1>0. PICK B : B = {T \in SUBSET S : T # {} /\ ~\E m \in T : \A q \in T : q # m => q[2] < m[2]}
    OBVIOUS
<1>1. SUFFICES ASSUME B # {} PROVE FALSE
    BY <1>0
<1>2. PICK T \in B : \A U \in B : ~(U \subseteq T /\ U # T)
    <2>1. B \in SUBSET (SUBSET S) /\ IsFiniteSet(S)
        BY <1>0 DEF Ordered
    <2> QED
        BY <1>1, <2>1, LeastSubset
<1>3. T \in SUBSET S /\ T # {} /\ ~\E m \in T : \A q \in T : q # m => q[2] < m[2]
    BY <1>0
<1>4. PICK x \in T : TRUE
    BY <1>3
<1>5. \A q, r \in T : q[2] \in Int /\ r[2] \in Int /\ (q[2] = r[2] => q = r)
    BY <1>3 DEF Ordered
<1>6. T \ {x} # {}
    BY <1>3
<1>7. T \ {x} \notin B /\ T \ {x} \in SUBSET S
    BY <1>2, <1>3
<1>8. PICK m \in T \ {x} : \A q \in T \ {x} : q # m => q[2] < m[2]
    BY <1>0, <1>6, <1>7
<1>9. CASE x[2] < m[2]
    BY <1>3, <1>8, <1>9
<1>10. CASE ~(x[2] < m[2])
    <2>1. m[2] < x[2]
        BY <1>5, <1>8, <1>10
    <2>2. \A q \in T : q # x => q[2] < x[2]
        BY <1>5, <1>8, <2>1
    <2> QED
        BY <1>3, <2>2
<1> QED
    BY <1>9, <1>10

\* FIFO order takes n rows, or all of them if there are not so many.
LEMMA FirstOfCounts ==
    ASSUME NEW S, Ordered(S), NEW n \in Nat
    PROVE  /\ IsFiniteSet(FirstOf(S, n)) /\ FirstOf(S, n) \subseteq S
           /\ Cardinality(FirstOf(S, n)) = IF n <= Cardinality(S) THEN n ELSE Cardinality(S)
<1> DEFINE Least(k) == IF n <= k THEN n ELSE k
<1>0. PICK B : B = {T \in SUBSET S : Cardinality(FirstOf(T, n)) # Least(Cardinality(T))}
    OBVIOUS
<1>1. FirstOf(S, n) \subseteq S /\ IsFiniteSet(S)
    BY DEF FirstOf, Ordered
<1>2. SUFFICES ASSUME B # {} PROVE FALSE
    <2>1. IsFiniteSet(FirstOf(S, n))
        BY <1>1, FS_Subset
    <2> QED
        BY <1>0, <1>1, <2>1
<1>3. PICK T \in B : \A U \in B : ~(U \subseteq T /\ U # T)
    <2>1. B \in SUBSET (SUBSET S)
        BY <1>0
    <2> QED
        BY <1>1, <1>2, <2>1, LeastSubset
<1>4. T \in SUBSET S /\ Cardinality(FirstOf(T, n)) # Least(Cardinality(T))
    BY <1>0
<1>5. Ordered(T) /\ IsFiniteSet(T) /\ Cardinality(T) \in Nat
    BY <1>4, OrderedPart, FS_CardinalityType DEF Ordered
<1>6. T # {}
    <2>1. SUFFICES ASSUME T = {} PROVE FALSE
        OBVIOUS
    <2>2. FirstOf(T, n) = {}
        BY <2>1 DEF FirstOf
    <2> QED
        BY <1>4, <2>1, <2>2, FS_EmptySet
<1>7. PICK m \in T : \A q \in T : q # m => q[2] < m[2]
    BY <1>5, <1>6, NewestExists
<1>8. PICK U : U = T \ {m}
    OBVIOUS
<1>9. /\ U \in SUBSET S /\ IsFiniteSet(U) /\ Cardinality(U) = Cardinality(T) - 1
      /\ Cardinality(FirstOf(U, n)) = Least(Cardinality(U))
    <2>1. U \notin B /\ U \in SUBSET S
        BY <1>3, <1>4, <1>8
    <2> QED
        BY <1>0, <1>5, <1>8, <2>1, FS_RemoveElement
<1>10. \A r \in U : {q \in T : q[2] <= r[2]} = {q \in U : q[2] <= r[2]}
    BY <1>5, <1>7, <1>8 DEF Ordered
<1>11. {q \in T : q[2] <= m[2]} = T
    BY <1>5, <1>7 DEF Ordered
<1>12. FirstOf(T, n) = IF Cardinality(T) <= n THEN FirstOf(U, n) \cup {m} ELSE FirstOf(U, n)
    <2>1. \A r \in U : r \in FirstOf(T, n) <=> r \in FirstOf(U, n)
        BY <1>8, <1>10 DEF FirstOf
    <2>2. m \in FirstOf(T, n) <=> Cardinality(T) <= n
        BY <1>11 DEF FirstOf
    <2>3. FirstOf(T, n) \subseteq U \cup {m} /\ FirstOf(U, n) \subseteq U /\ m \notin U
        BY <1>8 DEF FirstOf
    <2> QED
        BY <2>1, <2>2, <2>3
<1>13. IsFiniteSet(FirstOf(U, n)) /\ m \notin FirstOf(U, n)
    <2>1. FirstOf(U, n) \in SUBSET U
        BY DEF FirstOf
    <2> QED
        BY <1>8, <1>9, <2>1, FS_Subset
<1>14. Cardinality(FirstOf(T, n)) =
         IF Cardinality(T) <= n THEN Least(Cardinality(U)) + 1 ELSE Least(Cardinality(U))
    <2>1. Cardinality(FirstOf(U, n) \cup {m}) = Cardinality(FirstOf(U, n)) + 1
        BY <1>13, FS_AddElement
    <2>2. CASE Cardinality(T) <= n
        BY <1>9, <1>12, <2>1, <2>2
    <2>3. CASE ~(Cardinality(T) <= n)
        BY <1>9, <1>12, <2>3
    <2> QED
        BY <2>2, <2>3
<1> QED
    BY <1>4, <1>5, <1>9, <1>14

-----------------------------------------------------------------------------
(* Leave that stands is paid for *)

Days(x) == IF x.paid THEN Length(x.first, x.last) ELSE 0

\* The paid days of every leave, and of those that stand.
Paid == [l \in Leave |-> PaidDays(l)]
Total == SumOn(Paid, Taken)

\* A submission has a leave of its own and as many rows as days, a cancellation has
\* no more rows than the leave has days.
Drawn(s) ==
    /\ tx[s].op = "submit" =>
          /\ leave[tx[s].leave].status = "none"
          /\ \A t \in Session : t # s => tx[t].leave # tx[s].leave
          /\ tx[s].pc = "commit" => Cardinality(tx[s].rows) = Days(tx[s])
    /\ tx[s].op = "cancel" =>
          /\ leave[tx[s].leave].status # "none"
          /\ leave[tx[s].leave].status = "taken" => Days(tx[s]) = PaidDays(tx[s].leave)
          /\ tx[s].pc = "commit" => Cardinality(tx[s].rows) <= Days(tx[s])

PaidInv ==
    /\ spent \subseteq granted
    /\ IsFiniteSet(Taken)
    /\ \A s \in Session : Drawn(s)
    /\ Cardinality(spent) >= Total

\* The sum LeavePaidFor is about.
LEMMA TotalIs ==
    ASSUME IsFiniteSet(Taken)
    PROVE  MapThenSumSet(PaidDays, Taken) = Total
<1> DEFINE Adds(g) ==
             g = [S \in SUBSET Taken |->
                    IF S = {} THEN 0 ELSE PaidDays(Pick(S)) + g[S \ {Pick(S)}]]
<1>1. \A g : Adds(g) <=> Sums(g, Paid, Taken)
    <2>1. \A S \in SUBSET Taken : S # {} => Paid[Pick(S)] = PaidDays(Pick(S))
        BY PickIn DEF Paid, Taken
    <2>2. ASSUME NEW g
          PROVE  [S \in SUBSET Taken |->
                    IF S = {} THEN 0 ELSE PaidDays(Pick(S)) + g[S \ {Pick(S)}]]
                   = [S \in SUBSET Taken |->
                        IF S = {} THEN 0 ELSE Paid[Pick(S)] + g[S \ {Pick(S)}]]
        BY <2>1
    <2> QED
        BY <2>2 DEF Sums
<1>2. \E g : Adds(g)
    BY <1>1, SumsExist
<1>3. MapThenSumSet(PaidDays, Taken) = (CHOOSE g : Adds(g))[Taken]
    BY DEF MapThenSumSet, MapThenFoldSet, Pick
<1>4. PICK g : g = CHOOSE h : Adds(h)
    OBVIOUS
<1>5. Adds(g)
    BY <1>2, <1>4
<1> HIDE DEF Adds
<1>6. Sums(g, Paid, Taken)
    BY <1>1, <1>5
<1>7. SumOn(Paid, Taken) = g[Taken]
    BY <1>6, SumIs
<1> QED
    BY <1>3, <1>4, <1>7 DEF Total

\* The days of a leave that is taken or asked for.
LEMMA DaysNat ==
    ASSUME NEW x, x.paid \in BOOLEAN, x.first \in Day, x.last \in Day, x.first <= x.last
    PROVE  Days(x) \in Nat /\ Length(x.first, x.last) \in Nat
<1>1. x.first \in Nat /\ x.last \in Nat
    BY CalendarAssumption
<1>2. x.last - x.first + 1 \in Nat
    BY <1>1
<1> QED
    BY <1>2 DEF Days, Length

\* The paid days of a leave that stands are a natural number.
LEMMA PaidNat ==
    ASSUME TypeInv, NEW l \in Taken
    PROVE  Paid[l] = PaidDays(l) /\ Paid[l] \in Nat
<1>1. /\ l \in Leave /\ leave[l].paid \in BOOLEAN /\ leave[l].first \in Day
      /\ leave[l].last \in Day /\ leave[l].first <= leave[l].last
    BY DEF TypeInv, TypeOK, LeaveFine, Taken
<1>2. Days(leave[l]) \in Nat
    BY <1>1, DaysNat
<1>3. Paid[l] = PaidDays(l) /\ PaidDays(l) = Days(leave[l])
    BY <1>1 DEF Paid, PaidDays, Days
<1> QED
    BY <1>2, <1>3

\* The two sides of LeavePaidFor are numbers.
LEMMA TotalInt ==
    ASSUME TypeInv, PaidInv
    PROVE  Total \in Int /\ Cardinality(spent) \in Nat /\ IsFiniteSet(spent)
<1>1. IsFiniteSet(spent)
    BY FS_Subset DEF TypeInv, PaidInv
<1>2. \A l \in Taken : Paid[l] \in Int
    BY PaidNat
<1> QED
    BY <1>1, <1>2, SumInt, FS_CardinalityType DEF Total, PaidInv

\* What the steps of one request leave true of another.
LEMMA OtherDrawn ==
    ASSUME TypeInv, PaidInv, NEW s \in Session, NEW t \in Session, t # s,
           \A u \in Session : u # s => tx'[u] = tx[u],
           tx[t].op = "submit" => tx'[s].leave # tx[t].leave,
           tx[t].op \in {"submit", "cancel"} => leave'[tx[t].leave] = leave[tx[t].leave]
    PROVE  Drawn(t)'
<1>1. Drawn(t) /\ tx'[t] = tx[t]
    BY DEF PaidInv
<1>2. tx[t].op = "submit" => \A u \in Session : u # t => tx'[u].leave # tx'[t].leave
    BY <1>1 DEF Drawn
<1>3. tx[t].op = "cancel" => PaidDays(tx[t].leave)' = PaidDays(tx[t].leave)
    BY <1>1 DEF PaidDays
<1>4. (Days(tx[t]))' = Days(tx[t])
    BY <1>1 DEF Days
<1> QED
    BY <1>1, <1>2, <1>3, <1>4 DEF Drawn

\* A request of no leave owes nothing.
LEMMA NoLeaveDrawn ==
    ASSUME NEW s \in Session, tx'[s].op \notin {"submit", "cancel"}
    PROVE  Drawn(s)'
BY DEF Drawn

\* A step that changes one request, and of the tables only the accrual rows that are free.
LEMMA PaidStands ==
    ASSUME TypeInv, PaidInv, NEW s \in Session,
           \A u \in Session : u # s => tx'[u] = tx[u],
           tx'[s].leave \in {None, tx[s].leave}, Drawn(s)',
           leave' = leave, spent' = spent, spent \subseteq granted'
    PROVE  PaidInv'
<1>1. ASSUME NEW t \in Session, t # s PROVE Drawn(t)'
    <2>1. ASSUME tx[t].op = "submit" PROVE tx'[s].leave # tx[t].leave
        <3>1. tx[t].leave # None /\ tx[s].leave # tx[t].leave
            BY <1>1, <2>1, NoneAssumption DEF PaidInv, Drawn, TypeInv, ReqFine
        <3> QED
            BY <3>1
    <2> QED
        BY <1>1, <2>1, OtherDrawn
<1>2. Taken' = Taken /\ Paid' = Paid
    BY DEF Taken, Paid, PaidDays
<1>3. Total' = Total
    BY <1>2 DEF Total
<1> QED
    BY <1>1, <1>2, <1>3 DEF PaidInv

\* At first nothing is spent and nothing has to be paid for.
LEMMA InitPaid ==
    ASSUME Init
    PROVE  PaidInv
<1>1. \A s \in Session : tx[s] = Idle
    BY DEF Init
<1>2. Taken = {}
    BY DEF Init, Taken, NoLeave
<1>3. Total = 0 /\ IsFiniteSet(Taken)
    BY <1>2, SumEmpty, FS_EmptySet DEF Total
<1>4. spent = {} /\ granted = {} /\ Cardinality(spent) = 0
    BY FS_EmptySet DEF Init
<1> QED
    BY <1>1, <1>3, <1>4 DEF PaidInv, Drawn, Idle

\* The catch-up only adds rows.
LEMMA AccrualPaid ==
    ASSUME Inv, PaidInv, NEW s \in Session, Accrual(s)
    PROVE  PaidInv'
<1>0. TypeInv /\ tx[s] \in Request /\ tx \in [Session -> Request]
    BY DEF Inv, TypeInv, TypeOK
<1>1. /\ UNCHANGED <<spent, leave>> /\ spent \subseteq granted'
      /\ \/ tx' = [tx EXCEPT ![s] = [Idle EXCEPT !.op = "balance", !.pc = "accrue"]]
         \/ \E M, R : Proceed(s, [tx[s] EXCEPT !.mint = M, !.rows = R])
    <2>1. \A M : [tx[s] EXCEPT !.mint = M] = [tx[s] EXCEPT !.mint = M, !.rows = tx[s].rows]
        BY <1>0 DEF Request
    <2>2. \A R : [tx[s] EXCEPT !.rows = R] = [tx[s] EXCEPT !.mint = tx[s].mint, !.rows = R]
        BY <1>0 DEF Request
    <2>3. CASE StartBalance(s)
        BY <2>3 DEF StartBalance, PaidInv
    <2>4. CASE ReadEmployments(s)
        BY <2>1, <2>4 DEF ReadEmployments, PaidInv
    <2>5. CASE Mint(s)
        BY <2>2, <2>5 DEF Mint, PaidInv
    <2>6. ASSUME NEW e \in Employment, ReadRows(s, e)
          PROVE  /\ UNCHANGED <<granted, spent, leave>>
                 /\ \E M, R : Proceed(s, [tx[s] EXCEPT !.mint = M, !.rows = R])
        BY <2>6 DEF ReadRows
    <2> QED
        BY <2>3, <2>4, <2>5, <2>6 DEF Accrual, PaidInv
<1>2. CASE tx' = [tx EXCEPT ![s] = [Idle EXCEPT !.op = "balance", !.pc = "accrue"]]
    <2>1. /\ tx'[s].op = "balance" /\ tx'[s].leave = None
          /\ \A u \in Session : u # s => tx'[u] = tx[u]
        BY <1>0, <1>2 DEF Idle
    <2> QED
        BY <1>0, <1>1, <2>1, NoLeaveDrawn, PaidStands
<1>3. ASSUME NEW M, NEW R, Proceed(s, [tx[s] EXCEPT !.mint = M, !.rows = R])
      PROVE  PaidInv'
    <2> DEFINE x == [tx[s] EXCEPT !.mint = M, !.rows = R]
    <2>1. /\ x.op = tx[s].op /\ x.leave = tx[s].leave /\ x.paid = tx[s].paid
          /\ x.first = tx[s].first /\ x.last = tx[s].last
        BY <1>0 DEF Request
    <2>2. (\A u \in Session : u # s => tx'[u] = tx[u]) /\ Goes(tx'[s], x)
        BY <1>0, <1>3 DEF Proceed, Goes
    <2>3. \A p \in {"mint", "rows", "lock"} :
             LET y == [x EXCEPT !.pc = p]
             IN  /\ y.pc = p /\ y.op = x.op /\ y.leave = x.leave /\ y.paid = x.paid
                 /\ y.first = x.first /\ y.last = x.last
        BY <1>0 DEF Request
    <2> HIDE DEF x
    <2>4. CASE tx'[s] = Idle
        <3>1. tx'[s].op = "none" /\ tx'[s].leave = None
            BY <2>4 DEF Idle
        <3>2. Drawn(s)'
            BY <3>1, NoLeaveDrawn
        <3> QED
            BY <1>0, <1>1, <2>2, <3>1, <3>2, PaidStands
    <2>5. CASE tx'[s] # Idle
        <3>1. /\ tx'[s].pc # "commit" /\ tx'[s].op = tx[s].op /\ tx'[s].leave = tx[s].leave
              /\ tx'[s].paid = tx[s].paid /\ tx'[s].first = tx[s].first
              /\ tx'[s].last = tx[s].last
            BY <2>1, <2>2, <2>3, <2>5, ZenonT(60) DEF Goes
        <3>2. Drawn(s)
            BY DEF PaidInv
        <3>3. Days(tx[s])' = Days(tx[s]) /\ \A l : PaidDays(l)' = PaidDays(l)
            BY <1>1, <3>1 DEF Days, PaidDays
        <3>4. Drawn(s)'
            BY <1>1, <2>2, <3>1, <3>2, <3>3 DEF Drawn
        <3> QED
            BY <1>0, <1>1, <2>2, <3>1, <3>4, PaidStands
    <2> QED
        BY <2>4, <2>5
<1> QED
    BY <1>1, <1>2, <1>3

\* A request that ends.
LEMMA EndPaid ==
    ASSUME TypeInv, PaidInv, NEW s \in Session, End(s), leave' = leave, spent' = spent,
           spent \subseteq granted'
    PROVE  PaidInv'
<1>1. tx'[s] = Idle /\ \A u \in Session : u # s => tx'[u] = tx[u]
    BY OneEnds
<1>2. tx'[s].op = "none" /\ tx'[s].leave = None
    BY <1>1 DEF Idle
<1>3. Drawn(s)'
    BY <1>2, NoLeaveDrawn
<1> QED
    BY <1>1, <1>2, <1>3, PaidStands

\* A submission has its leave for itself.
LEMMA StartSubmitPaid ==
    ASSUME TypeInv, PaidInv, NEW s \in Session, NEW l \in Leave, NEW ask \in Ask,
           StartSubmit(s, l, ask)
    PROVE  PaidInv'
<1>1. /\ tx'[s].op = "submit" /\ tx'[s].leave = l /\ tx'[s].pc # "commit"
      /\ \A u \in Session : u # s => tx'[u] = tx[u]
    BY DEF StartSubmit, TypeInv, TypeOK, Idle
<1>2. /\ UNCHANGED <<granted, spent, leave>> /\ leave[l].status = "none"
      /\ \A t \in Session : tx[t].leave # l
    BY DEF StartSubmit
<1>3. Drawn(s)'
    BY <1>1, <1>2 DEF Drawn
<1>4. ASSUME NEW t \in Session, t # s PROVE Drawn(t)'
    BY <1>1, <1>2, <1>4, OtherDrawn
<1>5. Taken' = Taken /\ Paid' = Paid
    BY <1>2 DEF Taken, Paid, PaidDays
<1>6. Total' = Total
    BY <1>5 DEF Total
<1> QED
    BY <1>2, <1>3, <1>4, <1>5, <1>6 DEF PaidInv

\* A cancellation remembers the leave it is for.
LEMMA StartCancelPaid ==
    ASSUME TypeInv, PaidInv, NEW s \in Session, NEW l \in Leave, NEW hr \in BOOLEAN,
           StartCancel(s, l, hr)
    PROVE  PaidInv'
<1>1. /\ tx'[s].op = "cancel" /\ tx'[s].leave = l /\ tx'[s].pc # "commit"
      /\ tx'[s].paid = leave[l].paid
      /\ tx'[s].first = leave[l].first /\ tx'[s].last = leave[l].last
      /\ \A u \in Session : u # s => tx'[u] = tx[u]
    BY DEF StartCancel, TypeInv, TypeOK, Idle
<1>2. UNCHANGED <<granted, spent, leave>> /\ leave[l].status = "taken"
    BY DEF StartCancel
<1>3. Drawn(s)'
    BY <1>1, <1>2 DEF Drawn, Days, PaidDays
<1>4. ASSUME NEW t \in Session, t # s PROVE Drawn(t)'
    <2>1. tx[t].op = "submit" => tx[t].leave # l
        BY <1>2 DEF PaidInv, Drawn
    <2> QED
        BY <1>1, <1>2, <1>4, <2>1, OtherDrawn
<1>5. Taken' = Taken /\ Paid' = Paid
    BY <1>2 DEF Taken, Paid, PaidDays
<1>6. Total' = Total
    BY <1>5 DEF Total
<1> QED
    BY <1>2, <1>3, <1>4, <1>5, <1>6 DEF PaidInv

\* What a plan leaves of a request.
LEMMA PlanKeeps ==
    ASSUME NEW x \in Request, NEW R
    PROVE  LET y == [x EXCEPT !.pc = "commit", !.rows = R]
           IN  /\ y.pc = "commit" /\ y.rows = R /\ y.op = x.op /\ y.leave = x.leave
               /\ y.paid = x.paid /\ y.first = x.first /\ y.last = x.last
BY DEF Request

\* Months are integers, so the rows of one employment have an order.
LEMMA RowsOrdered ==
    ASSUME TypeInv, NEW e, NEW S \in SUBSET granted, \A r \in S : r[1] = e
    PROVE  Ordered(S)
<1>1. \A r \in S : r = <<e, r[2]>> /\ r[2] \in Int
    BY MonthInt DEF TypeInv, TypeOK, Row
<1> QED
    BY <1>1, PickedFinite DEF Ordered

\* The plan of a submission takes a row for every day.
LEMMA PlanSubmitPaid ==
    ASSUME TypeInv, PaidInv, NEW s \in Session, PlanSubmit(s)
    PROVE  PaidInv'
<1>0. ReqFine(tx[s]) /\ tx[s] \in Request /\ tx \in [Session -> Request]
    BY DEF TypeInv, TypeOK, ReqFine
<1>1. PICK F, n, R : /\ F = Free(tx[s].emp) /\ n = Length(tx[s].first, tx[s].last)
                     /\ R = IF tx[s].paid THEN FirstOf(F, n) ELSE {}
    OBVIOUS
<1>2. /\ tx' = [tx EXCEPT ![s] = [tx[s] EXCEPT !.pc = "commit", !.rows = R]]
      /\ tx[s].paid => Cardinality(F) >= n
      /\ tx[s].op = "submit" /\ UNCHANGED <<granted, spent, leave>>
    BY <1>1 DEF PlanSubmit
<1>3. /\ tx'[s] = [tx[s] EXCEPT !.pc = "commit", !.rows = R]
      /\ \A u \in Session : u # s => tx'[u] = tx[u]
    BY <1>0, <1>2
<1>4. /\ tx'[s].rows = R /\ tx'[s].op = "submit" /\ tx'[s].leave = tx[s].leave
      /\ tx'[s].paid = tx[s].paid /\ tx'[s].first = tx[s].first /\ tx'[s].last = tx[s].last
    BY <1>0, <1>2, <1>3, PlanKeeps
<1>5. Cardinality(R) = Days(tx[s])
    <2>1. CASE tx[s].paid
        <3>1. Ordered(F)
            BY <1>1, RowsOrdered DEF Free, Live
        <3>2. n \in Nat /\ Days(tx[s]) = n
            BY <1>0, <1>1, <1>2, <2>1, DaysNat DEF ReqFine, Request, Days
        <3>3. Cardinality(F) \in Nat
            BY <3>1, FS_CardinalityType DEF Ordered
        <3>4. Cardinality(FirstOf(F, n)) = n
            BY <1>2, <2>1, <3>1, <3>2, <3>3, FirstOfCounts
        <3> QED
            BY <1>1, <2>1, <3>2, <3>4
    <2>2. CASE ~tx[s].paid
        BY <1>1, <2>2, FS_EmptySet DEF Days
    <2> QED
        BY <2>1, <2>2
<1>6. Days(tx[s])' = Days(tx[s])
    BY <1>4 DEF Days
<1>7. Drawn(s)
    BY DEF PaidInv
<1>8. Drawn(s)'
    BY <1>2, <1>3, <1>4, <1>5, <1>6, <1>7 DEF Drawn
<1> QED
    BY <1>2, <1>3, <1>4, <1>8, PaidStands DEF PaidInv

\* A refund gives back at most as many rows as the leave has days.
LEMMA RefundBounded ==
    ASSUME TypeInv, PaidInv, NEW e, NEW n \in Nat
    PROVE  IsFiniteSet(Refund(e, n)) /\ Cardinality(Refund(e, n)) <= n
<1> DEFINE used == {r \in granted \cap spent : r[1] = e}
           L == {r \in used : ~Expired(r)}
           X == {r \in used : Expired(r)}
<1>1. Ordered(L) /\ Ordered(X)
    BY RowsOrdered
<1>2. Cardinality(L) \in Nat /\ Cardinality(X) \in Nat
    BY <1>1, FS_CardinalityType DEF Ordered
<1>3. Refund(e, n) = FirstOf(L, n) \cup FirstOf(X, n - Cardinality(FirstOf(L, n)))
    BY DEF Refund
<1> HIDE DEF L, X
<1>4. PICK A, k : A = FirstOf(L, n) /\ k = Cardinality(A)
    OBVIOUS
<1>5. IsFiniteSet(A) /\ k \in Nat /\ k <= n /\ n - k \in Nat
    BY <1>1, <1>2, <1>4, FirstOfCounts
<1>6. PICK C, j : C = FirstOf(X, n - k) /\ j = Cardinality(C)
    OBVIOUS
<1>7. IsFiniteSet(C) /\ j \in Nat /\ j <= n - k
    BY <1>1, <1>2, <1>5, <1>6, FirstOfCounts
<1>8. IsFiniteSet(A \cup C) /\ Cardinality(A \cup C) <= k + j
    <2>1. IsFiniteSet(A \cup C) /\ Cardinality(A \cup C) = k + j - Cardinality(A \cap C)
        BY <1>4, <1>5, <1>6, <1>7, FS_Union
    <2>2. PICK c : c = Cardinality(A \cap C)
        OBVIOUS
    <2>3. c \in Nat
        BY <1>5, <2>2, FS_Intersection, FS_CardinalityType
    <2>4. k + j - c <= k + j
        BY <1>5, <1>7, <2>3
    <2> QED
        BY <2>1, <2>2, <2>4
<1>9. Cardinality(A \cup C) \in Nat
    BY <1>8, FS_CardinalityType
<1> QED
    BY <1>3, <1>4, <1>5, <1>6, <1>7, <1>8, <1>9

\* The plan of a cancellation gives back no more than the leave has days.
LEMMA PlanCancelPaid ==
    ASSUME TypeInv, PaidInv, NEW s \in Session, PlanCancel(s)
    PROVE  PaidInv'
<1>0. ReqFine(tx[s]) /\ tx[s] \in Request /\ tx \in [Session -> Request]
    BY DEF TypeInv, TypeOK, ReqFine
<1>1. PICK e, n, R : /\ e = RefundTo(tx[s].first) /\ n = Length(tx[s].first, tx[s].last)
                     /\ R = IF tx[s].paid THEN Refund(e, n) ELSE {}
    OBVIOUS
<1>2. /\ tx' = [tx EXCEPT ![s] = [tx[s] EXCEPT !.pc = "commit", !.rows = R]]
      /\ tx[s].op = "cancel" /\ UNCHANGED <<granted, spent, leave>>
    BY <1>0, <1>1 DEF PlanCancel, ReqFine
<1>3. /\ tx'[s] = [tx[s] EXCEPT !.pc = "commit", !.rows = R]
      /\ \A u \in Session : u # s => tx'[u] = tx[u]
    BY <1>0, <1>2
<1>4. /\ tx'[s].rows = R /\ tx'[s].op = "cancel" /\ tx'[s].leave = tx[s].leave
      /\ tx'[s].paid = tx[s].paid /\ tx'[s].first = tx[s].first /\ tx'[s].last = tx[s].last
    BY <1>0, <1>2, <1>3, PlanKeeps
<1>5. Cardinality(R) <= Days(tx[s])
    <2>1. n \in Nat
        BY <1>0, <1>1, <1>2, DaysNat DEF ReqFine, Request
    <2>2. CASE tx[s].paid
        <3>1. Days(tx[s]) = n /\ R = Refund(e, n)
            BY <1>1, <2>2 DEF Days
        <3> QED
            BY <2>1, <3>1, RefundBounded
    <2>3. CASE ~tx[s].paid
        BY <1>1, <2>3, FS_EmptySet DEF Days
    <2> QED
        BY <2>2, <2>3
<1>6. Days(tx[s])' = Days(tx[s]) /\ \A l : PaidDays(l)' = PaidDays(l)
    BY <1>2, <1>4 DEF Days, PaidDays
<1>7. Drawn(s)
    BY DEF PaidInv
<1>8. Drawn(s)'
    BY <1>2, <1>3, <1>4, <1>5, <1>6, <1>7 DEF Drawn
<1> QED
    BY <1>2, <1>3, <1>4, <1>8, PaidStands DEF PaidInv

\* A submission that commits consumes as many rows as the leave has days.
LEMMA CommitSubmitPaid ==
    ASSUME TypeInv, PaidInv, NEW s \in Session, CommitSubmit(s)
    PROVE  PaidInv'
<1>0. /\ ReqFine(tx[s]) /\ tx[s] \in Request /\ Drawn(s)
      /\ Total \in Int /\ Cardinality(spent) \in Nat /\ IsFiniteSet(spent)
    BY TotalInt DEF TypeInv, PaidInv, ReqFine
<1>1. PICK k, R, n : k = tx[s].leave /\ R = tx[s].rows /\ n = Days(tx[s])
    OBVIOUS
<1>2. /\ k \in Leave /\ k # None /\ IsFiniteSet(R) /\ n \in Nat /\ Cardinality(R) = n
      /\ leave[k].status = "none" /\ k \notin Taken
      /\ \A t \in Session : s # t => tx[t].leave # k
    BY <1>0, <1>1, DaysNat, NoneAssumption DEF CommitSubmit, ReqFine, Request, Drawn, Taken
<1>3. /\ leave'[k] = [status |-> "taken", paid |-> tx[s].paid, first |-> tx[s].first,
                      last |-> tx[s].last, drew |-> R]
      /\ \A l : l # k => leave'[l] = leave[l]
      /\ R \cap spent = {} /\ R \subseteq granted /\ spent' = spent \cup R
      /\ granted' = granted
    BY <1>1, <1>2 DEF CommitSubmit, TypeInv, TypeOK
<1>4. tx'[s] = Idle /\ \A t \in Session : t # s => tx'[t] = tx[t]
    BY OneEnds DEF CommitSubmit
<1>5. tx'[s].op = "none" /\ tx'[s].leave = None
    BY <1>4 DEF Idle
<1>6. ASSUME NEW t \in Session, t # s PROVE Drawn(t)'
    <2>1. tx[t].leave # k
        BY <1>2, <1>6
    <2>2. tx[t].op = "submit" => tx[t].leave # None
        BY NoneAssumption DEF TypeInv, ReqFine
    <2> QED
        BY <1>3, <1>4, <1>5, <1>6, <2>1, <2>2, OtherDrawn
<1>7. Taken' = Taken \cup {k} /\ IsFiniteSet(Taken) /\ IsFiniteSet(Taken')
    <2>1. leave'[k].status = "taken"
        BY <1>3
    <2>2. Taken' = Taken \cup {k}
        BY <1>2, <1>3, <2>1 DEF Taken
    <2>3. IsFiniteSet(Taken)
        BY DEF PaidInv
    <2> QED
        BY <2>2, <2>3, FS_AddElement
<1>8. Paid'[k] = n /\ \A l \in Taken : Paid'[l] = Paid[l] /\ Paid[l] \in Int
    <2>1. PaidDays(k)' = n
        BY <1>1, <1>3 DEF PaidDays, Days
    <2>2. ASSUME NEW l \in Taken PROVE PaidDays(l)' = PaidDays(l) /\ l \in Leave
        BY <1>2, <1>3 DEF PaidDays, Taken
    <2> QED
        BY <1>2, <2>1, <2>2, PaidNat DEF Paid
<1>9. Total' = n + Total
    <2>1. \A l \in Taken' : Paid'[l] \in Int
        BY <1>2, <1>7, <1>8
    <2>2. Taken' \ {k} = Taken /\ k \in Taken'
        BY <1>2, <1>7
    <2>3. SumOn(Paid', Taken') = Paid'[k] + SumOn(Paid', Taken)
        BY <1>7, <2>1, <2>2, SumTake
    <2>4. SumOn(Paid', Taken) = SumOn(Paid, Taken)
        BY <1>7, <1>8, SumEqual
    <2> QED
        BY <1>8, <2>3, <2>4 DEF Total
<1>10. Cardinality(spent') = Cardinality(spent) + n
    <2>1. Cardinality(spent') = Cardinality(spent) + Cardinality(R) - Cardinality(spent \cap R)
        BY <1>0, <1>2, <1>3, FS_Union
    <2>2. Cardinality(spent \cap R) = 0
        BY <1>3, FS_EmptySet
    <2> QED
        BY <1>0, <1>2, <2>1, <2>2
<1>11. Cardinality(spent') >= Total'
    BY <1>0, <1>2, <1>9, <1>10 DEF PaidInv
<1>12. Drawn(s)'
    BY <1>5, NoLeaveDrawn
<1> QED
    BY <1>3, <1>6, <1>7, <1>11, <1>12 DEF PaidInv

\* A cancellation that commits gives back at most what its leave was paid with.
LEMMA CommitCancelPaid ==
    ASSUME TypeInv, PaidInv, NEW s \in Session, CommitCancel(s)
    PROVE  PaidInv'
<1>0. /\ ReqFine(tx[s]) /\ tx[s] \in Request /\ Drawn(s)
      /\ Total \in Int /\ Cardinality(spent) \in Nat /\ IsFiniteSet(spent)
    BY TotalInt DEF TypeInv, PaidInv, ReqFine
<1>1. PICK k, R, n : k = tx[s].leave /\ R = tx[s].rows /\ n = Days(tx[s])
    OBVIOUS
<1>2. /\ k \in Taken /\ k \in Leave /\ IsFiniteSet(R) /\ n \in Nat /\ Cardinality(R) <= n
      /\ PaidDays(k) = n
    <2>1. k \in Leave /\ n \in Nat /\ IsFiniteSet(R)
        BY <1>0, <1>1, DaysNat DEF CommitCancel, ReqFine, Request
    <2>2. leave[k].status = "taken"
        BY <1>1 DEF CommitCancel
    <2> QED
        BY <1>0, <1>1, <2>1, <2>2 DEF CommitCancel, Drawn, Taken
<1>3. /\ leave'[k].status = "gone"
      /\ \A l : l # k => leave'[l] = leave[l]
      /\ R \subseteq spent /\ spent' = spent \ R /\ granted' = granted
    <2>1. /\ leave' = [leave EXCEPT ![k] = [leave[k] EXCEPT !.status = "gone", !.drew = {}]]
          /\ R \subseteq spent /\ spent' = spent \ R /\ granted' = granted
        BY <1>1 DEF CommitCancel
    <2>2. leave \in [Leave -> [status : {"none", "taken", "gone"}, paid : BOOLEAN,
                               first : Day \cup {None}, last : Day \cup {None},
                               drew : SUBSET Row]]
        BY DEF TypeInv, TypeOK
    <2> QED
        BY <1>2, <2>1, <2>2
<1>4. tx'[s] = Idle /\ \A t \in Session : t # s => tx'[t] = tx[t]
    BY OneEnds DEF CommitCancel
<1>5. tx'[s].op = "none" /\ tx'[s].leave = None
    BY <1>4 DEF Idle
<1>6. ASSUME NEW t \in Session, t # s PROVE Drawn(t)'
    <2>1. Drawn(t) /\ leave[k].status = "taken"
        BY <1>2 DEF PaidInv, Taken
    <2>2. CASE tx[t].leave # k
        <3>1. tx[t].op = "submit" => tx[t].leave # None
            BY NoneAssumption DEF TypeInv, ReqFine
        <3> QED
            BY <1>3, <1>4, <1>5, <1>6, <2>2, <3>1, OtherDrawn
    <2>3. CASE tx[t].leave = k
        <3>1. tx[t].op # "submit" /\ tx'[t] = tx[t]
            BY <1>4, <1>6, <2>1, <2>3 DEF Drawn
        <3>2. leave'[tx'[t].leave].status = "gone" /\ Days(tx[t])' = Days(tx[t])
            BY <1>3, <2>3, <3>1 DEF Days
        <3> QED
            BY <2>1, <3>1, <3>2 DEF Drawn
    <2> QED
        BY <2>2, <2>3
<1>7. Taken' = Taken \ {k} /\ IsFiniteSet(Taken) /\ IsFiniteSet(Taken')
    <2>1. Taken' = Taken \ {k}
        BY <1>2, <1>3 DEF Taken
    <2>2. IsFiniteSet(Taken)
        BY DEF PaidInv
    <2> QED
        BY <2>1, <2>2, FS_RemoveElement
<1>8. Paid[k] = n /\ \A l \in Taken : Paid[l] \in Int /\ (l # k => Paid'[l] = Paid[l])
    <2>1. ASSUME NEW l \in Taken, l # k PROVE Paid'[l] = Paid[l]
        BY <1>3, <2>1 DEF PaidDays, Taken, Paid
    <2> QED
        BY <1>2, <2>1, PaidNat
<1>9. Total = n + Total'
    <2>1. SumOn(Paid, Taken) = Paid[k] + SumOn(Paid, Taken \ {k})
        BY <1>2, <1>7, <1>8, SumTake
    <2>2. SumOn(Paid', Taken') = SumOn(Paid, Taken')
        BY <1>7, <1>8, SumEqual
    <2> QED
        BY <1>7, <1>8, <2>1, <2>2 DEF Total
<1>10. Total' \in Int
    <2>1. \A l \in Taken' : Paid'[l] \in Int
        BY <1>7, <1>8
    <2> QED
        BY <1>7, <2>1, SumInt DEF Total
<1>11. Cardinality(spent') = Cardinality(spent) - Cardinality(R) /\ Cardinality(R) \in Nat
    <2>1. spent \cap R = R
        BY <1>3
    <2>2. Cardinality(spent \ R) = Cardinality(spent) - Cardinality(spent \cap R)
        BY <1>0, FS_Difference
    <2>3. Cardinality(R) \in Nat
        BY <1>2, FS_CardinalityType
    <2> QED
        BY <1>3, <2>1, <2>2, <2>3
<1>12. Cardinality(spent') >= Total'
    BY <1>0, <1>2, <1>9, <1>10, <1>11 DEF PaidInv
<1>13. Drawn(s)'
    BY <1>5, NoLeaveDrawn
<1>14. spent' \subseteq granted'
    BY <1>3 DEF PaidInv
<1> QED
    BY <1>6, <1>7, <1>12, <1>13, <1>14 DEF PaidInv

\* Submission and cancellation keep leave paid for.
LEMMA LeavePaid ==
    ASSUME TypeInv, PaidInv, NEW s \in Session, LeaveStep(s)
    PROVE  PaidInv'
BY StartSubmitPaid, StartCancelPaid, PlanSubmitPaid, CommitSubmitPaid, PlanCancelPaid,
   CommitCancelPaid DEF LeaveStep

\* A termination deletes only free rows; rehires and edits touch none.
LEMMA EmployingPaid ==
    ASSUME Inv, PaidInv, NEW s \in Session, Employing(s)
    PROVE  PaidInv'
<1>0. /\ TypeInv /\ LockInv /\ tx[s] \in Request /\ tx \in [Session -> Request]
      /\ spent \subseteq granted
    BY DEF Inv, TypeInv, TypeOK, PaidInv
<1>1. ASSUME NEW end \in Day, StartTerminate(s, end) PROVE PaidInv'
    <2>1. /\ tx'[s].op = "terminate" /\ tx'[s].leave = None
          /\ \A u \in Session : u # s => tx'[u] = tx[u]
        BY <1>0, <1>1 DEF StartTerminate, Idle
    <2> QED
        BY <1>0, <1>1, <2>1, NoLeaveDrawn, PaidStands DEF StartTerminate
<1>2. CASE PlanTerminate(s)
    <2>1. PICK e, R, n :
             tx' = [tx EXCEPT ![s] = [tx[s] EXCEPT !.pc = "commit", !.emp = e, !.rows = R,
                                                   !.frozen = n]]
        BY <1>2 DEF PlanTerminate
    <2>2. /\ tx'[s].op = "terminate" /\ tx'[s].leave = tx[s].leave
          /\ \A u \in Session : u # s => tx'[u] = tx[u]
        <3>1. tx[s].op = "terminate"
            BY <1>2 DEF PlanTerminate
        <3> QED
            BY <1>0, <2>1, <3>1, PlannedFields
    <2> QED
        BY <1>0, <1>2, <2>2, NoLeaveDrawn, PaidStands DEF PlanTerminate
<1>3. CASE CommitTerminate(s)
    <2>1. tx[s].rows \cap spent = {}
        BY <1>0, <1>3 DEF CommitTerminate, LockInv, Locking, Stands
    <2> QED
        BY <1>0, <1>3, <2>1, EndPaid DEF CommitTerminate
<1>4. ASSUME NEW start \in Day, NEW since \in Anchor \cup {None}, StartRehire(s, start, since)
      PROVE  PaidInv'
    <2>1. /\ tx'[s].op = "rehire" /\ tx'[s].leave = None
          /\ \A u \in Session : u # s => tx'[u] = tx[u]
        BY <1>0, <1>4 DEF StartRehire, Idle
    <2> QED
        BY <1>0, <1>4, <2>1, NoLeaveDrawn, PaidStands DEF StartRehire
<1>5. ASSUME NEW e \in Employment, Rehire(s, e) PROVE PaidInv'
    BY <1>0, <1>5, EndPaid DEF Rehire
<1>6. ASSUME NEW new \in EmploymentType, NEW join \in JoinDate, NEW since \in Anchor \cup {None},
             StartUpdate(s, new, join, since)
      PROVE  PaidInv'
    <2>1. /\ tx'[s].op = "update" /\ tx'[s].leave = None
          /\ \A u \in Session : u # s => tx'[u] = tx[u]
        BY <1>0, <1>6 DEF StartUpdate, Idle
    <2> QED
        BY <1>0, <1>6, <2>1, NoLeaveDrawn, PaidStands DEF StartUpdate
<1>7. CASE Update(s)
    BY <1>0, <1>7, EndPaid DEF Update
<1> QED
    BY <1>1, <1>2, <1>3, <1>4, <1>5, <1>6, <1>7 DEF Employing

\* PaidInv is inductive.
LEMMA NextPaid ==
    ASSUME Inv, PaidInv, [Next]_vars
    PROVE  PaidInv'
<1>0. TypeInv /\ spent \subseteq granted
    BY DEF Inv, PaidInv
<1>1. ASSUME NEW s \in Session, Rollback(s) PROVE PaidInv'
    BY <1>0, <1>1, EndPaid DEF Rollback
<1>2. CASE UNCHANGED <<granted, spent, leave, tx>>
    <2>1. Taken' = Taken /\ Paid' = Paid
        BY <1>2 DEF Taken, Paid, PaidDays
    <2>2. Total' = Total
        BY <2>1 DEF Total
    <2>3. (\A s \in Session : Drawn(s))' <=> \A s \in Session : Drawn(s)
        BY <1>2 DEF Drawn, Days, PaidDays
    <2> QED
        BY <1>2, <2>1, <2>2, <2>3 DEF PaidInv
<1> QED
    BY <1>0, <1>1, <1>2, AccrualPaid, LeavePaid, EmployingPaid DEF Next, Tick, vars

\* The paid days of the leaves that stand are all consumed somewhere, for any number of
\* submissions, cancellations, refunds and terminations at once: the conditional updates
\* of submitLeave and refundPaidLeave neither spend a day twice nor give one back twice.
THEOREM LeaveStaysPaidFor == Spec => []LeavePaidFor
<1>1. Inv /\ PaidInv /\ [Next]_vars => PaidInv'
    BY NextPaid
<1>2. PaidInv => LeavePaidFor
    BY TotalIs DEF PaidInv, LeavePaidFor
<1> QED
    BY <1>1, <1>2, InitPaid, LedgerCorrect, PTL DEF Spec
=============================================================================
