-------------------------- MODULE PeriodLockProofs --------------------------
(***************************************************************************)
(* Proofs about PeriodLock, for any number of periods, records, employees, *)
(* rates and transactions.                                                 *)
(***************************************************************************)
EXTENDS PeriodLock, TLAPS

Mutations == {"file", "review", "move", "remove"}

\* The fields a transaction has are those its handler needs.
MutationOK(x) ==
    /\ x.pc \in {"select", "lock", "write"}
    /\ x.rec \in Rec /\ x.per = None
    /\ x.old \in Span /\ x.new \in Span
    /\ x.cur \in {x.old, x.new}
    /\ x.op = "move" => KindOf[x.rec] = "log"
    /\ x.op = "review" => KindOf[x.rec] = "claim"
    /\ x.op # "move" => x.old = x.new
    /\ x.paid = {}

FinalizationOK(x) ==
    /\ x.pc \in {"read", "insert"}
    /\ x.rec = None /\ x.per \in Period
    /\ x.cur \in Span /\ x.rate \in Rate
    /\ x.held = {} /\ x.todo = {} /\ x.saw = {}

TxFine(x) ==
    /\ x \in Transaction
    /\ \/ x = Idle
       \/ x.op \in Mutations /\ MutationOK(x)
       \/ x.op = "finalize" /\ FinalizationOK(x)

TxOK == \A s \in Session : TxFine(tx[s])

\* Rows that exist have a span.
RowsOK ==
    /\ \A p \in Period : LivePeriod(p) =>
          period[p].span \in Span /\ period[p].rate \in Rate
    /\ \A r \in Rec : LiveRow(r) => row[r].span \in Span

TypeInv == TypeOK /\ TxOK /\ RowsOK

\* The period row locked FOR UPDATE is the draft the finalization read, and
\* nobody else holds it.
FinalizersAlone ==
    /\ \A s \in Session : tx[s].op = "finalize" =>
          period[tx[s].per] = [status |-> "DRAFT", span |-> tx[s].cur, rate |-> tx[s].rate]
    /\ \A s, t \in Session : s # t /\ tx[s].op = "finalize" =>
          /\ tx[s].per \notin tx[t].held
          /\ tx[t].op = "finalize" => tx[t].per # tx[s].per

\* A period whose PATCH has been checked is a draft no transaction holds.
PlansHeld ==
    \A s \in Session : ask[s].step = "write" /\ ask[s].per # None =>
       /\ period[ask[s].per].status = "DRAFT"
       /\ Finalizing(ask[s].per) = {} /\ Sharing(ask[s].per) = {}

LockInv == FinalizersAlone /\ PlansHeld

\* A period is created, patched or deleted.
Planned(s, p) ==
    \/ \E sp \in Span, rt \in Rate : CreatePeriod(s, p, sp, rt)
    \/ \E sp \in Span \cup {None}, rt \in Rate : PatchPeriod(s, p, sp, rt)
    \/ DeletePeriod(s, p)

\* A step takes no lock on a period somebody is about to PATCH, and leaves its status.
PatchedLeft == \A p \in Period : Patching(p) # {} =>
    /\ period'[p].status = period[p].status
    /\ Finalizing(p)' \subseteq Finalizing(p)
    /\ Sharing(p)' \subseteq Sharing(p)

\* Only requests change: one is sent, checked, or turned away.
Quiet == UNCHANGED <<period, slips, row, tx>>

\* A step belongs to one transaction, to the planning of one period, or to a request.
LEMMA PlanningSteps ==
    ASSUME [Next]_vars
    PROVE  \/ \E s \in Session : Mutation(s) \/ Finalization(s) \/ DeadlockAbort(s) \/ Rollback(s)
           \/ \E s \in Session, p \in Period : Planned(s, p)
           \/ Quiet
<1>1. ASSUME NEW s \in Session, Asking(s) PROVE Quiet
    BY <1>1 DEF Asking, AskLeave, AskMove, AskRemove, AskPeriod, AskPatch, Asks, Quiet
<1>2. ASSUME NEW s \in Session, TurnedAway(s) PROVE Quiet
    BY <1>2 DEF TurnedAway, Quiet
<1>3. ASSUME NEW s \in Session, Editing(s)
      PROVE  Quiet \/ \E p \in Period : Planned(s, p)
    BY <1>3 DEF Editing, CheckPatch, Quiet, Planned
<1>4. ASSUME NEW s \in Session, Replan(s)
      PROVE  Quiet \/ \E p \in Period : Planned(s, p)
    BY <1>4 DEF Replan, CheckCreate, AskPatch, Asks, CheckPatch, Quiet, Planned
<1>5. UNCHANGED vars => Quiet
    BY DEF vars, Quiet
<1> QED
    BY <1>1, <1>2, <1>3, <1>4, <1>5 DEF Next, SteadyNext

\* Requests keep their type.
LEMMA AskTyped ==
    ASSUME TypeInv, [Next]_vars
    PROVE  ask' \in [Session -> Ask]
<1> USE NoneAssumption
<1>1. ask \in [Session -> Ask]
    BY DEF TypeInv, TypeOK
<1>2. NoAsk \in Ask
    BY DEF NoAsk, Ask
<1>3. ASSUME NEW s \in Session, NEW x \in Ask, ask' = [ask EXCEPT ![s] = x]
      PROVE  ask' \in [Session -> Ask]
    BY <1>1, <1>3
<1>4. ASSUME NEW s \in Session, Asking(s) \/ Replan(s) PROVE ask' \in [Session -> Ask]
  <2>1. \A r \in Rec, sp \in Span \cup {None}, op \in {"file", "move", "remove"} :
            OfRecord(op, r, sp) \in Ask
      BY DEF OfRecord, NoAsk, Ask
  <2>2. \A p \in Period, op \in {"finalize", "delete"} : OfPeriod(op, p) \in Ask
      BY DEF OfPeriod, NoAsk, Ask
  <2>3. \A op \in {"create", "patch"}, step \in {"wait", "write"}, p \in Period \cup {None},
            sp \in Span \cup {None}, rt \in Rate : Plan(op, step, p, sp, rt) \in Ask
      BY DEF Plan, Ask
  <2>4. \A p, sp, rt : CheckPatch(s, p, sp, rt) => ask' \in [Session -> Ask]
    <3>1. [ask[s] EXCEPT !.step = "write"] \in Ask
        BY <1>1 DEF Ask
    <3> QED
        BY <1>3, <3>1 DEF CheckPatch
  <2>5. Asking(s) => ask' \in [Session -> Ask]
      BY <1>3, <2>1, <2>2, <2>3
         DEF Asking, AskLeave, AskMove, AskRemove, AskPeriod, AskPatch, Asks
  <2>6. Replan(s) => ask' \in [Session -> Ask]
      BY <1>2, <1>3, <2>3, <2>4
         DEF Replan, CheckCreate, CreatePeriod, PatchPeriod, Done, AskPatch, Asks
  <2> QED
      BY <1>4, <2>5, <2>6
<1>5. ASSUME NEW s \in Session, Mutation(s) \/ Finalization(s) PROVE ask' \in [Session -> Ask]
    BY <1>1, <1>2, <1>3, <1>5
       DEF Mutation, StartFile, StartMove, StartReview, StartRemove, Arrives, Select,
           LockNext, Cleared, Refused, File, Review, Move, Remove, LostRace, Commit,
           Finalization, StartFinalize, ReadTable, InsertSlip, CommitFinalize
<1>6. ASSUME NEW s \in Session,
             Editing(s) \/ TurnedAway(s) \/ DeadlockAbort(s) \/ Rollback(s)
      PROVE  ask' \in [Session -> Ask]
  <2>1. \A p, sp, rt : CheckPatch(s, p, sp, rt) => ask' \in [Session -> Ask]
    <3>1. [ask[s] EXCEPT !.step = "write"] \in Ask
        BY <1>1 DEF Ask
    <3> QED
        BY <1>3, <3>1 DEF CheckPatch
  <2> QED
      BY <1>1, <1>2, <1>3, <1>6, <2>1
         DEF Editing, PatchPeriod, DeletePeriod, TurnedAway, DeadlockAbort, Rollback, Done
<1>7. CASE UNCHANGED vars
    BY <1>1, <1>7 DEF vars
<1> QED
    BY <1>4, <1>5, <1>6, <1>7 DEF Next, SteadyNext

\* A session with no transaction is well typed.
LEMMA IdleFine == TxFine(Idle)
BY DEF Idle, Transaction, Entries, TxFine

\* A step that gives one transaction a fine value keeps them all fine.
LEMMA OneChanges ==
    ASSUME TypeInv, NEW s \in Session, NEW x, TxFine(x), tx' = [tx EXCEPT ![s] = x]
    PROVE  tx' \in [Session -> Transaction] /\ TxOK'
<1>1. x \in Transaction
    BY DEF TxFine
<1>2. \A t \in Session : tx'[t] = IF t = s THEN x ELSE tx[t]
    BY DEF TypeInv, TypeOK
<1> QED
    BY <1>1, <1>2 DEF TypeInv, TypeOK, TxOK

\* The same when the tables are left alone.
LEMMA TypedStep ==
    ASSUME TypeInv, NEW s \in Session, NEW x, TxFine(x), tx' = [tx EXCEPT ![s] = x],
           UNCHANGED <<period, slips, row>>, ask' \in [Session -> Ask]
    PROVE  TypeInv'
BY OneChanges DEF TypeInv, TypeOK, RowsOK, LivePeriod, LiveRow

\* The transactions start idle, over draft periods and no records.
LEMMA InitTypeInv == Init => TypeInv
<1> SUFFICES ASSUME Init PROVE TypeInv
    OBVIOUS
<1>1. period \in [Period -> PeriodRow]
    BY DEF Init, NoPeriod, Drafts, PeriodRow, PeriodStatus
<1>2. row \in [Rec -> SourceRow] /\ slips \in [Period -> Statement \cup {None}]
    BY DEF Init, SourceRow, RowStatus
<1>3. tx \in [Session -> Transaction] /\ TxOK /\ ask \in [Session -> Ask]
    BY IdleFine DEF Init, TxOK, TxFine, NoAsk, Ask
<1>4. RowsOK
    BY DEF Init, RowsOK, LivePeriod, LiveRow, NoPeriod, Drafts
<1> QED
    BY <1>1, <1>2, <1>3, <1>4 DEF TypeInv, TypeOK

\* Opening a mutation keeps the state typed.
LEMMA BeginTyped ==
    ASSUME TypeInv, NEW s \in Session, NEW op \in Mutations, NEW r \in Rec,
           NEW sp \in Span, NEW sq \in Span, Begin(s, op, r, sp, sq),
           op = "move" => KindOf[r] = "log",
           op = "review" => KindOf[r] = "claim",
           op # "move" => sp = sq,
           UNCHANGED <<period, slips, row>>, ask' \in [Session -> Ask]
    PROVE  TypeInv'
<1> DEFINE x == [Idle EXCEPT !.op = op, !.pc = "select", !.rec = r,
                             !.old = sp, !.new = sq, !.cur = sp]
<1>1. TxFine(x)
    BY DEF Idle, Transaction, Entries, Mutations, TxFine, MutationOK
<1> QED
    BY <1>1, TypedStep DEF Begin

\* Each statement of a mutation keeps the state typed.
LEMMA MutationTyped ==
    ASSUME TypeInv, NEW s \in Session, Mutation(s), ask' \in [Session -> Ask]
    PROVE  TypeInv'
<1> USE NoneAssumption
<1>1. TxFine(tx[s])
    BY DEF TypeInv, TxOK
<1>2. CASE \E r \in Rec, sp \in Span : StartFile(s, r, sp) \/ StartMove(s, r, sp)
  <2> PICK r \in Rec, sp \in Span : StartFile(s, r, sp) \/ StartMove(s, r, sp)
      BY <1>2
  <2>1. CASE StartFile(s, r, sp)
      BY <2>1, BeginTyped DEF StartFile, Mutations
  <2>2. CASE StartMove(s, r, sp)
    <3>1. row[r].span \in Span
        BY <2>2 DEF StartMove, TypeInv, RowsOK
    <3> QED
        BY <2>2, <3>1, BeginTyped DEF StartMove, Mutations
  <2> QED
      BY <2>1, <2>2
<1>3. CASE \E r \in Rec : StartReview(s, r) \/ StartRemove(s, r)
  <2> PICK r \in Rec : StartReview(s, r) \/ StartRemove(s, r)
      BY <1>3
  <2>1. LiveRow(r)
      BY DEF StartReview, StartRemove, Removable, LiveRow
  <2>2. row[r].span \in Span
      BY <2>1 DEF TypeInv, RowsOK
  <2> QED
      BY <2>2, BeginTyped DEF StartReview, StartRemove, Mutations
<1>4. CASE Select(s)
  <2> DEFINE x == [tx[s] EXCEPT !.pc = "lock",
                                !.todo = Matching(tx[s].cur),
                                !.saw = @ \cup ({tx[s].cur} \X Covering(tx[s].cur))]
  <2>1. tx' = [tx EXCEPT ![s] = x]
      BY <1>4 DEF Select
  <2>2. tx[s].op \in Mutations /\ MutationOK(tx[s])
      BY <1>1, <1>4 DEF TxFine, Select, Idle, FinalizationOK
  <2>3. tx[s].cur \in Span
      BY <2>2 DEF MutationOK
  <2>4. Covering(tx[s].cur) \subseteq Period /\ Matching(tx[s].cur) \subseteq Period
      BY DEF Covering, Matching
  <2>5. x \in Transaction
      BY <1>1, <2>3, <2>4 DEF TxFine, Transaction
  <2>6. TxFine(x)
    <3>1. MutationOK(x) /\ x.op = tx[s].op
        BY <1>1, <2>2 DEF MutationOK, TxFine, Transaction
    <3> QED
        BY <2>2, <2>5, <3>1 DEF TxFine
  <2> QED
      BY <1>4, <2>1, <2>6, TypedStep DEF Select
<1>5. CASE Cleared(s)
  <2> DEFINE x == IF tx[s].cur = tx[s].new
                  THEN [tx[s] EXCEPT !.pc = "write"]
                  ELSE [tx[s] EXCEPT !.pc = "select", !.cur = tx[s].new]
  <2>1. tx' = [tx EXCEPT ![s] = x]
      BY <1>5 DEF Cleared, TypeInv, TypeOK
  <2>2. tx[s].op \in Mutations /\ MutationOK(tx[s])
      BY <1>1, <1>5 DEF TxFine, Cleared, Idle, FinalizationOK
  <2>3. x \in Transaction
    <3>1. tx[s] \in Transaction /\ tx[s].new \in Span
        BY <1>1, <2>2 DEF TxFine, MutationOK
    <3>2. [tx[s] EXCEPT !.pc = "write"] \in Transaction
        BY <3>1 DEF Transaction
    <3>3. [tx[s] EXCEPT !.pc = "select", !.cur = tx[s].new] \in Transaction
        BY <3>1 DEF Transaction
    <3> QED
        BY <3>2, <3>3
  <2>4. TxFine(x)
    <3>1. MutationOK(x) /\ x.op = tx[s].op
        BY <1>1, <2>2 DEF MutationOK, TxFine, Transaction
    <3> QED
        BY <2>2, <2>3, <3>1 DEF TxFine
  <2> QED
      BY <1>5, <2>1, <2>4, TypedStep DEF Cleared
<1>6. CASE Refused(s)
    BY <1>6, IdleFine, TypedStep DEF Refused
<1>7. CASE \E p \in Period : LockNext(s, p)
  <2> PICK p \in Period : LockNext(s, p)
      BY <1>7
  <2> DEFINE h == IF LivePeriod(p) THEN tx[s].held \cup {p} ELSE tx[s].held
             x == [tx[s] EXCEPT !.todo = tx[s].todo \ {p}, !.held = h]
  <2>1. tx' = [tx EXCEPT ![s] = x]
      BY DEF LockNext
  <2>2. tx[s].op \in Mutations /\ MutationOK(tx[s])
      BY <1>1 DEF TxFine, LockNext, Idle, FinalizationOK
  <2>3. x \in Transaction
    <3>1. tx[s] \in Transaction
        BY <1>1 DEF TxFine
    <3>2. /\ tx[s].todo \ {p} \in SUBSET Period
          /\ h \in SUBSET Period
        BY <3>1 DEF Transaction
    <3>3. \A g \in SUBSET Period :
              [tx[s] EXCEPT !.todo = tx[s].todo \ {p}, !.held = g] \in Transaction
        BY <3>1, <3>2 DEF Transaction
    <3> QED
        BY <3>2, <3>3
  <2>4. TxFine(x)
    <3>1. MutationOK(x) /\ x.op = tx[s].op
        BY <1>1, <2>2 DEF MutationOK, TxFine, Transaction
    <3> QED
        BY <2>2, <2>3, <3>1 DEF TxFine
  <2> QED
      BY <2>1, <2>4, TypedStep DEF LockNext
<1>8. CASE File(s) \/ Review(s) \/ Move(s) \/ Remove(s)
  <2>1. tx[s].op \in Mutations /\ MutationOK(tx[s])
      BY <1>1, <1>8 DEF TxFine, File, Review, Move, Remove, Idle
  <2> DEFINE r == tx[s].rec
  <2>2. r \in Rec /\ tx[s].new \in Span
      BY <2>1 DEF MutationOK
  <2>3. \E new \in SourceRow : /\ Commit(s, r, new)
                               /\ new.status \notin {"none", "gone"} => new.span \in Span
    <3>1. CASE File(s)
        BY <3>1, <2>2 DEF File, SourceRow, RowStatus
    <3>2. CASE Review(s)
      <4>1. row[r] \in SourceRow /\ row[r].span \in Span
          BY <3>2, <2>2 DEF Review, TypeInv, TypeOK, RowsOK, LiveRow
      <4>2. PICK status \in {"APPROVED", "REJECTED"} :
                    Commit(s, r, [row[r] EXCEPT !.status = status])
          BY <3>2 DEF Review
      <4> QED
          BY <4>1, <4>2 DEF SourceRow, RowStatus
    <3>3. CASE Move(s)
      <4>1. row[r] \in SourceRow
          BY <2>2 DEF TypeInv, TypeOK
      <4> QED
          BY <4>1, <3>3, <2>2 DEF Move, SourceRow, RowStatus
    <3>4. CASE Remove(s)
        BY <3>4 DEF Remove, SourceRow, RowStatus
    <3> QED
        BY <1>8, <3>1, <3>2, <3>3, <3>4
  <2> PICK new \in SourceRow : /\ Commit(s, r, new)
                               /\ new.status \notin {"none", "gone"} => new.span \in Span
      BY <2>3
  <2>4. row' = [row EXCEPT ![r] = new] /\ tx' = [tx EXCEPT ![s] = Idle]
        /\ UNCHANGED <<period, slips>>
      BY DEF Commit
  <2>5. row' \in [Rec -> SourceRow]
      BY <2>2, <2>4 DEF TypeInv, TypeOK
  <2>6. RowsOK'
      BY <2>2, <2>4 DEF TypeInv, TypeOK, RowsOK, LiveRow, LivePeriod
  <2> QED
      BY <2>4, <2>5, <2>6, IdleFine, OneChanges DEF TypeInv, TypeOK
<1>9. CASE LostRace(s)
    BY <1>9, IdleFine, TypedStep DEF LostRace
<1> QED
    BY <1>2, <1>3, <1>4, <1>5, <1>6, <1>7, <1>8, <1>9 DEF Mutation

\* So does each statement of finalizePeriod; its commit needs the draft it has locked.
LEMMA FinalizationTyped ==
    ASSUME TypeInv, LockInv, NEW s \in Session, Finalization(s), ask' \in [Session -> Ask]
    PROVE  TypeInv'
<1> USE NoneAssumption
<1>1. TxFine(tx[s]) /\ tx[s] \in Transaction
    BY DEF TypeInv, TxOK, TypeOK
<1>2. CASE \E p \in Period : StartFinalize(s, p)
  <2> PICK p \in Period : StartFinalize(s, p)
      BY <1>2
  <2> DEFINE x == [Idle EXCEPT !.op = "finalize", !.pc = "read", !.per = p,
                               !.cur = period[p].span, !.rate = period[p].rate]
  <2>1. period[p].span \in Span /\ period[p].rate \in Rate
      BY DEF StartFinalize, TypeInv, RowsOK, LivePeriod
  <2>2. x \in Transaction
      BY <2>1 DEF Idle, Transaction, Entries
  <2>3. FinalizationOK(x) /\ x.op = "finalize"
      BY <2>1 DEF Idle, FinalizationOK
  <2> QED
      BY <2>2, <2>3, TypedStep DEF StartFinalize, TxFine
<1>3. CASE \E k \in Kind : ReadTable(s, k)
  <2> PICK k \in Kind : ReadTable(s, k)
      BY <1>3
  <2>1. tx[s].op = "finalize" /\ FinalizationOK(tx[s])
      BY <1>1 DEF TxFine, ReadTable, Idle, MutationOK
  <2> DEFINE d == Due(tx[s].cur, k)
             next == IF tx[s].read \cup {k} = Kind THEN "insert" ELSE "read"
             x == [tx[s] EXCEPT !.read = tx[s].read \cup {k},
                                !.entries = tx[s].entries \cup d,
                                !.pc = next]
  <2>2. d \in Entries
    <3>1. \A r \in Rec : row[r].status \in {"APPROVED", "RECORDED"} => row[r].span \in Span
        BY DEF TypeInv, RowsOK, LiveRow
    <3> QED
        BY <3>1 DEF Due, Entries
  <2>3. x \in Transaction
    <3>1. next \in {"insert", "read"}
        OBVIOUS
    <3>2. tx[s].read \cup {k} \in SUBSET Kind /\ tx[s].entries \cup d \in Entries
        BY <1>1, <2>2 DEF Transaction, Entries
    <3> HIDE DEF next, d
    <3> QED
        BY <1>1, <3>1, <3>2 DEF Transaction
  <2>4. FinalizationOK(x) /\ x.op = "finalize"
    <3>1. next \in {"insert", "read"}
        OBVIOUS
    <3> HIDE DEF next, d
    <3> QED
        BY <1>1, <2>1, <3>1 DEF FinalizationOK, Transaction
  <2>5. tx' = [tx EXCEPT ![s] = x]
      BY DEF ReadTable
  <2> QED
      BY <2>3, <2>4, <2>5, TypedStep DEF ReadTable, TxFine
<1>4. CASE \E e \in Employee : InsertSlip(s, e)
  <2> PICK e \in Employee : InsertSlip(s, e)
      BY <1>4
  <2> DEFINE x == [tx[s] EXCEPT !.paid = tx[s].paid \cup {e}]
  <2>1. tx[s].op = "finalize" /\ FinalizationOK(tx[s])
      BY <1>1 DEF TxFine, InsertSlip, Idle, MutationOK
  <2>2. x \in Transaction
      BY <1>1 DEF Transaction
  <2>3. FinalizationOK(x) /\ x.op = "finalize"
      BY <1>1, <2>1 DEF FinalizationOK, Transaction
  <2> QED
      BY <2>2, <2>3, TypedStep DEF InsertSlip, TxFine
<1>5. CASE CommitFinalize(s)
  <2> DEFINE p == tx[s].per
  <2>1. FinalizationOK(tx[s])
      BY <1>1, <1>5 DEF TxFine, CommitFinalize, Idle, MutationOK
  <2>2. p \in Period /\ tx[s].cur \in Span /\ tx[s].rate \in Rate /\ tx[s].entries \in Entries
      BY <1>1, <2>1 DEF FinalizationOK, Transaction
  <2>3. slips' \in [Period -> Statement \cup {None}]
      BY <1>5, <2>2 DEF CommitFinalize, TypeInv, TypeOK, Statement
  <2>4. period' \in [Period -> PeriodRow]
      BY <1>5, <2>2 DEF CommitFinalize, TypeInv, TypeOK, PeriodRow, PeriodStatus
  <2>5. \A q \in Period : LivePeriod(q)' =>
            period'[q].span \in Span /\ period'[q].rate \in Rate
    <3>1. tx[s].op = "finalize"
        BY <1>1, <1>5 DEF TxFine, CommitFinalize, Idle, MutationOK
    <3>2. period[p] = [status |-> "DRAFT", span |-> tx[s].cur, rate |-> tx[s].rate]
        BY <3>1 DEF LockInv, FinalizersAlone
    <3>3. period[p].span \in Span /\ period[p].rate \in Rate
        BY <2>2, <3>2
    <3> QED
        BY <1>5, <2>2, <3>3 DEF CommitFinalize, TypeInv, TypeOK, RowsOK, LivePeriod, PeriodRow
  <2>6. RowsOK'
      BY <1>5, <2>5 DEF CommitFinalize, TypeInv, RowsOK, LiveRow
  <2> QED
      BY <1>5, <2>3, <2>4, <2>6, IdleFine, OneChanges DEF CommitFinalize, TypeInv, TypeOK
<1> QED
    BY <1>2, <1>3, <1>4, <1>5 DEF Finalization

\* Planning, rollbacks and requests.
LEMMA OthersTyped ==
    ASSUME TypeInv, ask' \in [Session -> Ask],
           \/ \E s \in Session : DeadlockAbort(s) \/ Rollback(s)
           \/ \E s \in Session, p \in Period : Planned(s, p)
           \/ Quiet
    PROVE  TypeInv'
<1> USE NoneAssumption
<1>1. CASE \E s \in Session : DeadlockAbort(s) \/ Rollback(s)
    BY <1>1, IdleFine, TypedStep DEF DeadlockAbort, Rollback
<1>2. CASE \E s \in Session, p \in Period : Planned(s, p)
  <2> PICK s \in Session, p \in Period : Planned(s, p)
      BY <1>2
  <2>1. UNCHANGED <<slips, row, tx>>
      BY DEF Planned, CreatePeriod, PatchPeriod, DeletePeriod
  <2>2. \E new \in PeriodRow :
            /\ period' = [period EXCEPT ![p] = new]
            /\ new.status \in {"DRAFT", "FINALIZED"} =>
                  \/ new.span \in Span /\ new.rate \in Rate
                  \/ new.span = period[p].span /\ new.rate \in Rate
                     /\ new.status = period[p].status
    <3>1. ASSUME NEW sp \in Span, NEW rt \in Rate, CreatePeriod(s, p, sp, rt)
          PROVE  \E new \in PeriodRow : /\ period' = [period EXCEPT ![p] = new]
                                         /\ new.span \in Span /\ new.rate \in Rate
      <4> DEFINE new == [status |-> "DRAFT", span |-> sp, rate |-> rt]
      <4>1. new \in PeriodRow /\ new.span = sp /\ new.rate = rt
          BY DEF PeriodRow, PeriodStatus
      <4>2. period' = [period EXCEPT ![p] = new]
          BY <3>1 DEF CreatePeriod
      <4> HIDE DEF new
      <4> QED
          BY <4>1, <4>2
    <3>2. ASSUME NEW sp \in Span \cup {None}, NEW rt \in Rate, PatchPeriod(s, p, sp, rt)
          PROVE  \E new \in PeriodRow :
                    /\ period' = [period EXCEPT ![p] = new]
                    /\ new.rate \in Rate /\ new.status = period[p].status
                    /\ new.span \in Span \/ new.span = period[p].span
      <4> DEFINE range == IF sp = None THEN period[p].span ELSE sp
                 new == [period[p] EXCEPT !.span = range, !.rate = rt]
      <4>1. period[p] \in PeriodRow /\ range \in Span \cup {None}
          BY DEF PeriodRow, TypeInv, TypeOK
      <4>2. new \in PeriodRow /\ new.span = range /\ new.rate = rt
            /\ new.status = period[p].status
        <5> HIDE DEF range
        <5> QED
            BY <4>1 DEF PeriodRow
      <4>3. period' = [period EXCEPT ![p] = new]
          BY <3>2 DEF PatchPeriod
      <4>4. range \in Span \/ range = period[p].span
          OBVIOUS
      <4> HIDE DEF new, range
      <4> QED
          BY <4>2, <4>3, <4>4
    <3>3. ASSUME DeletePeriod(s, p)
          PROVE  \E new \in PeriodRow : /\ period' = [period EXCEPT ![p] = new]
                                         /\ new.status = "gone"
      <4> DEFINE new == [status |-> "gone", span |-> None, rate |-> None]
      <4>1. new \in PeriodRow /\ new.status = "gone"
          BY DEF PeriodRow, PeriodStatus
      <4>2. period' = [period EXCEPT ![p] = new]
          BY <3>3 DEF DeletePeriod
      <4> HIDE DEF new
      <4> QED
          BY <4>1, <4>2
    <3> QED
        BY <3>1, <3>2, <3>3 DEF Planned
  <2> QED
      BY <2>1, <2>2 DEF TypeInv, TypeOK, TxOK, RowsOK, LivePeriod, LiveRow
<1>3. CASE Quiet
    BY <1>3 DEF Quiet, TypeInv, TypeOK, TxOK, RowsOK, LivePeriod, LiveRow
<1> QED
    BY <1>1, <1>2, <1>3

\* Types are kept by every step.
LEMMA NextTyped == TypeInv /\ LockInv /\ [Next]_vars => TypeInv'
BY AskTyped, PlanningSteps, MutationTyped, FinalizationTyped, OthersTyped

-----------------------------------------------------------------------------
\* A step of s that takes no period lock keeps the locks exclusive.
LEMMA NoNewLock ==
    ASSUME TypeInv, LockInv, NEW s \in Session, NEW x,
           tx' = [tx EXCEPT ![s] = x], UNCHANGED period,
           x.held \subseteq tx[s].held,
           x.op = "finalize" => /\ tx[s].op = "finalize" /\ x.per = tx[s].per
                                /\ x.cur = tx[s].cur /\ x.rate = tx[s].rate
    PROVE  FinalizersAlone' /\ PatchedLeft
<1>1. \A t \in Session : tx'[t] = IF t = s THEN x ELSE tx[t]
    BY DEF TypeInv, TypeOK
<1> QED
    BY <1>1 DEF LockInv, FinalizersAlone, PatchedLeft, Finalizing, Sharing

\* So does the end of a transaction that leaves the periods alone.
LEMMA EndLocks ==
    ASSUME TypeInv, LockInv, NEW s \in Session,
           tx' = [tx EXCEPT ![s] = Idle], UNCHANGED period
    PROVE  FinalizersAlone' /\ PatchedLeft
BY NoNewLock DEF Idle

\* LockNext alone takes a period lock, and only one that no finalization holds.
LEMMA MutationLocks ==
    ASSUME TypeInv, LockInv, NEW s \in Session, Mutation(s)
    PROVE  FinalizersAlone' /\ PatchedLeft
<1>1. TxFine(tx[s]) /\ tx[s] \in Transaction
    BY DEF TypeInv, TxOK, TypeOK
<1>2. UNCHANGED period
    BY DEF Mutation, StartFile, StartMove, StartReview, StartRemove, Select, LockNext,
           Cleared, Refused, File, Review, Move, Remove, LostRace, Commit
<1>3. CASE \E op \in Mutations, r \in Rec, sp, sq \in Span \cup {None} : Begin(s, op, r, sp, sq)
  <2> PICK op \in Mutations, r \in Rec, sp \in Span \cup {None}, sq \in Span \cup {None} :
              Begin(s, op, r, sp, sq)
      BY <1>3
  <2> DEFINE x == [Idle EXCEPT !.op = op, !.pc = "select", !.rec = r,
                               !.old = sp, !.new = sq, !.cur = sp]
  <2>1. x.held = {} /\ x.op # "finalize"
      BY DEF Idle, Mutations
  <2> QED
      BY <1>2, <2>1, NoNewLock DEF Begin
<1>4. CASE \/ \E r \in Rec, sp \in Span : StartFile(s, r, sp) \/ StartMove(s, r, sp)
           \/ \E r \in Rec : StartReview(s, r) \/ StartRemove(s, r)
  <2>1. \A r \in Rec : row[r].span \in Span \cup {None}
      BY DEF TypeInv, TypeOK, SourceRow
  <2> QED
      BY <1>3, <1>4, <2>1 DEF StartFile, StartMove, StartReview, StartRemove, Mutations
<1>5. CASE Select(s)
  <2> DEFINE x == [tx[s] EXCEPT !.pc = "lock",
                                !.todo = Matching(tx[s].cur),
                                !.saw = @ \cup ({tx[s].cur} \X Covering(tx[s].cur))]
  <2>1. /\ x.held = tx[s].held /\ x.op = tx[s].op
        /\ x.per = tx[s].per /\ x.cur = tx[s].cur /\ x.rate = tx[s].rate
      BY <1>1 DEF Transaction
  <2>2. tx' = [tx EXCEPT ![s] = x]
      BY <1>5 DEF Select
  <2> QED
      BY <1>2, <2>1, <2>2, NoNewLock
<1>6. CASE Cleared(s)
  <2> DEFINE x == IF tx[s].cur = tx[s].new
                  THEN [tx[s] EXCEPT !.pc = "write"]
                  ELSE [tx[s] EXCEPT !.pc = "select", !.cur = tx[s].new]
  <2>1. tx' = [tx EXCEPT ![s] = x]
      BY <1>6 DEF Cleared, TypeInv, TypeOK
  <2>2. tx[s].op # "finalize"
      BY <1>1, <1>6 DEF TxFine, Cleared, Idle, FinalizationOK, Mutations
  <2>3. x.held = tx[s].held /\ x.op = tx[s].op
      BY <1>1 DEF Transaction
  <2> QED
      BY <1>2, <2>1, <2>2, <2>3, NoNewLock
<1>7. CASE \E p \in Period : LockNext(s, p)
  <2> PICK p \in Period : LockNext(s, p)
      BY <1>7
  <2>1. tx[s].op # "finalize"
      BY <1>1 DEF TxFine, LockNext, Idle, FinalizationOK, Mutations
  <2>2. \A t \in Session \ {s} : tx'[t] = tx[t]
      BY DEF LockNext, TypeInv, TypeOK
  <2>3. tx'[s].op = tx[s].op /\ tx'[s].held \subseteq tx[s].held \cup {p}
      BY <1>1 DEF LockNext, TypeInv, TypeOK, Transaction
  <2>4. \A t \in Session \ {s} : tx[t].op = "finalize" => tx[t].per # p
      BY DEF LockNext, CanShare, Finalizing
  <2>5. FinalizersAlone'
      BY <1>2, <2>1, <2>2, <2>3, <2>4 DEF LockInv, FinalizersAlone
  <2>6. Patching(p) = {}
      BY DEF LockNext, CanShare
  <2>7. \A q \in Period \ {p} : Sharing(q)' \subseteq Sharing(q)
      BY <2>2, <2>3 DEF Sharing
  <2>8. \A q \in Period : Finalizing(q)' \subseteq Finalizing(q)
      BY <2>1, <2>2, <2>3 DEF Finalizing
  <2> QED
      BY <1>2, <2>5, <2>6, <2>7, <2>8 DEF PatchedLeft
<1>8. CASE Refused(s) \/ File(s) \/ Review(s) \/ Move(s) \/ Remove(s) \/ LostRace(s)
    BY <1>2, <1>8, EndLocks DEF Refused, File, Review, Move, Remove, LostRace, Commit
<1> QED
    BY <1>4, <1>5, <1>6, <1>7, <1>8 DEF Mutation

\* StartFinalize takes the lock when nobody has it, and CommitFinalize gives it up.
LEMMA FinalizationLocks ==
    ASSUME TypeInv, LockInv, NEW s \in Session, Finalization(s)
    PROVE  FinalizersAlone' /\ PatchedLeft
<1>1. TxFine(tx[s]) /\ tx[s] \in Transaction
    BY DEF TypeInv, TxOK, TypeOK
<1>2. CASE \E p \in Period : StartFinalize(s, p)
  <2> PICK p \in Period : StartFinalize(s, p)
      BY <1>2
  <2>1. \A t \in Session \ {s} : tx'[t] = tx[t]
      BY DEF StartFinalize, TypeInv, TypeOK
  <2>2. /\ tx'[s].op = "finalize" /\ tx'[s].per = p /\ tx'[s].held = {}
        /\ tx'[s].cur = period[p].span /\ tx'[s].rate = period[p].rate
      BY DEF StartFinalize, TypeInv, TypeOK, Idle
  <2>3. \A t \in Session : /\ p \notin tx[t].held
                           /\ tx[t].op = "finalize" => tx[t].per # p
      BY DEF StartFinalize, CanUpdate, Finalizing, Sharing
  <2>4. period[p] = [status |-> "DRAFT", span |-> period[p].span, rate |-> period[p].rate]
      BY DEF StartFinalize, TypeInv, TypeOK, PeriodRow
  <2> QED
      BY <2>1, <2>2, <2>3, <2>4
         DEF StartFinalize, LockInv, FinalizersAlone, PatchedLeft, CanUpdate, Finalizing, Sharing
<1>3. CASE (\E k \in Kind : ReadTable(s, k)) \/ (\E e \in Employee : InsertSlip(s, e))
  <2>1. \E pc, read, entries, paid :
           tx' = [tx EXCEPT ![s] = [tx[s] EXCEPT !.pc = pc, !.read = read,
                                                 !.entries = entries, !.paid = paid]]
    <3>1. CASE \E k \in Kind : ReadTable(s, k)
      <4> PICK k \in Kind : ReadTable(s, k)
          BY <3>1
      <4> DEFINE x == [tx[s] EXCEPT
                         !.pc = IF tx[s].read \cup {k} = Kind THEN "insert" ELSE "read",
                         !.read = tx[s].read \cup {k},
                         !.entries = tx[s].entries \cup Due(tx[s].cur, k),
                         !.paid = tx[s].paid]
      <4>1. tx' = [tx EXCEPT ![s] = x]
          BY <1>1 DEF ReadTable, TypeInv, TypeOK, Transaction
      <4> QED
          BY <4>1
    <3>2. CASE \E e \in Employee : InsertSlip(s, e)
      <4> PICK e \in Employee : InsertSlip(s, e)
          BY <3>2
      <4> DEFINE x == [tx[s] EXCEPT !.pc = tx[s].pc, !.read = tx[s].read,
                                    !.entries = tx[s].entries, !.paid = tx[s].paid \cup {e}]
      <4>1. tx' = [tx EXCEPT ![s] = x]
          BY <1>1 DEF InsertSlip, TypeInv, TypeOK, Transaction
      <4> QED
          BY <4>1
    <3> QED
        BY <1>3, <3>1, <3>2
  <2>2. PICK pc, read, entries, paid :
           tx' = [tx EXCEPT ![s] = [tx[s] EXCEPT !.pc = pc, !.read = read,
                                                 !.entries = entries, !.paid = paid]]
      BY <2>1
  <2> DEFINE x == [tx[s] EXCEPT !.pc = pc, !.read = read,
                                !.entries = entries, !.paid = paid]
  <2>3. /\ x.held = tx[s].held /\ x.op = tx[s].op
        /\ x.per = tx[s].per /\ x.cur = tx[s].cur /\ x.rate = tx[s].rate
      BY <1>1 DEF Transaction
  <2>4. UNCHANGED period
      BY <1>3 DEF ReadTable, InsertSlip
  <2> QED
      BY <2>2, <2>3, <2>4, NoNewLock
<1>4. CASE CommitFinalize(s)
  <2> DEFINE p == tx[s].per
  <2>1. tx[s].op = "finalize"
      BY <1>1, <1>4 DEF TxFine, CommitFinalize, Idle, MutationOK
  <2>2. \A t \in Session : tx'[t] = IF t = s THEN Idle ELSE tx[t]
      BY <1>4 DEF CommitFinalize, TypeInv, TypeOK
  <2>3. \A q \in Period \ {p} : period'[q] = period[q]
      BY <1>4 DEF CommitFinalize, TypeInv, TypeOK
  <2>4. \A t \in Session \ {s} : tx[t].op = "finalize" => tx[t].per \in Period \ {p}
      BY <2>1 DEF LockInv, FinalizersAlone, TypeInv, TxOK, TxFine, FinalizationOK, Mutations, Idle
  <2>5. Patching(p) = {}
    <3>1. s \in Finalizing(p) /\ p \in Period
        BY <2>1 DEF Finalizing, TypeInv, TxOK, TxFine, FinalizationOK, Mutations, Idle
    <3> QED
        BY <3>1, NoneAssumption DEF LockInv, PlansHeld, Patching
  <2> QED
      BY <2>1, <2>2, <2>3, <2>4, <2>5
         DEF LockInv, FinalizersAlone, Idle, PatchedLeft, Finalizing, Sharing
<1> QED
    BY <1>2, <1>3, <1>4 DEF Finalization

\* PATCH and DELETE of a period wait for whoever holds its row.
LEMMA PlannedRow ==
    ASSUME TypeInv, LockInv, NEW s \in Session, NEW p \in Period, Planned(s, p)
    PROVE  /\ UNCHANGED <<slips, row, tx>> /\ Done(s)
           /\ \A q \in Period \ {p} : period'[q] = period[q]
           /\ Finalizing(p) = {}
           /\ \/ period[p].status = "none"
              \/ period[p].status = "DRAFT" /\ Sharing(p) = {}
<1> USE NoneAssumption
<1>1. UNCHANGED <<slips, row, tx>> /\ Done(s) /\ \A q \in Period \ {p} : period'[q] = period[q]
    BY DEF Planned, CreatePeriod, PatchPeriod, DeletePeriod, TypeInv, TypeOK
<1>2. ASSUME NEW sp, NEW rt, CreatePeriod(s, p, sp, rt)
      PROVE  period[p].status = "none" /\ Finalizing(p) = {}
  <2>1. period[p].status = "none"
      BY <1>2 DEF CreatePeriod
  <2>2. \A t \in Session : tx[t].op = "finalize" => period[tx[t].per].status = "DRAFT"
    <3> SUFFICES ASSUME NEW t \in Session, tx[t].op = "finalize"
                 PROVE  period[tx[t].per].status = "DRAFT"
        OBVIOUS
    <3>1. period[tx[t].per] = [status |-> "DRAFT", span |-> tx[t].cur, rate |-> tx[t].rate]
        BY DEF LockInv, FinalizersAlone
    <3> QED
        BY <3>1
  <2> QED
      BY <2>1, <2>2 DEF Finalizing
<1>3. ASSUME NEW sp, NEW rt, PatchPeriod(s, p, sp, rt)
      PROVE  period[p].status = "DRAFT" /\ Finalizing(p) = {} /\ Sharing(p) = {}
  <2>1. ask[s].step = "write" /\ ask[s].per = p
      BY <1>3 DEF PatchPeriod, Plan
  <2> QED
      BY <2>1 DEF LockInv, PlansHeld
<1>4. ASSUME DeletePeriod(s, p)
      PROVE  period[p].status = "DRAFT" /\ Finalizing(p) = {} /\ Sharing(p) = {}
    BY <1>4 DEF DeletePeriod, CanUpdate
<1> QED
    BY <1>1, <1>2, <1>3, <1>4 DEF Planned

\* Planning, rollbacks and requests take no row from a finalization.
LEMMA OthersLocks ==
    ASSUME TypeInv, LockInv,
           \/ \E s \in Session : DeadlockAbort(s) \/ Rollback(s)
           \/ \E s \in Session, p \in Period : Planned(s, p)
           \/ Quiet
    PROVE  FinalizersAlone' /\ PatchedLeft
<1>1. CASE \E s \in Session : DeadlockAbort(s) \/ Rollback(s)
    BY <1>1, EndLocks DEF DeadlockAbort, Rollback
<1>2. CASE Quiet
    BY <1>2 DEF Quiet, LockInv, FinalizersAlone, PatchedLeft, Finalizing, Sharing
<1>3. CASE \E s \in Session, p \in Period : Planned(s, p)
  <2> PICK s \in Session, p \in Period : Planned(s, p)
      BY <1>3
  <2>1. UNCHANGED tx /\ \A q \in Period \ {p} : period'[q] = period[q]
      BY PlannedRow
  <2>2. \A t \in Session : tx[t].op = "finalize" => tx[t].per \in Period \ {p}
    <3>1. \A t \in Session : tx[t].op = "finalize" => tx[t].per \in Period
        BY DEF TypeInv, TxOK, TxFine, FinalizationOK, Mutations, Idle
    <3> QED
        BY <3>1, PlannedRow DEF Finalizing
  <2>3. Patching(p) # {} => period'[p].status = period[p].status
    <3> SUFFICES ASSUME NEW t \in Patching(p)
                 PROVE  period'[p].status = period[p].status
        OBVIOUS
    <3>1. period[p].status = "DRAFT"
        BY NoneAssumption DEF LockInv, PlansHeld, Patching
    <3>2. \A sp, rt : ~CreatePeriod(s, p, sp, rt)
        BY <3>1 DEF CreatePeriod
    <3>3. ~DeletePeriod(s, p)
        BY DEF DeletePeriod, CanUpdate
    <3>4. period[p] \in PeriodRow /\ period \in [Period -> PeriodRow]
        BY DEF TypeInv, TypeOK
    <3>5. \A sp, rt : PatchPeriod(s, p, sp, rt) => period'[p].status = period[p].status
        BY <3>4 DEF PatchPeriod, PeriodRow
    <3> QED
        BY <3>2, <3>3, <3>5 DEF Planned
  <2> QED
      BY <2>1, <2>2, <2>3 DEF LockInv, FinalizersAlone, PatchedLeft, Finalizing, Sharing
<1> QED
    BY <1>1, <1>2, <1>3

-----------------------------------------------------------------------------
\* A request becomes a plan only when it is checked, and a PATCH then has its row.
LEMMA OnlyChecked ==
    ASSUME TypeInv, [Next]_vars, NEW t \in Session, NEW p \in Period, ask'[t] # ask[t],
           ask'[t].step = "write", ask'[t].per = p
    PROVE  Quiet /\ CanUpdate(p) /\ period[p].status = "DRAFT"
<1> USE NoneAssumption
<1>1. ask \in [Session -> Ask]
    BY DEF TypeInv, TypeOK
<1>2. ASSUME NEW s \in Session, NEW x, ask' = [ask EXCEPT ![s] = x],
             x.step = "wait" \/ x.per = None
      PROVE  FALSE
    BY <1>1, <1>2
<1>3. ASSUME NEW s \in Session, UNCHANGED ask \/ Done(s) PROVE FALSE
  <2>1. ~UNCHANGED ask
      OBVIOUS
  <2> QED
      BY <1>2, <1>3, <2>1 DEF Done, NoAsk
<1>4. ASSUME NEW s \in Session, NEW x, x.step = "wait", Asks(s, x) PROVE FALSE
    BY <1>2, <1>4 DEF Asks
<1>5. /\ \A op, r, sp : OfRecord(op, r, sp).step = "wait"
      /\ \A op, q : OfPeriod(op, q).step = "wait"
      /\ \A op, q, sp, rt : Plan(op, "wait", q, sp, rt).step = "wait"
    BY DEF OfRecord, OfPeriod, Plan, NoAsk
<1>6. ASSUME NEW s \in Session, Asking(s) PROVE FALSE
    BY <1>4, <1>5, <1>6 DEF Asking, AskLeave, AskMove, AskRemove, AskPeriod, AskPatch
<1>7. ASSUME NEW s \in Session,
             Mutation(s) \/ Finalization(s) \/ TurnedAway(s) \/ DeadlockAbort(s) \/ Rollback(s)
      PROVE  FALSE
  <2>1. UNCHANGED ask \/ Done(s)
      BY <1>7 DEF Mutation, StartFile, StartMove, StartReview, StartRemove, Arrives, Select,
           LockNext, Cleared, Refused, File, Review, Move, Remove, LostRace, Commit,
           Finalization, StartFinalize, ReadTable, InsertSlip, CommitFinalize, TurnedAway,
           DeadlockAbort, Rollback, Done
  <2> QED
      BY <1>3, <2>1
<1>8. ASSUME NEW s \in Session, NEW sp, NEW rt, CheckCreate(s, sp, rt) PROVE FALSE
  <2>1. Plan("create", "write", None, sp, rt).per = None
      BY DEF Plan
  <2> QED
      BY <1>2, <1>8, <2>1 DEF CheckCreate
<1>9. ASSUME NEW s \in Session, NEW q, NEW sp, NEW rt,
             \/ CreatePeriod(s, q, sp, rt) \/ PatchPeriod(s, q, sp, rt)
             \/ DeletePeriod(s, q) \/ AskPatch(s, q, sp, rt)
      PROVE  FALSE
    BY <1>3, <1>4, <1>5, <1>9 DEF CreatePeriod, PatchPeriod, DeletePeriod, AskPatch
<1>10. ~UNCHANGED vars
    BY DEF vars
<1>11. PICK s \in Session : Editing(s) \/ Replan(s)
    BY <1>6, <1>7, <1>10 DEF Next, SteadyNext
<1>12. PICK q \in Period : \E sp, rt : CheckPatch(s, q, sp, rt)
    BY <1>8, <1>9, <1>11 DEF Editing, Replan
<1>13. ask[s].per = q /\ ask' = [ask EXCEPT ![s].step = "write"]
    BY <1>12 DEF CheckPatch, Plan
<1>14. q = p
    BY <1>1, <1>13 DEF Ask
<1> QED
    BY <1>12, <1>14 DEF CheckPatch, Quiet

\* Checked plans stay true: whoever would take their rows waits.
LEMMA PlansStay ==
    ASSUME TypeInv, LockInv, [Next]_vars, PatchedLeft
    PROVE  PlansHeld'
<1>1. ASSUME NEW s \in Session, NEW p \in Period, ask'[s].step = "write", ask'[s].per = p
      PROVE  period'[p].status = "DRAFT" /\ Finalizing(p)' = {} /\ Sharing(p)' = {}
  <2>1. CASE ask'[s] = ask[s]
    <3>1. Patching(p) # {}
        BY <1>1, <2>1 DEF Patching
    <3>2. period[p].status = "DRAFT" /\ Finalizing(p) = {} /\ Sharing(p) = {}
        BY <1>1, <2>1, NoneAssumption DEF LockInv, PlansHeld
    <3> QED
        BY <3>1, <3>2 DEF PatchedLeft
  <2>2. CASE ask'[s] # ask[s]
    <3>1. Quiet /\ CanUpdate(p) /\ period[p].status = "DRAFT"
        BY <1>1, <2>2, OnlyChecked
    <3> QED
        BY <3>1 DEF CanUpdate, Finalizing, Sharing, Quiet
  <2> QED
      BY <2>1, <2>2
<1>2. \A s \in Session : ask'[s].per # None => ask'[s].per \in Period
    BY AskTyped DEF Ask
<1> QED
    BY <1>1, <1>2 DEF PlansHeld, Finalizing, Sharing

\* Row locks stay exclusive in every step.
LEMMA NextLocks == TypeInv /\ LockInv /\ [Next]_vars => LockInv'
BY PlanningSteps, MutationLocks, FinalizationLocks, OthersLocks, PlansStay DEF LockInv

\* Every reachable state is well typed, and a finalization holds its draft alone.
THEOREM TypeCorrect == Spec => [](TypeInv /\ LockInv)
<1>1. Init => TypeInv /\ LockInv
    BY InitTypeInv DEF Init, LockInv, FinalizersAlone, PlansHeld, Idle, NoAsk
<1>2. TypeInv /\ LockInv /\ [Next]_vars => (TypeInv /\ LockInv)'
    BY NextTyped, NextLocks
<1> QED
    BY <1>1, <1>2, PTL DEF Spec

\* Every reachable state has its type: rows that exist have a proper range, and
\* an open transaction has the fields its statement needs.
THEOREM TypesHold == Spec => []TypeOK
<1>1. TypeInv => TypeOK
    BY DEF TypeInv
<1> QED
    BY <1>1, TypeCorrect, PTL

-----------------------------------------------------------------------------
\* Only planning can change which ranges the live periods have.
LEMMA SpansKept ==
    ASSUME TypeInv, LockInv, NEW s \in Session,
           Mutation(s) \/ Finalization(s) \/ DeadlockAbort(s) \/ Rollback(s)
    PROVE  \A q \in Period : LivePeriod(q)' = LivePeriod(q) /\ period'[q].span = period[q].span
<1>1. CASE Mutation(s) \/ DeadlockAbort(s) \/ Rollback(s)
  <2>1. UNCHANGED period
      BY <1>1 DEF Mutation, StartFile, StartMove, StartReview, StartRemove, Select, LockNext,
             Cleared, Refused, File, Review, Move, Remove, LostRace, Commit,
             DeadlockAbort, Rollback
  <2> QED
      BY <2>1 DEF LivePeriod
<1>2. CASE Finalization(s)
  <2>1. CASE CommitFinalize(s)
    <3> DEFINE p == tx[s].per
    <3>1. tx[s].op = "finalize" /\ p \in Period
        BY <2>1 DEF TypeInv, TxOK, TxFine, FinalizationOK, MutationOK, CommitFinalize, Idle
    <3>2. period[p] = [status |-> "DRAFT", span |-> tx[s].cur, rate |-> tx[s].rate]
        BY <3>1 DEF LockInv, FinalizersAlone
    <3>3. period[p].status = "DRAFT"
        BY <3>2
    <3>4. \A q \in Period \ {p} : period'[q] = period[q]
        BY <2>1 DEF CommitFinalize, TypeInv, TypeOK
    <3>5. period'[p].status = "FINALIZED" /\ period'[p].span = period[p].span
        BY <2>1, <3>1 DEF CommitFinalize, TypeInv, TypeOK, PeriodRow
    <3> QED
        BY <3>3, <3>4, <3>5 DEF LivePeriod
  <2>2. CASE ~CommitFinalize(s)
    <3>1. UNCHANGED period
        BY <1>2, <2>2 DEF Finalization, StartFinalize, ReadTable, InsertSlip
    <3> QED
        BY <3>1 DEF LivePeriod
  <2> QED
      BY <2>1, <2>2
<1> QED
    BY <1>1, <1>2

\* What a planning step does to the periods.
LEMMA Replanned ==
    ASSUME TypeInv, LockInv, NEW s \in Session, NEW p \in Period, Planned(s, p)
    PROVE  /\ UNCHANGED <<slips, tx>>
           /\ \A q \in Period \ {p} : period'[q] = period[q]
           /\ period[p].status \in {"none", "DRAFT"}
           /\ period'[p].status \in {"DRAFT", "gone"}
           /\ period'[p].status = "DRAFT" =>
                 \/ period[p].status = "DRAFT" /\ period'[p].span = period[p].span
                 \/ \A q \in Period \ {p} :
                       LivePeriod(q) => ~Overlaps(period[q].span, period'[p].span)
<1> USE NoneAssumption
<1>1. ASSUME NEW sp \in Span, NEW rt \in Rate, CreatePeriod(s, p, sp, rt)
      PROVE  period'[p].status = "DRAFT" /\ period'[p].span = sp /\ Fits(p, sp)
    BY <1>1 DEF CreatePeriod, TypeInv, TypeOK
<1>2. ASSUME NEW sp \in Span \cup {None}, NEW rt \in Rate, PatchPeriod(s, p, sp, rt)
      PROVE  /\ period[p].status = "DRAFT" /\ period'[p].status = "DRAFT" /\ Fits(p, sp)
             /\ period'[p].span = IF sp = None THEN period[p].span ELSE sp
  <2>1. ask[s].step = "write" /\ ask[s].per = p
      BY <1>2 DEF PatchPeriod, Plan
  <2>2. period[p].status = "DRAFT"
      BY <2>1 DEF LockInv, PlansHeld
  <2> QED
      BY <1>2, <2>2 DEF PatchPeriod, TypeInv, TypeOK, PeriodRow
<1>3. ASSUME DeletePeriod(s, p)
      PROVE  period[p].status = "DRAFT" /\ period'[p].status = "gone"
    BY <1>3 DEF DeletePeriod, TypeInv, TypeOK
<1>4. /\ UNCHANGED <<slips, tx>> /\ \A q \in Period \ {p} : period'[q] = period[q]
      /\ period[p].status \in {"none", "DRAFT"}
    BY PlannedRow
<1> QED
    BY <1>1, <1>2, <1>3, <1>4 DEF Planned, Fits

\* Two ranges meet whichever is named first.
LEMMA OverlapsSymmetric ==
    ASSUME NEW a, NEW b, Overlaps(a, b) PROVE Overlaps(b, a)
BY DEF Overlaps

\* However periods are planned, patched, finalized and deleted, the ranges of two
\* live periods never meet.
LEMMA PeriodsDisjoint == Spec => []Disjoint
<1>1. Init => Disjoint
    BY DEF Init
<1>2. ASSUME TypeInv, LockInv, Disjoint, [Next]_vars PROVE Disjoint'
  <2>1. CASE \E s \in Session : Mutation(s) \/ Finalization(s) \/ DeadlockAbort(s) \/ Rollback(s)
      BY <1>2, <2>1, SpansKept DEF Disjoint, Overlaps
  <2>2. CASE \E s \in Session, p \in Period : Planned(s, p)
    <3> PICK s \in Session, p \in Period : Planned(s, p)
        BY <2>2
    <3>1. /\ \A q \in Period \ {p} : period'[q] = period[q]
          /\ period'[p].status \in {"DRAFT", "gone"}
          /\ period'[p].status = "DRAFT" =>
                \/ period[p].status = "DRAFT" /\ period'[p].span = period[p].span
                \/ \A q \in Period \ {p} :
                      LivePeriod(q) => ~Overlaps(period[q].span, period'[p].span)
        BY <1>2, Replanned
    <3>2. \A q \in Period \ {p} :
              LivePeriod(p)' /\ LivePeriod(q)' => ~Overlaps(period'[q].span, period'[p].span)
        BY <1>2, <3>1 DEF LivePeriod, Disjoint
    <3>3. \A q \in Period \ {p} :
              LivePeriod(p)' /\ LivePeriod(q)' => ~Overlaps(period'[p].span, period'[q].span)
        BY <3>2, OverlapsSymmetric
    <3>4. \A q, u \in Period \ {p} :
              q # u /\ LivePeriod(q)' /\ LivePeriod(u)' => ~Overlaps(period'[q].span, period'[u].span)
        BY <1>2, <3>1 DEF LivePeriod, Disjoint
    <3> QED
        BY <3>2, <3>3, <3>4 DEF Disjoint, Overlaps
  <2>3. CASE Quiet
      BY <1>2, <2>3 DEF Quiet, Disjoint, LivePeriod, Overlaps
  <2> QED
      BY <1>2, <2>1, <2>2, <2>3, PlanningSteps
<1> QED
    BY <1>1, <1>2, TypeCorrect, PTL DEF Spec

\* The commit of a finalization stores what its lock preserved; nothing else touches
\* a finalized period.
LEMMA NextMatch ==
    ASSUME TypeInv, LockInv, PayslipsMatchPeriod, [Next]_vars
    PROVE  PayslipsMatchPeriod'
<1>1. ASSUME NEW s \in Session,
             Mutation(s) \/ Finalization(s) \/ DeadlockAbort(s) \/ Rollback(s)
      PROVE  PayslipsMatchPeriod'
  <2>1. CASE CommitFinalize(s)
    <3> DEFINE p == tx[s].per
               made == [span |-> tx[s].cur, rate |-> tx[s].rate, entries |-> tx[s].entries]
    <3>1. tx[s].op = "finalize" /\ p \in Period /\ tx[s].cur \in Span
        BY <2>1 DEF TypeInv, TxOK, TxFine, FinalizationOK, MutationOK, CommitFinalize, Idle
    <3>2. period[p] = [status |-> "DRAFT", span |-> tx[s].cur, rate |-> tx[s].rate]
        BY <3>1 DEF LockInv, FinalizersAlone
    <3>3. \A q \in Period \ {p} : period'[q] = period[q] /\ slips'[q] = slips[q]
        BY <2>1 DEF CommitFinalize, TypeInv, TypeOK
    <3>4. slips'[p] = made
        BY <2>1, <3>1 DEF CommitFinalize, TypeInv, TypeOK
    <3>5. slips'[p] \in Statement
      <4>1. tx[s].rate \in Rate /\ tx[s].entries \in Entries
          BY <2>1 DEF TypeInv, TxOK, TxFine, FinalizationOK, MutationOK,
                            CommitFinalize, Idle, TypeOK, Transaction
      <4> QED
          BY <3>1, <3>4, <4>1 DEF Statement
    <3>6. period'[p].span = period[p].span /\ period'[p].rate = period[p].rate
        BY <2>1, <3>1 DEF CommitFinalize, TypeInv, TypeOK, PeriodRow
    <3>7. slips'[p].span = period'[p].span /\ slips'[p].rate = period'[p].rate
        BY <3>2, <3>4, <3>6
    <3>8. slips'[p] # None
        BY <3>5, NoneAssumption
    <3> QED
        BY <3>3, <3>7, <3>8 DEF PayslipsMatchPeriod
  <2>2. CASE ~CommitFinalize(s)
    <3>1. UNCHANGED <<period, slips>>
        BY <1>1, <2>2 DEF Mutation, Finalization, StartFile, StartMove, StartReview,
               StartRemove, Select, LockNext, Cleared, Refused, File, Review, Move, Remove,
               LostRace, Commit, DeadlockAbort, Rollback, StartFinalize, ReadTable, InsertSlip
    <3> QED
        BY <3>1 DEF PayslipsMatchPeriod
  <2> QED
      BY <2>1, <2>2
<1>2. ASSUME NEW s \in Session, NEW p \in Period, Planned(s, p)
      PROVE  PayslipsMatchPeriod'
    BY <1>2, Replanned DEF PayslipsMatchPeriod
<1>3. CASE Quiet
    BY <1>3 DEF Quiet, PayslipsMatchPeriod
<1> QED
    BY <1>1, <1>2, <1>3, PlanningSteps

\* No period is finalized at first.
LEMMA InitMatch == Init => PayslipsMatchPeriod
BY DEF Init, PayslipsMatchPeriod, NoPeriod, Drafts

\* Range and rate of a finalized period are those its payslips were calculated
\* with: no PATCH comes between the calculation and the transition to FINALIZED.
THEOREM PayslipsKeepPeriod == Spec => []PayslipsMatchPeriod
<1>1. TypeInv /\ LockInv /\ PayslipsMatchPeriod /\ [Next]_vars => PayslipsMatchPeriod'
    BY NextMatch
<1> QED
    BY InitMatch, <1>1, TypeCorrect, PTL DEF Spec

\* Only the commit of its finalization gives a period payslips or finalizes it.
LEMMA OnlyCommits ==
    ASSUME TypeInv, LockInv, [Next]_vars, NEW p \in Period,
           ~\E s \in Session : CommitFinalize(s) /\ tx[s].per = p
    PROVE  /\ slips'[p] = slips[p]
           /\ period'[p].status = "FINALIZED" <=> period[p].status = "FINALIZED"
<1>1. ASSUME NEW s \in Session,
             Mutation(s) \/ Finalization(s) \/ DeadlockAbort(s) \/ Rollback(s)
      PROVE  slips'[p] = slips[p] /\ period'[p] = period[p]
  <2>1. CASE CommitFinalize(s)
      BY <2>1 DEF CommitFinalize, TypeInv, TypeOK
  <2>2. CASE ~CommitFinalize(s)
      BY <1>1, <2>2 DEF Mutation, Finalization, StartFile, StartMove, StartReview,
             StartRemove, Select, LockNext, Cleared, Refused, File, Review, Move, Remove,
             LostRace, Commit, DeadlockAbort, Rollback, StartFinalize, ReadTable, InsertSlip
  <2> QED
      BY <2>1, <2>2
<1>2. ASSUME NEW s \in Session, NEW q \in Period, Planned(s, q)
      PROVE  /\ slips'[p] = slips[p]
             /\ period'[p].status = "FINALIZED" <=> period[p].status = "FINALIZED"
    BY <1>2, Replanned
<1>3. CASE Quiet
    BY <1>3 DEF Quiet
<1> QED
    BY <1>1, <1>2, <1>3, PlanningSteps

\* Payslips belong to finalized periods.
SlipsClosed == \A p \in Period : slips[p] # None => period[p].status = "FINALIZED"

\* No day is paid for by two periods, for any number of them: planned ranges are checked
\* in one statement and stored in another, but the exclusion constraint keeps those of
\* live periods apart (PeriodsDisjoint), a finalized period is live for ever, and the
\* row lock keeps its range the one its payslips were calculated for
\* (PayslipsKeepPeriod).
THEOREM DaysPaidOnce == Spec => []NoDayPaidTwice
<1>1. Init => SlipsClosed
    BY DEF Init, SlipsClosed
<1>2. ASSUME TypeInv, LockInv, SlipsClosed, [Next]_vars PROVE SlipsClosed'
  <2> SUFFICES ASSUME NEW p \in Period, slips'[p] # None PROVE period'[p].status = "FINALIZED"
      BY DEF SlipsClosed
  <2>1. CASE \E s \in Session : CommitFinalize(s) /\ tx[s].per = p
      BY <1>2, <2>1 DEF CommitFinalize, TypeInv, TypeOK, PeriodRow
  <2>2. CASE ~\E s \in Session : CommitFinalize(s) /\ tx[s].per = p
      BY <1>2, <2>2, OnlyCommits DEF SlipsClosed
  <2> QED
      BY <2>1, <2>2
<1>3. ASSUME SlipsClosed, Disjoint, PayslipsMatchPeriod PROVE NoDayPaidTwice
  <2> SUFFICES ASSUME NEW p \in Period, NEW q \in Period, p # q,
                      slips[p] # None, slips[q] # None
               PROVE  ~Overlaps(slips[p].span, slips[q].span)
      BY DEF NoDayPaidTwice
  <2>1. LivePeriod(p) /\ LivePeriod(q)
      BY <1>3 DEF SlipsClosed, LivePeriod
  <2>2. slips[p].span = period[p].span /\ slips[q].span = period[q].span
      BY <1>3 DEF SlipsClosed, PayslipsMatchPeriod
  <2> QED
      BY <1>3, <2>1, <2>2 DEF Disjoint
<1>4. TypeInv /\ LockInv /\ SlipsClosed /\ [Next]_vars => SlipsClosed'
    BY <1>2
<1> QED
    BY <1>1, <1>3, <1>4, TypeCorrect, PeriodsDisjoint, PayslipsKeepPeriod, PTL DEF Spec

-----------------------------------------------------------------------------
(***************************************************************************)
(* What mutations know of the records they change, and that decisions on   *)
(* claims are final.                                                       *)
(***************************************************************************)

\* A record that is being filed does not exist yet and is its transaction's alone.
FilingAlone == \A s \in Session : tx[s].op = "file" =>
    /\ row[tx[s].rec].status = "none"
    /\ \A t \in Session \ {s} : tx[t].rec # tx[s].rec

\* A locked record has one holder.
OneHolder == \A r \in Rec : \A s, t \in Holding(r) : s = t

\* The span a mutation clears is its record's, as long as the record exists.
SpanKnown == \A s \in Session :
    tx[s].op \in Mutations \ {"file"} /\ LiveRow(tx[s].rec) => row[tx[s].rec].span = tx[s].old

\* What holders of a lock found: a claim to remove is pending, a log to move exists.
FoundKept == \A s \in Session :
    /\ tx[s].op = "remove" /\ KindOf[tx[s].rec] = "claim" => row[tx[s].rec].status = "PENDING"
    /\ tx[s].op = "move" => LiveRow(tx[s].rec)

\* Records that do not exist have no span.
Blank == \A r \in Rec : ~LiveRow(r) => row[r].span = None

RowInv == FilingAlone /\ OneHolder /\ SpanKnown /\ FoundKept /\ Blank

-----------------------------------------------------------------------------
(* Records and the transactions that change them *)

\* Nothing is filed, and nobody holds anything, at first.
LEMMA InitRows == Init => RowInv
BY DEF Init, RowInv, FilingAlone, OneHolder, SpanKnown, FoundKept, Blank, Holding, Idle,
       LiveRow, Mutations

\* A transaction that opens, goes on or ends leaves all this alone: it has a record
\* only if it had it before, and then nothing about it changes.
LEMMA RowsUntouched ==
    ASSUME TypeInv, RowInv, NEW s \in Session, NEW x, tx' = [tx EXCEPT ![s] = x], UNCHANGED row,
           \/ x.op \notin Mutations /\ x.rec = None
           \/ x.op = tx[s].op /\ x.rec = tx[s].rec /\ x.old = tx[s].old
    PROVE  RowInv'
<1> USE NoneAssumption
<1>1. \A t \in Session : tx'[t] = IF t = s THEN x ELSE tx[t]
    BY DEF TypeInv, TypeOK
<1>2. \A t \in Session : tx[t].op \in Mutations => tx[t].rec \in Rec
    BY DEF TypeInv, TxOK, TxFine, MutationOK, Mutations, Idle
<1>3. FilingAlone'
    BY <1>1, <1>2 DEF RowInv, FilingAlone, Mutations
<1>4. OneHolder'
  <2>1. \A r \in Rec : Holding(r)' \subseteq Holding(r)
      BY <1>1 DEF Holding, Mutations
  <2> QED
      BY <2>1 DEF RowInv, OneHolder
<1>5. SpanKnown' /\ FoundKept' /\ Blank'
    BY <1>1 DEF RowInv, SpanKnown, FoundKept, Blank, LiveRow, Mutations
<1> QED
    BY <1>3, <1>4, <1>5 DEF RowInv

\* Opening a mutation on a record nobody is filing, and that nobody holds if the
\* mutation is to hold it.
LEMMA RowsOpened ==
    ASSUME TypeInv, RowInv, NEW s \in Session, NEW op \in Mutations, NEW r \in Rec,
           NEW sp \in Span, NEW sq \in Span, Begin(s, op, r, sp, sq), UNCHANGED row,
           tx[s] = Idle,
           op = "file" => row[r].status = "none" /\ \A t \in Session : tx[t].rec # r,
           op # "file" => LiveRow(r) /\ sp = row[r].span,
           op = "move" \/ (op = "remove" /\ KindOf[r] # "leave") => Holding(r) = {},
           op = "remove" /\ KindOf[r] = "claim" => row[r].status = "PENDING"
    PROVE  RowInv'
<1>1. \A t \in Session \ {s} : tx'[t] = tx[t]
    BY DEF Begin, TypeInv, TypeOK
<1>2. tx'[s].op = op /\ tx'[s].rec = r /\ tx'[s].old = sp
    BY DEF Begin, TypeInv, TypeOK, Idle
<1>3. FilingAlone'
    BY <1>1, <1>2 DEF RowInv, FilingAlone, LiveRow
<1>4. OneHolder'
    BY <1>1, <1>2 DEF RowInv, OneHolder, Holding
<1>5. SpanKnown' /\ FoundKept' /\ Blank'
    BY <1>1, <1>2 DEF RowInv, SpanKnown, FoundKept, Blank, LiveRow, Mutations
<1> QED
    BY <1>3, <1>4, <1>5 DEF RowInv

Writes(s) == File(s) \/ Review(s) \/ Move(s) \/ Remove(s)

\* What a write does: the record has the cleared span before it, if it existed, and
\* the new one after it, if it still exists.
LEMMA WriteEffect ==
    ASSUME TypeInv, RowInv, NEW s \in Session, Writes(s), NEW r, r = tx[s].rec
    PROVE  /\ tx[s].op \in Mutations /\ MutationOK(tx[s]) /\ tx[s].pc = "write"
           /\ tx' = [tx EXCEPT ![s] = Idle]
           /\ UNCHANGED <<period, slips>>
           /\ \A q \in Rec \ {r} : row'[q] = row[q]
           /\ LiveRow(r) => row[r].span = tx[s].old
           /\ LiveRow(r)' => row'[r].span = tx[s].new
           /\ ~LiveRow(r)' => row'[r].span = None
           /\ tx[s].op # "file" => LiveRow(r)
<1>1. TxFine(tx[s])
    BY DEF TypeInv, TxOK
<1>2. tx[s].op \in Mutations /\ MutationOK(tx[s]) /\ tx[s].pc = "write"
    BY <1>1 DEF TxFine, Writes, File, Review, Move, Remove, Idle, FinalizationOK
<1>3. r \in Rec /\ tx[s].old \in Span /\ tx[s].new \in Span
    BY <1>2 DEF MutationOK
<1>4. row[r] \in SourceRow /\ row \in [Rec -> SourceRow]
    BY <1>3 DEF TypeInv, TypeOK
<1>5. CASE File(s)
  <2>1. ~LiveRow(r) /\ tx[s].op = "file"
      BY <1>5 DEF File, RowInv, FilingAlone, LiveRow
  <2> DEFINE new == [status |-> IF KindOf[r] = "claim" THEN "PENDING" ELSE "RECORDED",
                     span |-> tx[s].new]
  <2>2. Commit(s, r, new)
      BY <1>5 DEF File
  <2>3. LiveRow(r)' /\ row'[r].span = tx[s].new
      BY <2>2, <1>3, <1>4 DEF Commit, LiveRow
  <2> QED
      BY <1>2, <1>3, <1>4, <2>1, <2>2, <2>3 DEF Commit
<1>6. CASE Review(s)
  <2>1. LiveRow(r) /\ row[r].span = tx[s].old /\ tx[s].old = tx[s].new /\ tx[s].op = "review"
      BY <1>2, <1>6 DEF Review, LiveRow, RowInv, SpanKnown, MutationOK, Mutations
  <2>2. PICK status \in {"APPROVED", "REJECTED"} : Commit(s, r, [row[r] EXCEPT !.status = status])
      BY <1>6 DEF Review
  <2>3. row'[r].status = status /\ row'[r].span = row[r].span
      BY <2>2, <1>3, <1>4 DEF Commit, SourceRow
  <2> QED
      BY <1>2, <1>3, <1>4, <2>1, <2>2, <2>3 DEF Commit, LiveRow
<1>7. CASE Move(s)
  <2>1. LiveRow(r) /\ row[r].span = tx[s].old
      BY <1>2, <1>7 DEF Move, RowInv, FoundKept, SpanKnown, Mutations
  <2>2. row'[r].status = row[r].status /\ row'[r].span = tx[s].new
      BY <1>3, <1>4, <1>7 DEF Move, Commit, SourceRow
  <2> QED
      BY <1>2, <1>3, <1>4, <1>7, <2>1, <2>2 DEF Move, Commit, LiveRow
<1>8. CASE Remove(s)
  <2>1. LiveRow(r) /\ row[r].span = tx[s].old
      BY <1>2, <1>8 DEF Remove, RowInv, SpanKnown, Mutations
  <2>2. row'[r].status = "gone" /\ row'[r].span = None
      BY <1>3, <1>4, <1>8 DEF Remove, Commit
  <2> QED
      BY <1>2, <1>3, <1>4, <1>8, <2>1, <2>2 DEF Remove, Commit, LiveRow
<1> QED
    BY <1>5, <1>6, <1>7, <1>8 DEF Writes


\* After a write of s nobody else is filing the record, holds it, or has a wrong
\* idea of it.
LEMMA WriteRows ==
    ASSUME TypeInv, RowInv, NEW s \in Session, Writes(s)
    PROVE  RowInv'
<1> USE NoneAssumption
<1> PICK r \in Rec : r = tx[s].rec
    BY WriteEffect DEF MutationOK
<1>1. \A t \in Session : tx'[t] = IF t = s THEN Idle ELSE tx[t]
    BY WriteEffect DEF TypeInv, TypeOK
<1>2. tx[s].op \in Mutations /\ MutationOK(tx[s]) /\ r \in Rec
    BY WriteEffect DEF MutationOK
<1>3. \A t \in Session : tx'[t].op \in Mutations =>
          t # s /\ tx'[t] = tx[t] /\ tx[t].rec \in Rec /\ MutationOK(tx[t])
  <2>1. \A t \in Session : tx[t].op \in Mutations => MutationOK(tx[t]) /\ tx[t].rec \in Rec
      BY DEF TypeInv, TxOK, TxFine, MutationOK, Mutations, Idle
  <2> QED
      BY <1>1, <2>1 DEF Idle, Mutations
<1>4. \A q \in Rec \ {r} : row'[q] = row[q] /\ LiveRow(q)' = LiveRow(q)
    BY WriteEffect DEF LiveRow
<1>5. \A t \in Session \ {s} : tx[t].op = "file" => tx[t].rec # r
    BY <1>2 DEF RowInv, FilingAlone
<1>6. ASSUME NEW t \in Session \ {s}, tx[t].op \in Mutations, tx[t].rec = r,
             ~(Remove(s) /\ KindOf[r] = "leave")
      PROVE  t \notin Holding(r)
  <2> SUFFICES ASSUME t \in Holding(r) PROVE FALSE
      OBVIOUS
  <2>1. CASE Review(s)
      BY <2>1 DEF Review
  <2>2. CASE Move(s) \/ (Remove(s) /\ KindOf[r] # "leave")
    <3>1. s \in Holding(r)
        BY <2>2 DEF Holding, Move, Remove
    <3> QED
        BY <1>2, <1>6, <3>1 DEF RowInv, OneHolder
  <2>3. CASE File(s)
    <3>1. ~LiveRow(r) /\ \A u \in Session \ {s} : tx[u].rec # r
        BY <2>3 DEF File, RowInv, FilingAlone, LiveRow
    <3> QED
        BY <1>6, <3>1
  <2> QED
      BY <1>6, <2>1, <2>2, <2>3 DEF Writes
<1>7. FilingAlone'
    BY <1>1, <1>3, <1>4, <1>5 DEF RowInv, FilingAlone, Mutations, Idle
<1>8. OneHolder'
  <2>1. \A q \in Rec : Holding(q)' \subseteq Holding(q)
      BY <1>1 DEF Holding, Idle
  <2> QED
      BY <2>1 DEF RowInv, OneHolder
<1>9. SpanKnown'
  <2> SUFFICES ASSUME NEW t \in Session \ {s}, tx[t].op \in Mutations \ {"file"},
                      tx[t].rec = r, LiveRow(r)'
               PROVE  row'[r].span = tx[t].old
      BY <1>3, <1>4 DEF SpanKnown, RowInv
  <2>1. ~File(s)
      BY DEF File, RowInv, FilingAlone
  <2>2. LiveRow(r) /\ row[r].span = tx[t].old
      BY <2>1, WriteEffect, SMTT(30) DEF RowInv, SpanKnown, Writes, Review, Move, Remove
  <2>3. CASE Review(s)
    <3>1. tx[s].old = tx[s].new
        BY <1>2, <2>3 DEF MutationOK, Review
    <3> QED
        BY <2>2, <3>1, WriteEffect
  <2>4. CASE Move(s)
    <3>1. KindOf[r] = "log"
        BY <1>2, <2>4 DEF MutationOK, Move
    <3>2. tx[t].op \in {"move", "remove"}
        BY <1>3, <3>1, <1>1 DEF MutationOK, Mutations
    <3>3. t \in Holding(r)
        BY <3>1, <3>2 DEF Holding
    <3>4. ~Remove(s)
        BY <2>4 DEF Move, Remove
    <3> QED
        BY <1>6, <3>3, <3>4
  <2>5. CASE Remove(s)
    <3>1. row'[r].status = "gone"
        BY <1>2, <2>5 DEF Remove, Commit, TypeInv, TypeOK
    <3> QED
        BY <3>1 DEF LiveRow
  <2> QED
      BY <2>1, <2>3, <2>4, <2>5 DEF Writes
<1>10. FoundKept'
  <2> SUFFICES ASSUME NEW t \in Session \ {s}, tx[t].rec = r,
                      tx[t].op = "move" \/ (tx[t].op = "remove" /\ KindOf[r] = "claim")
               PROVE  FALSE
      BY <1>3, <1>4 DEF FoundKept, RowInv, Mutations
  <2>1. KindOf[r] # "leave"
    <3>1. MutationOK(tx[t])
        BY <1>1, <1>3 DEF Mutations
    <3> QED
        BY <3>1 DEF MutationOK
  <2>2. t \in Holding(r)
      BY <2>1 DEF Holding
  <2> QED
      BY <1>6, <2>1, <2>2 DEF Mutations
<1>11. Blank'
    BY <1>4, WriteEffect DEF RowInv, Blank
<1> QED
    BY <1>7, <1>8, <1>9, <1>10, <1>11 DEF RowInv

\* Each statement of a mutation keeps what mutations know true.
LEMMA MutationRows ==
    ASSUME TypeInv, RowInv, NEW s \in Session, Mutation(s)
    PROVE  RowInv'
<1>1. TxFine(tx[s])
    BY DEF TypeInv, TxOK
<1>2. CASE \E r \in Rec, sp \in Span : StartFile(s, r, sp) \/ StartMove(s, r, sp)
  <2> PICK r \in Rec, sp \in Span : StartFile(s, r, sp) \/ StartMove(s, r, sp)
      BY <1>2
  <2>1. CASE StartFile(s, r, sp)
      BY <2>1, RowsOpened DEF StartFile, Arrives, Fresh, Mutations
  <2>2. CASE StartMove(s, r, sp)
    <3>1. row[r].span \in Span
        BY <2>2 DEF StartMove, TypeInv, RowsOK
    <3> QED
        BY <2>2, <3>1, RowsOpened DEF StartMove, Arrives, Mutations
  <2> QED
      BY <2>1, <2>2
<1>3. CASE \E r \in Rec : StartReview(s, r) \/ StartRemove(s, r)
  <2> PICK r \in Rec : StartReview(s, r) \/ StartRemove(s, r)
      BY <1>3
  <2>1. LiveRow(r) /\ row[r].span \in Span
      BY DEF StartReview, StartRemove, Removable, LiveRow, TypeInv, RowsOK
  <2>2. CASE StartReview(s, r)
      BY <2>1, <2>2, RowsOpened DEF StartReview, Free, Mutations
  <2>3. CASE StartRemove(s, r)
      BY <2>1, <2>3, RowsOpened DEF StartRemove, Arrives, Removable, Mutations
  <2> QED
      BY <2>2, <2>3
<1>4. CASE Select(s) \/ (\E p \in Period : LockNext(s, p)) \/ Cleared(s)
  <2>1. tx[s] \in Transaction
      BY <1>1 DEF TxFine
  <2>2. /\ tx' = [tx EXCEPT ![s] = tx'[s]] /\ UNCHANGED row
        /\ tx'[s].op = tx[s].op /\ tx'[s].rec = tx[s].rec /\ tx'[s].old = tx[s].old
    <3>1. CASE Select(s)
        BY <3>1, <2>1 DEF Select, Transaction, TypeInv, TypeOK
    <3>2. CASE \E p \in Period : LockNext(s, p)
      <4> PICK p \in Period : LockNext(s, p)
          BY <3>2
      <4> DEFINE h == IF LivePeriod(p) THEN tx[s].held \cup {p} ELSE tx[s].held
                 x == [tx[s] EXCEPT !.todo = tx[s].todo \ {p}, !.held = h]
      <4>1. tx' = [tx EXCEPT ![s] = x]
          BY DEF LockNext
      <4>2. x.op = tx[s].op /\ x.rec = tx[s].rec /\ x.old = tx[s].old
          BY <2>1 DEF Transaction
      <4> HIDE DEF x
      <4> QED
          BY <4>1, <4>2 DEF LockNext, TypeInv, TypeOK
    <3>3. CASE Cleared(s)
        BY <3>3, <2>1 DEF Cleared, Transaction, TypeInv, TypeOK
    <3> QED
        BY <1>4, <3>1, <3>2, <3>3
  <2> QED
      BY <2>2, RowsUntouched
<1>5. CASE Refused(s) \/ LostRace(s)
    BY <1>5, RowsUntouched DEF Refused, LostRace, Idle, Mutations
<1>6. CASE File(s) \/ Review(s) \/ Move(s) \/ Remove(s)
    BY <1>6, WriteRows DEF Writes
<1> QED
    BY <1>2, <1>3, <1>4, <1>5, <1>6 DEF Mutation

\* A finalization has no record.
LEMMA FinalizationRows ==
    ASSUME TypeInv, RowInv, NEW s \in Session, Finalization(s)
    PROVE  RowInv'
<1>1. tx[s] \in Transaction /\ tx \in [Session -> Transaction]
    BY DEF TypeInv, TypeOK
<1>2. CASE \E p \in Period : StartFinalize(s, p)
    BY <1>2, RowsUntouched DEF StartFinalize, Idle, Mutations
<1>3. CASE (\E k \in Kind : ReadTable(s, k)) \/ (\E e \in Employee : InsertSlip(s, e))
  <2>1. /\ tx' = [tx EXCEPT ![s] = tx'[s]] /\ UNCHANGED row
        /\ tx'[s].op = tx[s].op /\ tx'[s].rec = tx[s].rec /\ tx'[s].old = tx[s].old
    <3>1. CASE \E k \in Kind : ReadTable(s, k)
      <4> PICK k \in Kind : ReadTable(s, k)
          BY <3>1
      <4> DEFINE more == tx[s].entries \cup Due(tx[s].cur, k)
                 next == IF tx[s].read \cup {k} = Kind THEN "insert" ELSE "read"
                 x == [tx[s] EXCEPT !.read = tx[s].read \cup {k}, !.entries = more, !.pc = next]
      <4>1. tx' = [tx EXCEPT ![s] = x] /\ UNCHANGED row
          BY DEF ReadTable
      <4>2. x.op = tx[s].op /\ x.rec = tx[s].rec /\ x.old = tx[s].old
        <5> HIDE DEF more, next
        <5> QED
            BY <1>1 DEF Transaction
      <4> HIDE DEF x
      <4> QED
          BY <1>1, <4>1, <4>2
    <3>2. CASE \E e \in Employee : InsertSlip(s, e)
        BY <1>1, <3>2 DEF InsertSlip, Transaction
    <3> QED
        BY <1>3, <3>1, <3>2
  <2> QED
      BY <2>1, RowsUntouched
<1>4. CASE CommitFinalize(s)
    BY <1>4, RowsUntouched DEF CommitFinalize, Idle, Mutations
<1> QED
    BY <1>2, <1>3, <1>4 DEF Finalization

\* What mutations know of their records stays true in every step.
LEMMA NextRows ==
    ASSUME TypeInv, LockInv, RowInv, [Next]_vars
    PROVE  RowInv'
<1>1. CASE \E s \in Session : Mutation(s) \/ Finalization(s) \/ DeadlockAbort(s) \/ Rollback(s)
    BY <1>1, MutationRows, FinalizationRows, RowsUntouched
       DEF DeadlockAbort, Rollback, Idle, Mutations
<1>2. CASE UNCHANGED <<row, tx>>
    BY <1>2 DEF RowInv, FilingAlone, OneHolder, SpanKnown, FoundKept, Blank, Holding, LiveRow
<1> QED
    BY <1>1, <1>2, PlanningSteps, PlannedRow DEF Quiet

\* The records an inductive invariant has to know about.
THEOREM RowsKnown == Spec => []RowInv
<1>1. TypeInv /\ LockInv /\ RowInv /\ [Next]_vars => RowInv'
    BY NextRows
<1> QED
    BY InitRows, <1>1, TypeCorrect, PTL DEF Spec

\* Only a write changes a record.
LEMMA OnlyWrites ==
    ASSUME TypeInv, [Next]_vars, row' # row
    PROVE  \E s \in Session : Writes(s)
<1>1. CASE \E s \in Session : Mutation(s) \/ Finalization(s) \/ DeadlockAbort(s) \/ Rollback(s)
  <2> PICK s \in Session : Mutation(s) \/ Finalization(s) \/ DeadlockAbort(s) \/ Rollback(s)
      BY <1>1
  <2>1. CASE Mutation(s) /\ ~Writes(s)
      BY <2>1 DEF Mutation, StartFile, StartMove, StartReview, StartRemove, Select, LockNext,
                  Cleared, Refused, LostRace, Writes
  <2>2. CASE Finalization(s)
      BY <2>2 DEF Finalization, StartFinalize, ReadTable, InsertSlip, CommitFinalize
  <2>3. CASE DeadlockAbort(s) \/ Rollback(s)
      BY <2>3 DEF DeadlockAbort, Rollback
  <2> QED
      BY <2>1, <2>2, <2>3
<1>2. ASSUME \E s \in Session, p \in Period : Planned(s, p) PROVE UNCHANGED row
    BY <1>2 DEF Planned, CreatePeriod, PatchPeriod, DeletePeriod
<1> QED
    BY <1>1, <1>2, PlanningSteps DEF Quiet

\* A claim that is decided or withdrawn never changes again, however many reviewers
\* and owners acted on the pending row at once.
THEOREM DecisionsStand == Spec => DecisionsFinal
<1>1. ASSUME TypeInv, RowInv, [Next]_vars, NEW r \in Rec, KindOf[r] = "claim",
             row[r].status \in {"APPROVED", "REJECTED", "gone"}
      PROVE  row'[r] = row[r]
  <2> SUFFICES ASSUME row'[r] # row[r] PROVE FALSE
      OBVIOUS
  <2>1. PICK s \in Session : Writes(s)
      BY <1>1, OnlyWrites
  <2>2. r = tx[s].rec /\ MutationOK(tx[s])
      BY <1>1, <2>1, WriteEffect
  <2>3. CASE File(s)
      BY <1>1, <2>2, <2>3 DEF File, RowInv, FilingAlone
  <2>4. CASE Review(s)
      BY <1>1, <2>2, <2>4 DEF Review
  <2>5. CASE Move(s)
      BY <1>1, <2>2, <2>5 DEF Move, MutationOK
  <2>6. CASE Remove(s)
      BY <1>1, <2>2, <2>6 DEF Remove, RowInv, FoundKept
  <2> QED
      BY <2>1, <2>3, <2>4, <2>5, <2>6 DEF Writes
<1>2. TypeInv /\ RowInv /\ [Next]_vars =>
          [\A r \in Rec : KindOf[r] = "claim" /\ row[r].status \in {"APPROVED", "REJECTED", "gone"}
             => row'[r] = row[r]]_vars
    BY <1>1
<1> QED
    BY <1>2, TypeCorrect, RowsKnown, PTL DEF Spec, DecisionsFinal

-----------------------------------------------------------------------------
(***************************************************************************)
(* What finalization freezes.  A late write raced the planning of its      *)
(* period; and with the ranges of the periods fixed, payslips state the    *)
(* records of their period for ever.                                       *)
(***************************************************************************)

\* The spans a mutation has found editable.
Passed(x) ==
    IF x.pc = "write" THEN {x.old, x.new} ELSE IF x.cur # x.old THEN {x.old} ELSE {}

\* The span its SELECT is locking the periods of.
Clearing(x) == IF x.pc = "lock" THEN {x.cur} ELSE {}

\* P holds the period rows.  A live period that covered a passed span at its SELECT
\* is held, and a draft if it covers the span still; one that covered the span at
\* hand is held or will be.
SawFine(x, P) == \A sp \in Span, p \in Period : <<sp, p>> \in x.saw =>
    /\ sp \in Passed(x) \cup Clearing(x)
    /\ P[p].status # "none"
    /\ sp \in Passed(x) /\ P[p].status \in {"DRAFT", "FINALIZED"} =>
          p \in x.held /\ (Overlaps(P[p].span, sp) => P[p].status = "DRAFT")
    /\ sp \in Clearing(x) /\ P[p].status \in {"DRAFT", "FINALIZED"} => p \in x.todo \cup x.held

SawInv == \A s \in Session : tx[s].op \in Mutations => SawFine(tx[s], period)

-----------------------------------------------------------------------------
(* Late writes *)

\* A period row only changes while no mutation holds it, and never comes back.
LEMMA PeriodsKept ==
    ASSUME TypeInv, LockInv, [Next]_vars, NEW p \in Period, period[p].status # "none"
    PROVE  /\ period'[p].status # "none"
           /\ LivePeriod(p)' => LivePeriod(p)
           /\ period'[p] = period[p] \/ \A t \in Session : p \notin tx[t].held
<1>1. ASSUME NEW s \in Session,
             Mutation(s) \/ Finalization(s) \/ DeadlockAbort(s) \/ Rollback(s)
      PROVE  /\ period'[p].status # "none"
             /\ LivePeriod(p)' => LivePeriod(p)
             /\ period'[p] = period[p] \/ \A t \in Session : p \notin tx[t].held
  <2>1. CASE CommitFinalize(s) /\ tx[s].per = p
    <3>1. tx[s].op = "finalize" /\ tx[s].held = {}
        BY <2>1 DEF TypeInv, TxOK, TxFine, FinalizationOK, MutationOK, CommitFinalize, Idle
    <3>2. \A t \in Session : p \notin tx[t].held
        BY <2>1, <3>1 DEF LockInv, FinalizersAlone
    <3>3. period[p] = [status |-> "DRAFT", span |-> tx[s].cur, rate |-> tx[s].rate]
        BY <2>1, <3>1 DEF LockInv, FinalizersAlone
    <3>4. period'[p].status = "FINALIZED"
        BY <2>1 DEF CommitFinalize, TypeInv, TypeOK, PeriodRow
    <3> QED
        BY <3>2, <3>3, <3>4 DEF LivePeriod
  <2>2. CASE ~(CommitFinalize(s) /\ tx[s].per = p)
    <3>1. period'[p] = period[p]
      <4>1. CASE CommitFinalize(s)
          BY <2>2, <4>1 DEF CommitFinalize, TypeInv, TypeOK
      <4>2. CASE ~CommitFinalize(s)
          BY <1>1, <4>2 DEF Mutation, Finalization, StartFile, StartMove, StartReview,
                 StartRemove, Select, LockNext, Cleared, Refused, File, Review, Move, Remove,
                 LostRace, Commit, DeadlockAbort, Rollback, StartFinalize, ReadTable, InsertSlip
      <4> QED
          BY <4>1, <4>2
    <3> QED
        BY <3>1 DEF LivePeriod
  <2> QED
      BY <2>1, <2>2
<1>2. ASSUME NEW s \in Session, NEW q \in Period, Planned(s, q)
      PROVE  /\ period'[p].status # "none"
             /\ LivePeriod(p)' => LivePeriod(p)
             /\ period'[p] = period[p] \/ \A t \in Session : p \notin tx[t].held
  <2>1. CASE q # p
      BY <1>2, <2>1, Replanned DEF LivePeriod
  <2>2. CASE q = p
    <3>1. period[p].status = "DRAFT" /\ period'[p].status \in {"DRAFT", "gone"}
        BY <1>2, <2>2, Replanned
    <3>2. Sharing(p) = {}
        BY <1>2, <2>2, <3>1, PlannedRow
    <3> QED
        BY <3>1, <3>2 DEF Sharing, LivePeriod
  <2> QED
      BY <2>1, <2>2
<1>3. CASE Quiet
    BY <1>3 DEF Quiet, LivePeriod
<1> QED
    BY <1>1, <1>2, <1>3, PlanningSteps

\* So what a mutation saw stays true while others act.
LEMMA SawKept ==
    ASSUME TypeInv, LockInv, [Next]_vars, NEW s \in Session, SawFine(tx[s], period)
    PROVE  SawFine(tx[s], period')
<1> SUFFICES ASSUME NEW sp \in Span, NEW p \in Period, <<sp, p>> \in tx[s].saw
             PROVE  /\ sp \in Passed(tx[s]) \cup Clearing(tx[s])
                    /\ period'[p].status # "none"
                    /\ sp \in Passed(tx[s]) /\ period'[p].status \in {"DRAFT", "FINALIZED"} =>
                          /\ p \in tx[s].held
                          /\ Overlaps(period'[p].span, sp) => period'[p].status = "DRAFT"
                    /\ sp \in Clearing(tx[s]) /\ period'[p].status \in {"DRAFT", "FINALIZED"} =>
                          p \in tx[s].todo \cup tx[s].held
    BY DEF SawFine
<1>1. /\ sp \in Passed(tx[s]) \cup Clearing(tx[s])
      /\ period[p].status # "none"
      /\ sp \in Passed(tx[s]) /\ period[p].status \in {"DRAFT", "FINALIZED"} =>
            p \in tx[s].held /\ (Overlaps(period[p].span, sp) => period[p].status = "DRAFT")
      /\ sp \in Clearing(tx[s]) /\ period[p].status \in {"DRAFT", "FINALIZED"} =>
            p \in tx[s].todo \cup tx[s].held
    BY DEF SawFine
<1>2. /\ period'[p].status # "none"
      /\ period'[p].status \in {"DRAFT", "FINALIZED"} => period[p].status \in {"DRAFT", "FINALIZED"}
      /\ period'[p] = period[p] \/ p \notin tx[s].held
    BY <1>1, PeriodsKept DEF LivePeriod
<1> QED
    BY <1>1, <1>2

\* The statements of a mutation: it opens, selects, locks, goes on, or ends.
LEMMA MutationShape ==
    ASSUME TypeInv, NEW s \in Session, Mutation(s)
    PROVE  \/ \E op, r : \E sp, sq \in Span : Begin(s, op, r, sp, sq)
           \/ Select(s) \/ (\E p \in Period : LockNext(s, p)) \/ Cleared(s)
           \/ tx' = [tx EXCEPT ![s] = Idle]
<1>1. Refused(s) \/ LostRace(s) \/ File(s) \/ Review(s) \/ Move(s) \/ Remove(s)
         => tx' = [tx EXCEPT ![s] = Idle]
    BY DEF Refused, LostRace, File, Review, Move, Remove, Commit
<1>2. (\E r \in Rec, sp \in Span : StartFile(s, r, sp) \/ StartMove(s, r, sp))
         \/ (\E r \in Rec : StartReview(s, r) \/ StartRemove(s, r))
         => \E op, r : \E sp, sq \in Span : Begin(s, op, r, sp, sq)
  <2>1. \A r \in Rec : StartReview(s, r) \/ StartRemove(s, r) => row[r].span \in Span
      BY DEF StartReview, StartRemove, Removable, LiveRow, TypeInv, RowsOK
  <2>2. \A r \in Rec, sp \in Span : StartMove(s, r, sp) => row[r].span \in Span
      BY DEF StartMove, TypeInv, RowsOK
  <2> QED
      BY <2>1, <2>2 DEF StartFile, StartMove, StartReview, StartRemove
<1> QED
    BY <1>1, <1>2 DEF Mutation

\* And the mutation's own statements keep it true.
LEMMA SawStep ==
    ASSUME TypeInv, NEW s \in Session, Mutation(s), tx[s].op \in Mutations => SawFine(tx[s], period)
    PROVE  tx'[s].op \in Mutations => SawFine(tx'[s], period)
<1>1. TxFine(tx[s]) /\ tx[s] \in Transaction /\ tx \in [Session -> Transaction]
    BY DEF TypeInv, TxOK, TypeOK
<1>2. CASE \E op, r : \E sp, sq \in Span : Begin(s, op, r, sp, sq)
  <2>1. tx'[s].saw = {}
      BY <1>1, <1>2 DEF Begin, Idle
  <2> QED
      BY <2>1 DEF SawFine
<1>3. CASE tx' = [tx EXCEPT ![s] = Idle]
    BY <1>1, <1>3 DEF Idle, Mutations
<1>4. CASE Select(s)
  <2>1. tx[s].op \in Mutations /\ MutationOK(tx[s])
      BY <1>1, <1>4 DEF TxFine, Select, Idle, FinalizationOK
  <2>2. /\ tx'[s].pc = "lock" /\ tx'[s].cur = tx[s].cur
        /\ tx'[s].old = tx[s].old /\ tx'[s].new = tx[s].new
        /\ tx'[s].held = tx[s].held /\ tx'[s].todo = Matching(tx[s].cur)
        /\ tx'[s].saw = tx[s].saw \cup ({tx[s].cur} \X Covering(tx[s].cur))
      BY <1>1, <1>4 DEF Select, Transaction
  <2>3. Passed(tx'[s]) = Passed(tx[s]) /\ Clearing(tx[s]) = {} /\ Clearing(tx'[s]) = {tx[s].cur}
      BY <1>4, <2>2 DEF Passed, Clearing, Select
  <2>4. tx[s].cur \notin Passed(tx[s])
      BY <1>4 DEF Passed, Select
  <2>5. ASSUME NEW sp \in Span, NEW p \in Period, <<sp, p>> \in tx'[s].saw,
               <<sp, p>> \notin tx[s].saw
        PROVE  sp = tx[s].cur /\ LivePeriod(p) /\ p \in tx'[s].todo
      BY <2>2, <2>5 DEF Covering, Matching
  <2> QED
      BY <2>1, <2>3, <2>4, <2>5, <2>2 DEF SawFine, LivePeriod
<1>5. CASE \E p \in Period : LockNext(s, p)
  <2> PICK q \in Period : LockNext(s, q)
      BY <1>5
  <2>1. tx[s].op \in Mutations
      BY <1>1 DEF TxFine, LockNext, Idle, FinalizationOK
  <2> DEFINE h == IF LivePeriod(q) THEN tx[s].held \cup {q} ELSE tx[s].held
             x == [tx[s] EXCEPT !.todo = tx[s].todo \ {q}, !.held = h]
  <2>2. tx'[s] = x
      BY <1>1 DEF LockNext
  <2>3. /\ x.pc = tx[s].pc /\ x.cur = tx[s].cur /\ x.old = tx[s].old /\ x.new = tx[s].new
        /\ x.saw = tx[s].saw /\ x.todo = tx[s].todo \ {q} /\ x.held = h
    <3> HIDE DEF h
    <3> QED
        BY <1>1 DEF Transaction
  <2>4. tx[s].held \subseteq h /\ (LivePeriod(q) => q \in h)
      OBVIOUS
  <2>5. Passed(x) = Passed(tx[s]) /\ Clearing(x) = Clearing(tx[s])
    <3> HIDE DEF x
    <3> QED
        BY <2>3 DEF Passed, Clearing
  <2> HIDE DEF x, h
  <2> QED
      BY <2>1, <2>2, <2>3, <2>4, <2>5 DEF SawFine, LivePeriod
<1>6. CASE Cleared(s)
  <2>1. tx[s].op \in Mutations /\ MutationOK(tx[s])
      BY <1>1, <1>6 DEF TxFine, Cleared, Idle, FinalizationOK
  <2>2. /\ tx'[s].old = tx[s].old /\ tx'[s].new = tx[s].new
        /\ tx'[s].held = tx[s].held /\ tx'[s].saw = tx[s].saw
        /\ IF tx[s].cur = tx[s].new
           THEN tx'[s].pc = "write"
           ELSE tx'[s].pc = "select" /\ tx'[s].cur = tx[s].new
      BY <1>1, <1>6 DEF Cleared, Transaction
  <2>3. /\ Passed(tx'[s]) = Passed(tx[s]) \cup {tx[s].cur}
        /\ Clearing(tx'[s]) = {} /\ Clearing(tx[s]) = {tx[s].cur}
      BY <1>6, <2>1, <2>2 DEF Passed, Clearing, Cleared, MutationOK
  <2>4. \A p \in Period : period[p].status \in {"DRAFT", "FINALIZED"} /\ p \in tx[s].held
                             /\ Overlaps(period[p].span, tx[s].cur) => period[p].status = "DRAFT"
      BY <1>6 DEF Cleared, Refusing
  <2>5. tx[s].todo = {}
      BY <1>6 DEF Cleared
  <2> QED
      BY <2>1, <2>2, <2>3, <2>4, <2>5 DEF SawFine
<1> QED
    BY <1>2, <1>3, <1>4, <1>5, <1>6, MutationShape

\* No statement of one transaction touches another.
LEMMA OthersAlone ==
    ASSUME TypeInv, NEW s \in Session,
           Mutation(s) \/ Finalization(s) \/ DeadlockAbort(s) \/ Rollback(s)
    PROVE  \A t \in Session \ {s} : tx'[t] = tx[t]
<1>1. tx \in [Session -> Transaction]
    BY DEF TypeInv, TypeOK
<1>2. CASE Mutation(s)
  <2>1. CASE Cleared(s)
      BY <1>1, <2>1 DEF Cleared
  <2>2. CASE ~Cleared(s)
      BY <1>1, <1>2, <2>2 DEF Mutation, StartFile, StartMove, StartReview, StartRemove, Begin,
           Select, LockNext, Refused, File, Review, Move, Remove, LostRace, Commit
  <2> QED
      BY <2>1, <2>2
<1>3. CASE Finalization(s)
    BY <1>1, <1>3 DEF Finalization, StartFinalize, ReadTable, InsertSlip, CommitFinalize
<1>4. CASE DeadlockAbort(s) \/ Rollback(s)
    BY <1>1, <1>4 DEF DeadlockAbort, Rollback
<1> QED
    BY <1>2, <1>3, <1>4

\* A finalization is no mutation, and what is rolled back is nothing.
LEMMA NoMutationLeft ==
    ASSUME TypeInv, NEW s \in Session, Finalization(s) \/ DeadlockAbort(s) \/ Rollback(s)
    PROVE  tx'[s].op \notin Mutations
<1>1. tx \in [Session -> Transaction] /\ tx[s] \in Transaction /\ TxFine(tx[s])
    BY DEF TypeInv, TypeOK, TxOK
<1>2. CASE \E p \in Period : StartFinalize(s, p)
    BY <1>1, <1>2 DEF StartFinalize, Idle, Mutations
<1>3. CASE \E k \in Kind : ReadTable(s, k)
  <2> PICK k \in Kind : ReadTable(s, k)
      BY <1>3
  <2>1. tx[s].op = "finalize"
      BY <1>1 DEF TxFine, ReadTable, Idle, MutationOK
  <2> DEFINE more == tx[s].entries \cup Due(tx[s].cur, k)
             next == IF tx[s].read \cup {k} = Kind THEN "insert" ELSE "read"
             x == [tx[s] EXCEPT !.read = tx[s].read \cup {k}, !.entries = more, !.pc = next]
  <2>2. tx'[s] = x
      BY <1>1 DEF ReadTable
  <2>3. x.op = tx[s].op
    <3> HIDE DEF more, next
    <3> QED
        BY <1>1 DEF Transaction
  <2> HIDE DEF x
  <2> QED
      BY <2>1, <2>2, <2>3 DEF Mutations
<1>4. CASE \E e \in Employee : InsertSlip(s, e)
  <2>1. tx[s].op = "finalize"
      BY <1>1, <1>4 DEF TxFine, InsertSlip, Idle, MutationOK
  <2> QED
      BY <1>1, <1>4, <2>1 DEF InsertSlip, Mutations, Transaction
<1>5. CASE CommitFinalize(s) \/ DeadlockAbort(s) \/ Rollback(s)
    BY <1>1, <1>5 DEF CommitFinalize, DeadlockAbort, Rollback, Idle, Mutations
<1> QED
    BY <1>2, <1>3, <1>4, <1>5 DEF Finalization

\* What mutations saw stays true in every step.
LEMMA NextSaw ==
    ASSUME TypeInv, LockInv, SawInv, [Next]_vars
    PROVE  SawInv'
<1> SUFFICES ASSUME NEW s \in Session, tx'[s].op \in Mutations
             PROVE  SawFine(tx'[s], period')
    BY DEF SawInv
<1>1. CASE Mutation(s)
  <2>1. UNCHANGED period
      BY <1>1 DEF Mutation, StartFile, StartMove, StartReview, StartRemove, Select, LockNext,
           Cleared, Refused, File, Review, Move, Remove, LostRace, Commit
  <2> QED
      BY <1>1, <2>1, SawStep DEF SawInv
<1>2. CASE tx'[s] = tx[s]
    BY <1>2, SawKept DEF SawInv
<1>3. CASE ~Mutation(s) /\ tx'[s] # tx[s]
  <2>1. PICK t \in Session : Mutation(t) \/ Finalization(t) \/ DeadlockAbort(t) \/ Rollback(t)
      BY <1>3, PlanningSteps, Replanned DEF Quiet
  <2>2. t = s
      BY <1>3, <2>1, OthersAlone
  <2> QED
      BY <1>3, <2>1, <2>2, NoMutationLeft
<1> QED
    BY <1>1, <1>2, <1>3

\* No mutation runs at first.
LEMMA InitSaw == Init => SawInv
BY DEF Init, SawInv, Idle, Mutations

\* In every reachable state a mutation remembers truly what it saw.
THEOREM SawTrue == Spec => []SawInv
<1>1. TypeInv /\ LockInv /\ SawInv /\ [Next]_vars => SawInv'
    BY NextSaw
<1> QED
    BY InitSaw, <1>1, TypeCorrect, PTL DEF Spec

\* A record changes inside a finalized range only by a transaction whose SELECT of
\* the period rows ran before the period covered that range: the period lock leaves
\* no other way, for any number of transactions, periods and records.
THEOREM LateWritesOnlyRace == Spec => LateWritesRaced
<1>1. ASSUME TypeInv, RowInv, SawInv, [Next]_vars,
             NEW p \in Period, NEW r \in Rec, NEW s \in Session, NEW sp \in Span,
             period[p].status = "FINALIZED", Overlaps(sp, period[p].span),
             tx[s].rec = r, tx'[s] = Idle, row'[r] # row[r],
             sp \in {row[r].span, row'[r].span}
      PROVE  <<sp, p>> \notin tx[s].saw
  <2> USE NoneAssumption
  <2>1. PICK t \in Session : Writes(t)
      BY <1>1, OnlyWrites
  <2>2. t = s
    <3>1. r = tx[t].rec /\ MutationOK(tx[t]) /\ tx' = [tx EXCEPT ![t] = Idle]
        BY <1>1, <2>1, WriteEffect
    <3>2. ASSUME t # s PROVE FALSE
      <4>1. tx[s] = Idle
          BY <1>1, <3>1, <3>2 DEF TypeInv, TypeOK
      <4> QED
          BY <1>1, <4>1 DEF Idle
    <3> QED
        BY <3>2
  <2>3. /\ tx[s].op \in Mutations /\ tx[s].pc = "write"
        /\ LiveRow(r) => row[r].span = tx[s].old
        /\ LiveRow(r)' => row'[r].span = tx[s].new
        /\ ~LiveRow(r)' => row'[r].span = None
      BY <1>1, <2>1, <2>2, WriteEffect
  <2>4. ~LiveRow(r) => row[r].span = None
      BY <1>1 DEF RowInv, Blank
  <2>5. sp \in {tx[s].old, tx[s].new}
      BY <1>1, <2>3, <2>4
  <2>6. sp \in Passed(tx[s])
      BY <2>3, <2>5 DEF Passed
  <2>7. Overlaps(period[p].span, sp)
      BY <1>1, OverlapsSymmetric
  <2> QED
      BY <1>1, <2>3, <2>6, <2>7 DEF SawInv, SawFine
<1>2. TypeInv /\ RowInv /\ SawInv /\ [Next]_vars =>
      [\A p \in Period, r \in Rec, s \in Session, sp \in Span :
          /\ period[p].status = "FINALIZED"
          /\ Overlaps(sp, period[p].span)
          /\ tx[s].rec = r /\ tx'[s] = Idle
          /\ row'[r] # row[r]
          /\ sp \in {row[r].span, row'[r].span}
          => <<sp, p>> \notin tx[s].saw]_vars
    BY <1>1
<1> QED
    BY <1>2, TypeCorrect, RowsKnown, SawTrue, PTL DEF Spec, LateWritesRaced

-----------------------------------------------------------------------------
(***************************************************************************)
(* With the ranges of the periods fixed (SteadySpec), the payslips of a    *)
(* finalized period state exactly the records of its range, for ever, and  *)
(* PeriodLock implements FrozenLedger.                                     *)
(***************************************************************************)

\* R holds the records.  r stands in a statement of the range with the span sp.
EntryOf(R, r, sp, range) ==
    R[r].status \in {"APPROVED", "RECORDED"} /\ R[r].span = sp /\ Overlaps(sp, range)

\* A mutation has seen every period that covers a span it has cleared or is clearing.
SeenAll == \A s \in Session : tx[s].op \in Mutations =>
    \A sp \in Passed(tx[s]) \cup Clearing(tx[s]), p \in Period :
        LivePeriod(p) /\ Overlaps(period[p].span, sp) => <<sp, p>> \in tx[s].saw

\* A finalization has the entries of the tables it has read, as they are now.
ReadExact == \A s \in Session : tx[s].op = "finalize" =>
    /\ tx[s].pc = "insert" => tx[s].read = Kind
    /\ \A r \in Rec, sp \in Span :
          <<r, sp>> \in tx[s].entries
             <=> KindOf[r] \in tx[s].read /\ EntryOf(row, r, sp, tx[s].cur)

\* Payslips have the entries of their period, as they are now, and belong to a
\* finalized period.
SlipsExact == \A p \in Period :
    /\ slips[p] # None => period[p].status = "FINALIZED"
    /\ period[p].status = "FINALIZED" =>
          \A r \in Rec, sp \in Span :
             <<r, sp>> \in slips[p].entries <=> EntryOf(row, r, sp, period[p].span)

BaseInv == TypeInv /\ LockInv /\ RowInv /\ SawInv /\ PayslipsMatchPeriod
SteadyInv == BaseInv /\ SeenAll /\ ReadExact /\ SlipsExact

\* The period is finalized, or about to be.
Frozen(p) ==
    period[p].status = "FINALIZED" \/ \E s \in Session : tx[s].op = "finalize" /\ tx[s].per = p

-----------------------------------------------------------------------------
\* The steps that leave ranges alone are among all steps.
LEMMA SteadyIsNext ==
    ASSUME TypeInv, [SteadyNext]_vars
    PROVE  [Next]_vars
BY DEF Next

\* The ranges of the periods are fixed, and no period is new.
LEMMA RangesFixed ==
    ASSUME TypeInv, LockInv, [SteadyNext]_vars, NEW p \in Period, LivePeriod(p)'
    PROVE  LivePeriod(p) /\ period'[p].span = period[p].span
<1>1. CASE \E s \in Session : Mutation(s) \/ Finalization(s) \/ DeadlockAbort(s) \/ Rollback(s)
    BY <1>1, SpansKept
<1>2. CASE \E s \in Session, q \in Period, rt \in Rate : PatchPeriod(s, q, None, rt)
    BY <1>2 DEF PatchPeriod, TypeInv, TypeOK, PeriodRow, LivePeriod
<1>3. CASE \E s \in Session, q \in Period : DeletePeriod(s, q)
    BY <1>3 DEF DeletePeriod, TypeInv, TypeOK, LivePeriod
<1>4. CASE UNCHANGED period
    BY <1>4 DEF LivePeriod
<1>5. ASSUME NEW s \in Session,
             \/ Asking(s) \/ TurnedAway(s)
             \/ \E q \in Period, rt \in Rate : CheckPatch(s, q, None, rt)
      PROVE  UNCHANGED period
    BY <1>5 DEF Asking, AskLeave, AskMove, AskRemove, AskPeriod, AskPatch, Asks, TurnedAway,
                CheckPatch
<1> QED
    BY <1>1, <1>2, <1>3, <1>4, <1>5 DEF SteadyNext, Editing, vars

\* A writer has cleared its spans of every frozen period.
LEMMA Barred ==
    ASSUME BaseInv, SeenAll, NEW s \in Session, Writes(s), NEW p \in Period, Frozen(p),
           NEW sp \in {tx[s].old, tx[s].new}
    PROVE  ~Overlaps(period[p].span, sp)
<1> SUFFICES ASSUME Overlaps(period[p].span, sp) PROVE FALSE
    OBVIOUS
<1>1. tx[s].op \in Mutations /\ MutationOK(tx[s]) /\ tx[s].pc = "write"
    BY WriteEffect DEF BaseInv
<1>2. sp \in Passed(tx[s]) /\ sp \in Span
    BY <1>1 DEF Passed, MutationOK
<1>3. LivePeriod(p) /\ (period[p].status = "DRAFT" => p \notin tx[s].held)
  <2>1. CASE period[p].status = "FINALIZED"
      BY <2>1 DEF LivePeriod
  <2>2. CASE \E t \in Session : tx[t].op = "finalize" /\ tx[t].per = p
    <3> PICK t \in Session : tx[t].op = "finalize" /\ tx[t].per = p
        BY <2>2
    <3>1. t # s
        BY <1>1 DEF Mutations
    <3>2. period[p] = [status |-> "DRAFT", span |-> tx[t].cur, rate |-> tx[t].rate]
        BY DEF BaseInv, LockInv, FinalizersAlone
    <3>3. p \notin tx[s].held
        BY <3>1 DEF BaseInv, LockInv, FinalizersAlone
    <3> QED
        BY <3>2, <3>3 DEF LivePeriod
  <2> QED
      BY <2>1, <2>2 DEF Frozen
<1>4. <<sp, p>> \in tx[s].saw
    BY <1>1, <1>2, <1>3 DEF SeenAll
<1>5. p \in tx[s].held /\ period[p].status = "DRAFT"
    BY <1>1, <1>2, <1>3, <1>4 DEF BaseInv, SawInv, SawFine, LivePeriod
<1> QED
    BY <1>3, <1>5

\* So no step changes what a frozen range contains.
LEMMA EntriesFrozen ==
    ASSUME BaseInv, SeenAll, [SteadyNext]_vars, NEW p \in Period, Frozen(p),
           NEW r \in Rec, NEW sp \in Span
    PROVE  EntryOf(row', r, sp, period[p].span) <=> EntryOf(row, r, sp, period[p].span)
<1>1. CASE row' = row
    BY <1>1
<1>2. CASE row' # row
  <2>1. PICK s \in Session : Writes(s)
      BY <1>2, OnlyWrites, SteadyIsNext DEF BaseInv
  <2>2. CASE r # tx[s].rec
      BY <2>1, <2>2, WriteEffect DEF BaseInv, EntryOf
  <2>3. CASE r = tx[s].rec
    <3>1. /\ LiveRow(r) => row[r].span = tx[s].old
          /\ LiveRow(r)' => row'[r].span = tx[s].new
        BY <2>1, <2>3, WriteEffect DEF BaseInv
    <3>2. ~Overlaps(tx[s].old, period[p].span) /\ ~Overlaps(tx[s].new, period[p].span)
        BY <2>1, Barred, OverlapsSymmetric
    <3> QED
        BY <3>1, <3>2 DEF EntryOf, LiveRow
  <2> QED
      BY <2>2, <2>3
<1> QED
    BY <1>1, <1>2

\* What the statement of a table returns.
LEMMA DueEntries ==
    ASSUME NEW range, NEW k, NEW r \in Rec, NEW sp \in Span
    PROVE  <<r, sp>> \in Due(range, k) <=> KindOf[r] = k /\ EntryOf(row, r, sp, range)
BY DEF Due, EntryOf

-----------------------------------------------------------------------------
\* What holds of any step holds of these.
LEMMA NextBase ==
    ASSUME BaseInv, [SteadyNext]_vars
    PROVE  BaseInv'
BY NextTyped, NextLocks, NextRows, NextSaw, NextMatch, SteadyIsNext DEF BaseInv

\* With no new ranges, what a mutation selected is all there is to see.
LEMMA NextSeen ==
    ASSUME BaseInv, SeenAll, [SteadyNext]_vars
    PROVE  SeenAll'
<1> SUFFICES ASSUME NEW s \in Session, tx'[s].op \in Mutations,
                    NEW sp \in Passed(tx'[s]) \cup Clearing(tx'[s]), NEW p \in Period,
                    LivePeriod(p)', Overlaps(period'[p].span, sp)
             PROVE  <<sp, p>> \in tx'[s].saw
    BY DEF SeenAll, Passed, Clearing
<1>1. LivePeriod(p) /\ Overlaps(period[p].span, sp)
    BY RangesFixed DEF BaseInv
<1>2. TxFine(tx[s]) /\ tx[s] \in Transaction /\ tx \in [Session -> Transaction]
    BY DEF BaseInv, TypeInv, TxOK, TypeOK
<1>3. CASE tx'[s] = tx[s]
    BY <1>1, <1>3 DEF SeenAll
<1>4. CASE \E op, r : \E sp1, sp2 \in Span : Begin(s, op, r, sp1, sp2)
    BY <1>2, <1>4 DEF Begin, Idle, Passed, Clearing
<1>5. CASE Select(s)
  <2>1. tx[s].op \in Mutations
      BY <1>2, <1>5 DEF TxFine, Select, Idle, FinalizationOK
  <2>2. /\ tx'[s].pc = "lock" /\ tx'[s].cur = tx[s].cur /\ tx'[s].old = tx[s].old
        /\ tx'[s].saw = tx[s].saw \cup ({tx[s].cur} \X Covering(tx[s].cur))
      BY <1>2, <1>5 DEF Select, Transaction
  <2>3. sp \in Passed(tx[s]) \/ sp = tx[s].cur
      BY <1>5, <2>2 DEF Passed, Clearing, Select
  <2>4. sp = tx[s].cur => p \in Covering(tx[s].cur)
      BY <1>1 DEF Covering, LivePeriod
  <2> QED
      BY <1>1, <2>1, <2>2, <2>3, <2>4 DEF SeenAll
<1>6. CASE \E q \in Period : LockNext(s, q)
  <2> PICK q \in Period : LockNext(s, q)
      BY <1>6
  <2>1. tx[s].op \in Mutations
      BY <1>2 DEF TxFine, LockNext, Idle, FinalizationOK
  <2> DEFINE h == IF LivePeriod(q) THEN tx[s].held \cup {q} ELSE tx[s].held
             x == [tx[s] EXCEPT !.todo = tx[s].todo \ {q}, !.held = h]
  <2>2. tx'[s] = x
      BY <1>2 DEF LockNext
  <2>3. /\ x.pc = tx[s].pc /\ x.cur = tx[s].cur /\ x.old = tx[s].old /\ x.new = tx[s].new
        /\ x.saw = tx[s].saw
    <3> HIDE DEF h
    <3> QED
        BY <1>2 DEF Transaction
  <2> HIDE DEF x
  <2>4. sp \in Passed(tx[s]) \cup Clearing(tx[s])
      BY <2>2, <2>3 DEF Passed, Clearing
  <2> QED
      BY <1>1, <2>1, <2>2, <2>3, <2>4 DEF SeenAll
<1>7. CASE Cleared(s)
  <2>1. tx[s].op \in Mutations /\ MutationOK(tx[s])
      BY <1>2, <1>7 DEF TxFine, Cleared, Idle, FinalizationOK
  <2>2. /\ tx'[s].old = tx[s].old /\ tx'[s].new = tx[s].new /\ tx'[s].saw = tx[s].saw
        /\ IF tx[s].cur = tx[s].new
           THEN tx'[s].pc = "write"
           ELSE tx'[s].pc = "select" /\ tx'[s].cur = tx[s].new
      BY <1>2, <1>7 DEF Cleared, Transaction
  <2>3. sp \in Passed(tx[s]) \cup Clearing(tx[s])
      BY <1>7, <2>1, <2>2 DEF Passed, Clearing, Cleared, MutationOK
  <2> QED
      BY <1>1, <2>1, <2>2, <2>3 DEF SeenAll
<1>8. CASE tx' = [tx EXCEPT ![s] = Idle]
    BY <1>2, <1>8 DEF Idle, Mutations
<1>9. CASE tx'[s] # tx[s]
  <2>1. PICK t \in Session : Mutation(t) \/ Finalization(t) \/ DeadlockAbort(t) \/ Rollback(t)
      BY <1>9, PlanningSteps, Replanned, SteadyIsNext DEF Quiet, BaseInv
  <2>2. t = s
      BY <1>9, <2>1, OthersAlone DEF BaseInv
  <2>3. Mutation(s)
      BY <2>1, <2>2, NoMutationLeft DEF BaseInv
  <2> QED
      BY <1>4, <1>5, <1>6, <1>7, <1>8, <2>3, MutationShape DEF BaseInv
<1> QED
    BY <1>3, <1>9

\* A mutation's transaction is none of a finalization.
LEMMA MutationNotFinalizing ==
    ASSUME TypeInv, NEW s \in Session, Mutation(s)
    PROVE  tx'[s].op # "finalize"
<1>1. TxFine(tx[s]) /\ tx[s] \in Transaction /\ tx \in [Session -> Transaction]
    BY DEF TypeInv, TxOK, TypeOK
<1>2. CASE tx' = [tx EXCEPT ![s] = Idle]
    BY <1>1, <1>2 DEF Idle
<1>3. CASE Select(s) \/ Cleared(s) \/ \E p \in Period : LockNext(s, p)
  <2>5. tx[s].pc \in {"select", "lock"}
      BY <1>3 DEF Select, Cleared, LockNext
  <2>1. tx[s].op # "finalize"
      BY <1>1, <2>5 DEF TxFine, Idle, FinalizationOK, Mutations
  <2>2. CASE Select(s)
      BY <1>1, <2>1, <2>2 DEF Select, Transaction
  <2>3. CASE Cleared(s)
      BY <1>1, <2>1, <2>3 DEF Cleared, Transaction
  <2>4. CASE \E p \in Period : LockNext(s, p)
    <3> PICK p \in Period : LockNext(s, p)
        BY <2>4
    <3> DEFINE h == IF LivePeriod(p) THEN tx[s].held \cup {p} ELSE tx[s].held
               x == [tx[s] EXCEPT !.todo = tx[s].todo \ {p}, !.held = h]
    <3>1. tx'[s] = x
        BY <1>1 DEF LockNext
    <3>2. x.op = tx[s].op
      <4> HIDE DEF h
      <4> QED
          BY <1>1 DEF Transaction
    <3> HIDE DEF x
    <3> QED
        BY <2>1, <3>1, <3>2
  <2> QED
      BY <1>3, <2>2, <2>3, <2>4
<1>4. CASE ~(Select(s) \/ Cleared(s) \/ \E p \in Period : LockNext(s, p))
           /\ tx' # [tx EXCEPT ![s] = Idle]
  <2>1. (\E r \in Rec, sp \in Span : StartFile(s, r, sp) \/ StartMove(s, r, sp))
            \/ (\E r \in Rec : StartReview(s, r) \/ StartRemove(s, r))
      BY <1>4 DEF Mutation, Refused, LostRace, File, Review, Move, Remove, Commit
  <2>2. PICK op \in Mutations : \E r, sp, sq : Begin(s, op, r, sp, sq)
      BY <2>1 DEF StartFile, StartMove, StartReview, StartRemove, Mutations
  <2>3. tx'[s].op = op
      BY <1>1, <2>2 DEF Begin, Idle
  <2> QED
      BY <2>3 DEF Mutations
<1> QED
    BY <1>2, <1>3, <1>4

\* What a finalization has read is not changed by others, and each table adds its own entries.
LEMMA NextRead ==
    ASSUME BaseInv, SeenAll, ReadExact, [SteadyNext]_vars
    PROVE  ReadExact'
<1> SUFFICES ASSUME NEW s \in Session, tx'[s].op = "finalize"
             PROVE  /\ tx'[s].pc = "insert" => tx'[s].read = Kind
                    /\ \A r \in Rec, sp \in Span :
                          <<r, sp>> \in tx'[s].entries
                             <=> KindOf[r] \in tx'[s].read /\ EntryOf(row', r, sp, tx'[s].cur)
    BY DEF ReadExact, EntryOf
<1>1. TxFine(tx[s]) /\ tx[s] \in Transaction /\ tx \in [Session -> Transaction]
    BY DEF BaseInv, TypeInv, TxOK, TypeOK
<1>2. CASE tx'[s] = tx[s]
  <2>1. tx[s].op = "finalize"
      BY <1>2
  <2>2. tx[s].per \in Period
      BY <1>1, <2>1 DEF TxFine, Idle, Mutations, FinalizationOK
  <2>3. period[tx[s].per].span = tx[s].cur /\ Frozen(tx[s].per)
    <3>1. period[tx[s].per] = [status |-> "DRAFT", span |-> tx[s].cur, rate |-> tx[s].rate]
        BY <2>1 DEF BaseInv, LockInv, FinalizersAlone
    <3> QED
        BY <2>1, <3>1 DEF Frozen
  <2>4. \A r \in Rec, sp \in Span : EntryOf(row', r, sp, tx[s].cur) <=> EntryOf(row, r, sp, tx[s].cur)
      BY <2>2, <2>3, EntriesFrozen
  <2> QED
      BY <1>2, <2>1, <2>4 DEF ReadExact
<1>3. CASE tx'[s] # tx[s]
  <2>1. Finalization(s)
    <3>1. PICK t \in Session : Mutation(t) \/ Finalization(t) \/ DeadlockAbort(t) \/ Rollback(t)
        BY <1>3, PlanningSteps, Replanned, SteadyIsNext DEF Quiet, BaseInv
    <3>2. t = s
        BY <1>3, <3>1, OthersAlone DEF BaseInv
    <3>3. ~Mutation(s)
        BY MutationNotFinalizing DEF BaseInv
    <3>4. ~DeadlockAbort(s) /\ ~Rollback(s)
        BY <1>1 DEF DeadlockAbort, Rollback, Idle
    <3> QED
        BY <3>1, <3>2, <3>3, <3>4
  <2>2. UNCHANGED row
      BY <2>1 DEF Finalization, StartFinalize, ReadTable, InsertSlip, CommitFinalize
  <2>3. CASE \E p \in Period : StartFinalize(s, p)
    <3>1. tx'[s].pc = "read" /\ tx'[s].read = {} /\ tx'[s].entries = {}
        BY <1>1, <2>3 DEF StartFinalize, Idle
    <3> QED
        BY <3>1
  <2>4. CASE \E k \in Kind : ReadTable(s, k)
    <3> PICK k \in Kind : ReadTable(s, k)
        BY <2>4
    <3>1. tx[s].op = "finalize"
        BY <1>1 DEF TxFine, ReadTable, Idle, MutationOK
    <3> DEFINE more == tx[s].entries \cup Due(tx[s].cur, k)
               next == IF tx[s].read \cup {k} = Kind THEN "insert" ELSE "read"
               x == [tx[s] EXCEPT !.read = tx[s].read \cup {k}, !.entries = more, !.pc = next]
    <3>2. tx'[s] = x
        BY <1>1 DEF ReadTable
    <3>3. /\ x.read = tx[s].read \cup {k} /\ x.entries = more /\ x.pc = next
          /\ x.cur = tx[s].cur
      <4> HIDE DEF more, next
      <4> QED
          BY <1>1 DEF Transaction
    <3> HIDE DEF x
    <3>4. ASSUME NEW r \in Rec, NEW sp \in Span
          PROVE  <<r, sp>> \in more
                    <=> KindOf[r] \in tx[s].read \cup {k} /\ EntryOf(row, r, sp, tx[s].cur)
        BY <3>1, DueEntries DEF ReadExact
    <3> QED
        BY <2>2, <3>2, <3>3, <3>4
  <2>5. CASE \E e \in Employee : InsertSlip(s, e)
    <3>1. tx[s].op = "finalize"
        BY <1>1, <2>5 DEF TxFine, InsertSlip, Idle, MutationOK
    <3>2. /\ tx'[s].read = tx[s].read /\ tx'[s].entries = tx[s].entries
          /\ tx'[s].pc = tx[s].pc /\ tx'[s].cur = tx[s].cur
        BY <1>1, <2>5 DEF InsertSlip, Transaction
    <3> QED
        BY <2>2, <3>1, <3>2 DEF ReadExact
  <2>6. CASE CommitFinalize(s)
      BY <1>1, <2>6 DEF CommitFinalize, Idle
  <2> QED
      BY <2>1, <2>3, <2>4, <2>5, <2>6 DEF Finalization
<1> QED
    BY <1>2, <1>3

\* A commit stores the entries of this moment, and they stay those of the period.
LEMMA NextSlips ==
    ASSUME BaseInv, SeenAll, ReadExact, SlipsExact, [SteadyNext]_vars
    PROVE  SlipsExact'
<1> SUFFICES ASSUME NEW p \in Period
             PROVE  /\ slips'[p] # None => period'[p].status = "FINALIZED"
                    /\ period'[p].status = "FINALIZED" =>
                          \A r \in Rec, sp \in Span :
                             <<r, sp>> \in slips'[p].entries
                                <=> EntryOf(row', r, sp, period'[p].span)
    BY DEF SlipsExact, EntryOf
<1>1. CASE \E s \in Session : CommitFinalize(s) /\ tx[s].per = p
  <2> PICK s \in Session : CommitFinalize(s) /\ tx[s].per = p
      BY <1>1
  <2>1. tx[s].op = "finalize"
      BY DEF BaseInv, TypeInv, TxOK, TxFine, MutationOK, CommitFinalize, Idle
  <2>2. period[p] = [status |-> "DRAFT", span |-> tx[s].cur, rate |-> tx[s].rate]
      BY <2>1 DEF BaseInv, LockInv, FinalizersAlone
  <2>3. /\ period'[p].status = "FINALIZED" /\ period'[p].span = period[p].span
        /\ slips'[p].entries = tx[s].entries /\ UNCHANGED row
      BY DEF CommitFinalize, BaseInv, TypeInv, TypeOK, PeriodRow
  <2>4. tx[s].read = Kind
      BY <2>1 DEF ReadExact, CommitFinalize
  <2>5. \A r \in Rec : KindOf[r] \in Kind
      BY RecAssumption
  <2> QED
      BY <2>1, <2>2, <2>3, <2>4, <2>5 DEF ReadExact
<1>2. CASE ~\E s \in Session : CommitFinalize(s) /\ tx[s].per = p
  <2>1. slips'[p] = slips[p]
      BY <1>2, OnlyCommits, SteadyIsNext DEF BaseInv
  <2>2. period'[p].status = "FINALIZED" <=> period[p].status = "FINALIZED"
      BY <1>2, OnlyCommits, SteadyIsNext DEF BaseInv
  <2>3. ASSUME period'[p].status = "FINALIZED", NEW r \in Rec, NEW sp \in Span
        PROVE  <<r, sp>> \in slips'[p].entries <=> EntryOf(row', r, sp, period'[p].span)
    <3>1. period'[p].span = period[p].span
        BY <2>3, RangesFixed DEF BaseInv, LivePeriod
    <3>2. Frozen(p)
        BY <2>2, <2>3 DEF Frozen
    <3>3. EntryOf(row', r, sp, period[p].span) <=> EntryOf(row, r, sp, period[p].span)
        BY <3>2, EntriesFrozen
    <3> QED
        BY <2>1, <2>2, <2>3, <3>1, <3>3 DEF SlipsExact
  <2> QED
      BY <2>1, <2>2, <2>3 DEF SlipsExact
<1> QED
    BY <1>1, <1>2

\* No period is finalized, and no transaction runs, at first.
LEMMA InitSteady == Init => SteadyInv
<1> SUFFICES ASSUME Init PROVE SteadyInv
    OBVIOUS
<1>1. BaseInv
    BY InitTypeInv, InitRows, InitSaw, InitMatch
       DEF BaseInv, Init, LockInv, FinalizersAlone, PlansHeld, Idle, NoAsk
<1>2. SeenAll /\ ReadExact
    BY DEF Init, SeenAll, ReadExact, Idle, Mutations
<1>3. SlipsExact
    BY DEF Init, SlipsExact, NoPeriod, Drafts
<1> QED
    BY <1>1, <1>2, <1>3 DEF SteadyInv

\* While the ranges of the periods stay as they are, all of this holds for ever.
THEOREM SteadyCorrect == SteadySpec => []SteadyInv
<1>1. SteadyInv /\ [SteadyNext]_vars => SteadyInv'
    BY NextBase, NextSeen, NextRead, NextSlips DEF SteadyInv
<1> QED
    BY InitSteady, <1>1, PTL DEF SteadySpec

\* The payslips of a finalized period are the statement of its records.
LEMMA ExactStatement ==
    ASSUME SteadyInv, NEW p \in Period, period[p].status = "FINALIZED"
    PROVE  slips[p] = StatementOf(p)
<1> DEFINE current == UNION {Due(period[p].span, k) : k \in Kind}
<1>1. /\ slips[p] \in Statement
      /\ slips[p].span = period[p].span /\ slips[p].rate = period[p].rate
    BY DEF SteadyInv, BaseInv, PayslipsMatchPeriod, TypeInv, TypeOK
<1>2. slips[p].entries \in SUBSET (Rec \X Span)
    BY <1>1 DEF Statement, Entries
<1>3. current \in SUBSET (Rec \X Span)
  <2>1. \A r \in Rec : row[r].status \in {"APPROVED", "RECORDED"} => row[r].span \in Span
      BY DEF SteadyInv, BaseInv, TypeInv, RowsOK, LiveRow
  <2> QED
      BY <2>1 DEF Due
<1>4. ASSUME NEW r \in Rec, NEW sp \in Span
      PROVE  <<r, sp>> \in slips[p].entries <=> <<r, sp>> \in current
  <2>1. <<r, sp>> \in current <=> EntryOf(row, r, sp, period[p].span)
    <3>1. KindOf[r] \in Kind
        BY RecAssumption
    <3> QED
        BY <3>1, DueEntries
  <2> QED
      BY <2>1 DEF SteadyInv, SlipsExact
<1>5. slips[p].entries = current
    BY <1>2, <1>3, <1>4
<1> QED
    BY <1>1, <1>5 DEF StatementOf, Statement

\* The payslips of a finalized period state exactly the records in its range, for
\* ever, however many mutations and finalizations run at once: nothing comes between
\* their calculation and the transition to FINALIZED, and nothing changes later.
THEOREM SnapshotStaysExact == SteadySpec => []SnapshotExact
<1>1. SteadyInv => SnapshotExact
    BY ExactStatement DEF SnapshotExact
<1> QED
    BY <1>1, SteadyCorrect, PTL

-----------------------------------------------------------------------------
(* The refinement *)

\* A period with a statement is finalized, and the statement has its range.
LEMMA ClosedPeriods ==
    ASSUME SteadyInv, NEW p \in Period, slips[p] # None
    PROVE  /\ period[p].status = "FINALIZED" /\ Frozen(p)
           /\ slips[p].span = period[p].span
BY DEF SteadyInv, BaseInv, SlipsExact, PayslipsMatchPeriod, Frozen

\* The write of one record is allowed by every closed period, before and after.
LEMMA WritePosts ==
    ASSUME SteadyInv, NEW s \in Session, Writes(s)
    PROVE  \E r \in Rec : Books!Post(r)
<1> PICK r \in Rec : r = tx[s].rec
    BY WriteEffect DEF MutationOK, SteadyInv, BaseInv
<1>1. /\ UNCHANGED slips
      /\ \A q \in Rec \ {r} : row'[q] = row[q]
      /\ LiveRow(r) => row[r].span = tx[s].old
      /\ LiveRow(r)' => row'[r].span = tx[s].new
    BY WriteEffect DEF SteadyInv, BaseInv
<1>2. \A p \in Period : slips[p] # None =>
          /\ ~Overlaps(slips[p].span, tx[s].old) /\ ~Overlaps(slips[p].span, tx[s].new)
    BY ClosedPeriods, Barred DEF SteadyInv
<1>3. Books!Allowed(row[r])
    BY <1>1, <1>2 DEF Books!Allowed, Books!Exists, Books!Meet, LiveRow, Overlaps
<1>4. Books!Allowed(row'[r])
    BY <1>1, <1>2 DEF Books!Allowed, Books!Exists, Books!Meet, LiveRow, Overlaps
<1>5. Books!Post(r)
    BY <1>1, <1>3, <1>4 DEF Books!Post
<1> QED
    BY <1>5

\* The commit of a finalization closes its period with the statement of this moment.
LEMMA CommitCloses ==
    ASSUME SteadyInv, NEW s \in Session, CommitFinalize(s)
    PROVE  Books!Close(tx[s].per)
<1> DEFINE p == tx[s].per
           range == tx[s].cur
           rt == tx[s].rate
<1>1. tx[s].op = "finalize" /\ p \in Period /\ range \in Span /\ rt \in Rate
    BY DEF SteadyInv, BaseInv, TypeInv, TxOK, TxFine, FinalizationOK, MutationOK,
           CommitFinalize, Idle
<1>2. period[p] = [status |-> "DRAFT", span |-> range, rate |-> rt]
    BY <1>1 DEF SteadyInv, BaseInv, LockInv, FinalizersAlone
<1>3. slips[p] = None
    BY <1>1, <1>2 DEF SteadyInv, SlipsExact
<1>4. tx[s].entries = Books!Statement(range, rt).entries
  <2> DEFINE due == {<<r, row[r].span>> : r \in
                        {q \in Rec : Books!Payable(q) /\ Books!Meet(row[q].span, range)}}
  <2>1. tx[s].entries \in SUBSET (Rec \X Span)
      BY DEF SteadyInv, BaseInv, TypeInv, TypeOK, Transaction, Entries
  <2>2. due \in SUBSET (Rec \X Span)
    <3>1. \A r \in Rec : Books!Payable(r) => row[r].span \in Span
        BY DEF SteadyInv, BaseInv, TypeInv, RowsOK, LiveRow, Books!Payable
    <3> QED
        BY <3>1
  <2>3. ASSUME NEW r \in Rec, NEW sp \in Span
        PROVE  <<r, sp>> \in tx[s].entries <=> <<r, sp>> \in due
    <3>1. tx[s].read = Kind /\ KindOf[r] \in Kind
        BY <1>1, RecAssumption DEF SteadyInv, ReadExact, CommitFinalize
    <3>2. <<r, sp>> \in tx[s].entries <=> EntryOf(row, r, sp, range)
        BY <1>1, <3>1 DEF SteadyInv, ReadExact
    <3>3. <<r, sp>> \in due <=> EntryOf(row, r, sp, range)
        BY DEF EntryOf, Books!Payable, Books!Meet, Overlaps
    <3> QED
        BY <3>2, <3>3
  <2>4. tx[s].entries = due
      BY <2>1, <2>2, <2>3
  <2> QED
      BY <2>4 DEF Books!Statement
<1>5. slips' = [slips EXCEPT ![p] = Books!Statement(range, rt)] /\ UNCHANGED row
    BY <1>4 DEF CommitFinalize, Books!Statement
<1> QED
    BY <1>1, <1>3, <1>5 DEF Books!Close

\* Finalization is atomic: with the ranges of the periods fixed, the transactions and
\* their row locks implement FrozenLedger, where a period is closed in one step.
THEOREM LedgerImplemented == SteadySpec => ImplementsLedger
<1>1. Init => Books!LedgerInit
    BY DEF Init, Books!LedgerInit
<1>2. ASSUME SteadyInv, [SteadyNext]_vars
      PROVE  [Books!LedgerNext]_(Books!ledgerVars)
  <2>1. CASE UNCHANGED <<row, slips>>
      BY <2>1 DEF Books!ledgerVars
  <2>2. CASE \E s \in Session : Writes(s)
      BY <1>2, <2>2, WritePosts DEF Books!LedgerNext
  <2>3. CASE \E s \in Session : CommitFinalize(s)
    <3> PICK s \in Session : CommitFinalize(s)
        BY <2>3
    <3>1. tx[s].per \in Period
        BY <1>2 DEF SteadyInv, BaseInv, TypeInv, TxOK, TxFine, FinalizationOK, MutationOK,
                    CommitFinalize, Idle
    <3> QED
        BY <1>2, <3>1, CommitCloses DEF Books!LedgerNext
  <2>4. CASE ~\E s \in Session : Writes(s) \/ CommitFinalize(s)
    <3>1. row' = row
        BY <1>2, <2>4, OnlyWrites, SteadyIsNext DEF SteadyInv, BaseInv
    <3>2. \A p \in Period : slips'[p] = slips[p]
        BY <1>2, <2>4, OnlyCommits, SteadyIsNext DEF SteadyInv, BaseInv
    <3>3. slips \in [Period -> Statement \cup {None}] /\ slips' \in [Period -> Statement \cup {None}]
        BY <1>2, NextBase DEF SteadyInv, BaseInv, TypeInv, TypeOK
    <3>4. slips' = slips
        BY <3>2, <3>3
    <3> QED
        BY <2>1, <3>1, <3>4
  <2> QED
      BY <2>2, <2>3, <2>4
<1> QED
    BY <1>1, <1>2, SteadyCorrect, PTL DEF SteadySpec, ImplementsLedger, Books!Ledger
=============================================================================
