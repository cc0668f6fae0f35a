---------------------------- MODULE MCPeriodLock ----------------------------
(* Small instances of PeriodLock for TLC. *)
EXTENDS PeriodLock, FiniteSets, TLC

CONSTANTS r1, r2, e1, s1

\* Records of one employee: a daily log and a claim, ...
LogAndClaim == (r1 :> "log") @@ (r2 :> "claim")

\* ... or a daily log and a leave request.
LogAndLeave == (r1 :> "log") @@ (r2 :> "leave")
OneOwner == [r \in Rec |-> e1]

MCDate == 1..2

Symmetry == Permutations(Session) \cup Permutations(Period)

(***************************************************************************)
(* Bounds of the run where ranges change: a behaviour uses one of the two  *)
(* records, which meet nowhere but in the periods, or no record and a PATCH *)
(* that gives a period, planned at rate 15, another rate and nothing else. *)
(***************************************************************************)
Used ==
    {r \in Rec : row[r].status # "none" \/ \E s \in Session : r \in {tx[s].rec, ask[s].rec}}

Repriced == {p \in Period : period[p].rate \notin {None, 15}}
Repricing == {s \in Session : ask[s].rate \notin {None, 15}}

OneThing ==
    /\ Cardinality(Used) <= 1 /\ Cardinality(Repriced) <= 1
    /\ Used = {} \/ Repriced \cup Repricing = {}
    /\ \A s \in Repricing : ask[s].op = "patch" /\ ask[s].new = None

(***************************************************************************)
(* Bounds of the run under fairness, where TLC can use no symmetry: the    *)
(* periods planned beforehand cover the first day, which leave is asked    *)
(* for.  Session s1 serves HR's requests about periods, the others serve   *)
(* the owners of records.                                                  *)
(***************************************************************************)
FirstDay == <<1, 1>>

Hr(s) ==
    \/ \E p \in Period, op \in {"finalize", "delete"} : AskPeriod(s, op, p)
    \/ \E p \in Period, rt \in Rate : AskPatch(s, p, None, rt)
    \/ Finalization(s) \/ Editing(s)

Owner(s) ==
    \/ AskLeave(s, r2, FirstDay)
    \/ \E sp \in Span : AskMove(s, r1, sp)
    \/ AskRemove(s, r1)
    \/ Mutation(s)

MCSteadyInit == Init /\ \A p \in Period : period[p].span \in {None, FirstDay}

MCSteadyNext ==
    \/ Hr(s1)
    \/ \E s \in Session \ {s1} : Owner(s)
    \/ \E s \in Session : TurnedAway(s) \/ DeadlockAbort(s) \/ Rollback(s)

MCSteadySpec == MCSteadyInit /\ [][MCSteadyNext]_vars /\ Fairness
=============================================================================
