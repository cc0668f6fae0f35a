----------------------------- MODULE MCAccounts -----------------------------
(***************************************************************************)
(* A small instance of Accounts: the HR account both scripts create, an    *)
(* employee's account that HR may also create as a second HR account, one  *)
(* employment, and two requests at once.                                   *)
(***************************************************************************)
EXTENDS Accounts

\* Bounds: requests are alike, so the next one is given to some session that is free; a
\* password is set while no other request is served.
Alone(x) == x.op = "password" \/ (x.op = "update" /\ Sets(x.set, "pw"))

MCAsked ==
    LET free == {s \in Session : Serve(s)}
        busy == Session \ free
    IN /\ free # {} /\ \A s \in busy : ~Alone(req[s])
       /\ \E u \in User : Asked(CHOOSE s \in free : TRUE, u)
       /\ busy # {} => \A s \in free : ~Alone(req'[s])

MCNext ==
    /\ \/ Boot \/ Stop \/ MCAsked
       \/ \E e \in Employee : LastDayPasses(e)
       \/ \E u \in User : Expire(u)
       \/ \E s \in Session : Answered(s)
    /\ Observe

MCSpec == Init /\ [][MCNext]_vars /\ Fairness

MCSeedStaff == [user : User \ {SeedHr}, employee : Employee]
=============================================================================
