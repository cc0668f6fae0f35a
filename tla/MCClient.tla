------------------------------- MODULE MCClient -------------------------------
(***************************************************************************)
(* An account of each role, of which HR's may end.  Queries with the same  *)
(* pages and changes around them, and pages and changes that the followed  *)
(* query cannot tell apart, are represented by one of them, and a change   *)
(* the query has nothing to do with by none.                               *)
(***************************************************************************)
EXTENDS Client

MCKind == [a \in Account |-> IF a = "hr" THEN "HR" ELSE "FULL_TIME"]

Matters(q, m) == Writes[m] \cap Reads[q] # {} \/ q \in Invalidates[m]
Role(q, m) ==
    <<Writes[m] \cap Reads[q] # {}, q \in Invalidates[m], m \in Awaited, After[m]>>
Offers(a, q, path) == {m \in Screen(path, a).offers : Matters(q, m)}
Part(a, q, path) ==
    <<q \in Screen(path, a).mounts, {Role(q, m) : m \in Offers(a, q, path)},
      path = "/dashboard">>
Open(a) == {path \in Path : Target(path, a) = path}
Shape(q) ==
    <<[a \in Account |-> {Part(a, q, path) : path \in Open(a)}],
      q \in Polled, q \in AppLayout, q \in {"notifications", "unread"}>>

Queries == {CHOOSE r \in Query : Shape(r) = Shape(q) : q \in Query}
Pages ==
    [a \in Account, q \in Queries |->
        {CHOOSE p \in Open(a) : Part(a, q, p) = Part(a, q, path) : path \in Open(a)}]
Changes ==
    [a \in Account, q \in Queries, path \in Path |->
        {CHOOSE n \in Offers(a, q, path) : Role(q, n) = Role(q, m) :
            m \in Offers(a, q, path)}]

\* Bounds: of two changes somebody else makes the first or none, and the employee only the
\* first; nothing is sent after the last; HR's access ends before any.  Nobody signs in again
\* while a fetch of theirs is under way, and somebody else's mutation is over before the
\* next account leaves its first page.
MCLogin ==
    \E a \in Account :
       /\ flight # None => flight.by # a \/ ~flight.orphan
       /\ Login(a)
MCNavigate ==
    /\ user # None /\ (call # None => call.by = user)
    /\ \E path \in Pages[user, query] : Navigate(path)
MCSend ==
    /\ \/ user = "hr" /\ version < MaxVersion
       \/ user = "staff" /\ version = 0
    /\ \E m \in Changes[user, query, page] : Send(m)
MCEndAccess == user = "hr" /\ version = 0 /\ EndAccess("hr")
MCSomeoneElse == version = 0 /\ SomeoneElse

MCNext == MCLogin \/ MCNavigate \/ MCSend \/ MCEndAccess \/ MCSomeoneElse \/ Step

MCInit == Init /\ query \in Queries

MCSpec == MCInit /\ [][MCNext]_vars /\ Fairness
=============================================================================
