CONSTANTS
    r1 = r1
    r2 = r2
    e1 = e1
    s1 = s1
    Date <- MCDate
    Period = {p1, p2}
    Rec = {r1, r2}
    Employee = {e1}
    Rate = {15, 16}
    Session = {s1, s2}
    KindOf <- LogAndClaim
    OwnerOf <- OneOwner
    None = None
SYMMETRY Symmetry
SPECIFICATION Spec
INVARIANTS TypeOK NoDayPaidTwice PayslipsMatchPeriod
PROPERTIES LateWritesRaced DecisionsFinal
CONSTRAINT OneThing
CHECK_DEADLOCK FALSE
