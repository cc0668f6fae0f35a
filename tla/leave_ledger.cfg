CONSTANTS
    Day <- ThreeDays
    DaysPerMonth = 1
    Life = 2
    Employment = {e1, e2}
    Leave = {l1, l2}
    Session = {s1, s2}
    JoinDate = {}
    Ask <- TwoThenOne
    Anchor = {}
    None = None
SYMMETRY Symmetry
SPECIFICATION Spec
INVARIANTS TypeOK NoDoubleBooking LeavePaidFor
CONSTRAINT OneOfTwo
CHECK_DEADLOCK FALSE
