CONSTANTS
    Day <- ThreeDays
    DaysPerMonth = 1
    Life = 2
    Employment = {e1}
    Leave = {l1, l2}
    Session = {s1}
    Ask <- SingleDays
    JoinDate = {}
    Anchor = {}
    None = None
SYMMETRY Symmetry
SPECIFICATION Spec
INVARIANTS NeverInvents
CHECK_DEADLOCK FALSE
