CONSTANTS
    Day <- ThreeDays
    DaysPerMonth = 3
    Life = 1
    Employment = {e1, e2}
    Leave = {}
    Session = {s1, s2}
    Ask = {}
    JoinDate = {1}
    Anchor = {1}
    None = None
SYMMETRY Symmetry
SPECIFICATION Spec
INVARIANTS EmploymentsApart AccruesByType
PROPERTIES TerminationFinal
CHECK_DEADLOCK FALSE
