CONSTANTS
    r1 = r1
    r2 = r2
    Request = {r1, r2}
    FileOf <- OwnFile
    Date = {1}
    Hr = {h1}
    Owner = owner
    Employment = {}
    ContractEnd = {}
    Session = {s1, s2}
    None = None
SYMMETRY Symmetry
SPECIFICATION Spec
INVARIANTS OneOvertimePerDate
CHECK_DEADLOCK FALSE
