SPECIFICATION MCSpec
CONSTANTS
    User = {hr, staff}
    Employee = {emp}
    Password = {p1, p2}
    Session = {s1, s2}
    BootstrapUser = hr
    SeedHr = hr
    SeedStaff <- MCSeedStaff
    None = None
INVARIANTS TypeOK HrRemains
PROPERTIES SignInWorks AccountsSurvive Recovers
CHECK_DEADLOCK FALSE
