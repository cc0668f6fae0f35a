CONSTANTS
    r1 = r1
    r2 = r2
    e1 = e1
    s1 = s1
    Date <- MCDate
    Period = {p1}
    Rec = {r1, r2}
    Employee = {e1}
    Rate = {15}
    Session = {s1, s2, s3}
    KindOf <- LogAndLeave
    OwnerOf <- OneOwner
    None = None
SPECIFICATION MCSteadySpec
INVARIANTS SnapshotExact
PROPERTIES ImplementsLedger TransactionsEnd
CHECK_DEADLOCK FALSE
