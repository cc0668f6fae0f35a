CONSTANTS
    r1 = r1
    r2 = r2
    Request = {r1}
    FileOf <- OwnFile
    Date = {1}
    Hr = {h1, h2}
    Owner = owner
    Employment = {e1}
    ContractEnd = {c1}
    Session = {s1, s2}
    None = None
SYMMETRY Symmetry
SPECIFICATION Spec
INVARIANTS TypeOK QueueHonest ToldOnce AnnouncedToReaders EvidenceKept OneReminder
CHECK_DEADLOCK FALSE
