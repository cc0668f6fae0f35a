CONSTANTS
    Account = {"hr", "staff"}
    Kind <- MCKind
    MaxVersion = 2
    None = None

SPECIFICATION MCSpec
INVARIANTS TypeOK OwnWritesShown SavedThenShown OthersDataOrphaned
PROPERTY BadgeCatchesUp
CHECK_DEADLOCK FALSE
