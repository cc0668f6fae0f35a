CONSTANTS
    Date <- FiveDays
    Weekend <- DayOff
    Period = {"first", "second"}
    RangeOf <- TwoPeriods
    MonthlySalary = 7
    HourlyRate = 3
    Hours = 1
    Amount = 5
    StandardDays = 1
    StandardHours = 2
    MaxEmployments = 2
    MaxEntries = 2
    None = None
SPECIFICATION MCSpec
INVARIANTS TypeOK NetNeverNegative PaidByTheDay AttendanceHonest ProrationAgrees SplitFair LeaveCountedOnce PaidOnce PrintsAddUp
