CONSTANTS
    Date <- FiveDays
    Weekend <- DayOff
    Period = {"first", "second"}
    RangeOf <- TwoPeriods
    MonthlySalary = 7
    HourlyRate = 3
    Hours = 1
    Amount = 5
    StandardDays = 1
    StandardHours = 2
    MaxEmployments = 1
    MaxEntries = 1
    None = None
SPECIFICATION MCSpec
INVARIANTS ReprintsAddUp
