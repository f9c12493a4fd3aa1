SPECIFICATION Spec
CONSTANTS
    Rates <- SomeRates
    Second = 5
    MaxTicks = 9
CHECK_DEADLOCK FALSE
INVARIANT TypeOK
INVARIANT DiesOnlyOfBadRate
INVARIANT Paced
INVARIANT ReportsHonest
