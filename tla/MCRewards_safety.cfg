SPECIFICATION Spec
CONSTANTS
    Prec = 100
    Denoms = {akii, uusd}
    NoDenom = NoDenom
    Supply = 2
    MaxAmount = 2
    TicksPerSecond = 2
    Horizon = 8
    EndTimes = {3, 7}
    LastTimes = {0, 1}
    MaxLead = 1
INVARIANTS TypeOK PoolBacked ScheduleFunded NeverInsolvent
PROPERTIES ScheduleDrains EndReleasesAll NearExactShare FinishedMeansPaid
CHECK_DEADLOCK FALSE
