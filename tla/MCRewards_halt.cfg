SPECIFICATION Spec
CONSTANTS
    Prec = 100
    Denoms = {akii}
    NoDenom = NoDenom
    Supply = 6
    MaxAmount = 6
    TicksPerSecond = 2
    Horizon = 9
    EndTimes = {5, 8}
    LastTimes = {0, 2, 5}
    MaxLead = 1
INVARIANTS CalculationNeverHalts
CHECK_DEADLOCK FALSE
