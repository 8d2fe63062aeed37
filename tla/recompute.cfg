CONSTANTS
    LastDay = 3
    FirstHour <- MCFirstHour
    LastVersion = 2
    Power <- MCPower
    Lookback = 2
    Shift = 0
    Backlog = 1
    Faults = {"recorder", "store", "restart", "crash"}
SPECIFICATION Spec
INVARIANTS TypeOK  RecomputeInv
PROPERTIES RefinesHours
