CONSTANTS
    LastDay = 3
    FirstHour <- MCFirstHour
    LastVersion = 2
    Power <- MCPower
    Lookback = 2
    Shift = 1
    Backlog = 1
    Faults = {"restart"}
SPECIFICATION Spec
PROPERTIES RefinesHours
