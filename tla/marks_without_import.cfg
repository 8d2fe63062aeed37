CONSTANTS
    off = off
    prod = prod
    okte = okte
    stranger = stranger
    Eics = {off, prod}
    Suffixes = {"supplier", "shared"}
    Series <- MCSeries
    LastDay = 3
    LastVersion = 2
    Messages = {9, 10, 11}
    Mail <- Corrections
    ByteRank <- MCByteRank
    AcceptedSearches <- TextOnly
    Faults = {"recorder"}
    Backlog = 1
    Enablements <- BothEnabled
    Allowlist <- OnlyOkte
    ScanWindow = 2
    BufferDays = 1
    MaxBackfill = 0
    CleanupMode = "leave"
    DeleteAfter = 1
    Buttons = {"poll_now", "full_rescan"}
    WindowStates = {TRUE, FALSE}
SPECIFICATION Spec
INVARIANTS StoreMarksLanded
