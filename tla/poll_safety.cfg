CONSTANTS
    off = off
    prod = prod
    okte = okte
    stranger = stranger
    Eics = {off, prod}
    Suffixes = {"supplier", "shared"}
    Series <- MCSeries
    LastDay = 3
    LastVersion = 2
    Messages = {9, 10, 11}
    Mail <- Corrections
    ByteRank <- MCByteRank
    AcceptedSearches <- TextOnly
    Faults = {"imap", "store"}
    Backlog = 1
    Enablements <- BothEnabled
    Allowlist <- OnlyOkte
    ScanWindow = 2
    BufferDays = 1
    MaxBackfill = 0
    CleanupMode = "delete"
    DeleteAfter = 1
    Buttons = {}
    WindowStates = {TRUE}
SPECIFICATION Spec
INVARIANTS TypeOK StoreMarksLanded LandedInv
PROPERTIES OnlyOldDeleted RecentMailCollected
