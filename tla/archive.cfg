CONSTANTS
    off = off
    prod = prod
    okte = okte
    stranger = stranger
    Eics = {off, prod}
    Suffixes = {"supplier", "shared"}
    Series <- MCSeries
    LastDay = 2
    LastVersion = 2
    Messages = {9, 10, 11}
    Mail <- Corrections
    ByteRank <- MCByteRank
    AcceptedSearches <- TextOnly
    Faults = {"otherClient"}
    Backlog = 1
    Enablements <- MayDisable
    Allowlist <- OnlyOkte
    ScanWindow = 2
    BufferDays = 1
    MaxBackfill = 0
    CleanupMode = "archive"
    DeleteAfter = 1
    Buttons = {"poll_now", "full_rescan"}
    WindowStates = {TRUE, FALSE}
SPECIFICATION Spec
INVARIANTS ArchivedLanded UninterruptedInv
PROPERTIES RefinesLedger
