CONSTANTS
    off = off
    prod = prod
    okte = okte
    stranger = stranger
    Eics = {off, prod}
    Suffixes = {"supplier"}
    Series <- OneSeries
    LastDay = 2
    LastVersion = 2
    Messages = {9, 10, 11}
    Mail <- Corrections
    ByteRank <- MCByteRank
    AcceptedSearches <- TextOnly
    Faults = {"imap", "restart"}
    Backlog = 1
    Enablements <- BothEnabled
    Allowlist <- OnlyOkte
    ScanWindow = 1
    BufferDays = 1
    MaxBackfill = 0
    CleanupMode = "leave"
    DeleteAfter = 1
    Buttons = {}
    WindowStates = {TRUE, FALSE}
SPECIFICATION FairSpec
PROPERTIES EventuallyImported
