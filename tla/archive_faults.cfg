CONSTANTS
    off = off
    prod = prod
    okte = okte
    stranger = stranger
    Eics = {off, prod}
    Suffixes = {"supplier"}
    Series <- OneSeries
    LastDay = 2
    LastVersion = 2
    Messages = {9, 10, 11}
    Mail <- Corrections
    ByteRank <- MCByteRank
    AcceptedSearches = {"TOKEN"}
    Faults = {"imap", "recorder", "restart", "crash"}
    Backlog = 1
    Enablements <- BothEnabled
    Allowlist <- OnlyOkte
    ScanWindow = 1
    BufferDays = 1
    MaxBackfill = 0
    CleanupMode = "archive"
    DeleteAfter = 1
    Buttons = {}
    WindowStates = {TRUE}
SPECIFICATION Spec
INVARIANTS NoMailLost
