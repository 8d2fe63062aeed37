CONSTANTS
    off = off
    prod = prod
    okte = okte
    stranger = stranger
    Eics = {off, prod}
    Suffixes = {"supplier", "shared"}
    Series <- MCSeries
    LastDay = 3
    LastVersion = 2
    Messages = {9, 10, 11}
    Mail <- Forwarded
    ByteRank <- MCByteRank
    AcceptedSearches <- TextOnly
    Faults = {"imap", "store", "restart", "crash"}
    Backlog = 1
    Enablements <- MayDisable
    Allowlist <- OnlyOkte
    ScanWindow = 1
    BufferDays = 1
    MaxBackfill = 0
    CleanupMode = "leave"
    DeleteAfter = 1
    Buttons = {"full_rescan"}
    WindowStates = {TRUE}
SPECIFICATION Spec
INVARIANTS NeverReprocessed SavedInv
PROPERTIES SavedStays FreshnessNeverRollsBack
