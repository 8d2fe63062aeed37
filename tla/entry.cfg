CONSTANTS
    off = off
    prod = prod
    INBOX = INBOX
    subfolder = subfolder
    okte = okte
    forwarder = forwarder
    Eics = {off, prod}
    Folders = {INBOX, subfolder}
    Holds <- MCHolds
    Senders = {okte, forwarder}
    DefaultSender = okte
    None = None
    MaxRotations = 2
    MaxReloads = 1
SPECIFICATION FairSpec
INVARIANTS TypeOK InSyncIfHeard CredentialsCurrent EicsFromFolder EntryInv
PROPERTIES PromptsJustified KnownKept RescanKeepsSenders ChoiceTakesEffect
