SPECIFICATION TabSpec
CONSTANTS
    Tiers = {t1, t2}
    NoTier = NoTier
    MaxQty = 2
    MaxBroadcasts = 1
    MaxLosses = 1
    Clicks = {c1, c2}
    MaxPrice = 2
    MaxFaults = 1
    MaxUnread = 2
CHECK_DEADLOCK FALSE
INVARIANTS
    SaveTriedBeforeCharge
    OneConfirmationPerForm
    SelectionIsWhatIsSold
PROPERTIES
    ConfirmsItsIntent
    EveryClickEnds
