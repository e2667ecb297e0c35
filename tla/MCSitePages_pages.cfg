SPECIFICATION SiteSpec
CONSTANTS
    MaxCeremonies = 3
    MaxUnread = 3
    MaxFaults = 1
    MaxTokens = 3
    MaxSubmits = 3
    MaxRechecks = 1
    MaxTouches = 3
    MaxOpens = 1
    MaxFrames = 2
    MaxPresses = 2
    MaxGrabs = 3
    MaxHides = 3
    MaxDrops = 2
    MaxBeats = 2
    t1 = t1
    t2 = t2
    t3 = t3
    Listing <- MCListing
    OrderOf <- MCOrderOf
    Matching <- MCMatching
    MaxMoves = 3
    MaxPlaces = 3
    MaxTries = 1
    MaxRebuilds = 1
    MaxLost = 2
    MaxQueries = 1
    MaxSearches = 2
    MaxActs = 2
    MaxScans = 2
    MaxBroken = 2
    MaxEdits = 2
    MaxMishaps = 1
    founding = founding
    opening = opening
    anniversary = anniversary
    Items <- MCItems
    TagsOf <- MCTagsOf
    DecadeOf <- MCDecadeOf
    MaxFades = 2
    Slides = 3
    MaxStarts = 4
    Years = 2
    MaxJumps = 1
    MaxAsked = 1
    MaxOffline = 1
CHECK_DEADLOCK FALSE
INVARIANTS
    SiteTypeOK
    TokenIsSentOnce
    PullCancelsItsModal
    PinFollowsPlace
    ListAnswersNewestSearch
    DeskIsTrue
    LastEditIsSaved
    GalleryKeepsUp
    TimelineShowsFilter
    CarouselRests
PROPERTIES
    OnlyTheLatestCeremonyCounts
    WaitingEnds
    GestureEnds
    DeadSocketIsReplaced
    CameraIsReleased
