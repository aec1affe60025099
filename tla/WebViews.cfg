\* Every response header, pair of frames and split into reads; one view of two sessions; texts of up to four tokens under three sets of limits; histories of up to five lines; one session and four list requests of one page.
SPECIFICATION Spec
CONSTANTS
    Preambles <- ThePreambles
    Frames <- TheFrames
    s1 = s1
    s2 = s2
    b1 = b1
    b2 = b2
    Sessions = {s1, s2}
    Browsers = {b1, b2}
    Shows <- TheShows
    Chunks = {2}
    MaxEpoch = 3
    MaxOutput <- TheOutputs
    Texts <- TheTexts
    ParseLimits <- TheLimits
    LineOverhead = 1
    RunOverhead = 2
    MaxSGR = 3
    LabelBytes = 3
    Histories <- TheHistories
    Cursors = {c1, c2, c3, c4}
    PageMaxLines = 3
    PageMaxBytes = 10
    PageEnvelope = 3
    TabIDs = {t1}
    MaxRefresh = 4
CHECK_DEADLOCK FALSE
INVARIANTS
    ObserverExact
    
    LimitsExact
    PagesExact
PROPERTIES
    ActivityExact
    TabsKeepUp
    ClosedMeansListed
