\* Three boards of one vendor; only two of them mind robots.txt.
SPECIFICATION FairSpec
CONSTANTS
    a = a  b = b  d = d  x = x  y = y
    Callers = {a, b, d}
    Origins = {x, y}
    Origin <- OneHostEach
    Skips = {d}
    Unread = Unread  NoAsk = NoAsk
    Gap = 2
    CrawlDelays = {3}
    Budget = 3
    MaxStrikes = 2
    MaxRetries = 2
    Backoff <- Backoffs
    Asks = {1, 3, 9}
    PauseCap = 6
    LongPause = 4
    AskCap = 2
    HitCap = 3
INVARIANT OvershootBounded
PROPERTIES FirstAttemptsWait DroppedSendsNoPage EveryCallSettles
