\* Every call can fail, the worker can crash (twice in all), the company joins
\* and leaves the board.
SPECIFICATION FairSpec
CONSTANTS
    s1 = s1  s2 = s2  o1 = o1  o2 = o2  c1 = c1  c2 = c2
    Workers = {w1}
    Sources = {s1}
    Companies = {c1}
    Offers = {o1, o2}
    NoHash = NoHash  NoSource = NoSource  NoCompany = NoCompany
    Concurrency = 2
    ChunkSize = 2
    RequiresBrowser = {}
    Capped = {}
    Silent = {}
    MayFail = {"list", "board", "batch", "reconcile", "state", "expire", "notify", "crash"}
    Pinned <- NoPins
    Dated = {}
    Movers = {c1}
    FullInterval = 1
    ReconcileInterval = 2
    MaxFailures = 1
    AgeCap = 2
    FailureCap = 2
    FaultCap = 2
PROPERTIES ListedOffersOpen DroppedOffersClose
