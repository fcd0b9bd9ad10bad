\* One board of two companies; the board's adapter hides a failed page, the
\* board request may fail, one offer has an end date, batches, reconciles and state updates succeed.
SPECIFICATION Spec
CONSTANTS
    s1 = s1  s2 = s2  o1 = o1  o2 = o2  c1 = c1  c2 = c2
    Workers = {w1}
    Sources = {s1}
    Companies = {c1, c2}
    Offers = {o1, o2}
    NoHash = NoHash  NoSource = NoSource  NoCompany = NoCompany
    Concurrency = 2
    ChunkSize = 1
    RequiresBrowser = {}
    Capped = {}
    Silent = {s1}
    MayFail = {"board", "list"}
    Pinned <- NoPins
    Dated = {o2}
    Movers = {}
    FullInterval = 1
    ReconcileInterval = 2
    MaxFailures = 1
    AgeCap = 2
    FailureCap = 2
    FaultCap = 1
INVARIANTS TypeOK RowsMirrorHash InsertsAreAnnounced
