\* One board whose adapter takes a page it could not read for the last one.
SPECIFICATION Spec
CONSTANTS
    s1 = s1  s2 = s2  o1 = o1  o2 = o2  c1 = c1  c2 = c2
    Workers = {w1}
    Sources = {s1}
    Companies = {c1}
    Offers = {o1, o2}
    NoHash = NoHash  NoSource = NoSource  NoCompany = NoCompany
    Concurrency = 2
    ChunkSize = 2
    RequiresBrowser = {}
    Capped = {}
    Silent = {s1}
    MayFail = {"board"}
    Pinned <- PinFirst
    Dated = {}
    Movers = {}
    FullInterval = 1
    ReconcileInterval = 2
    MaxFailures = 1
    AgeCap = 2
    FailureCap = 2
    FaultCap = 1
PROPERTY ListedNeverRemoved
