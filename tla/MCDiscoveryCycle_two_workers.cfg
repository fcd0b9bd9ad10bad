\* Two workers (a deploy overlaps them) read the same board, which is longer
\* than its adapter's page limit; reconciles and state updates fail, workers
\* crash.  One offer stays listed throughout, the other comes and goes.
SPECIFICATION Spec
CONSTANTS
    s1 = s1  s2 = s2  o1 = o1  o2 = o2  c1 = c1  c2 = c2
    Workers = {w1, w2}
    Sources = {s1}
    Companies = {c1}
    Offers = {o1, o2}
    NoHash = NoHash  NoSource = NoSource  NoCompany = NoCompany
    Concurrency = 2
    ChunkSize = 1
    RequiresBrowser = {}
    Capped = {s1}
    Silent = {}
    MayFail = {"board", "reconcile", "state", "crash"}
    Pinned <- PinFirst
    Dated = {}
    Movers = {}
    FullInterval = 1
    ReconcileInterval = 2
    MaxFailures = 1
    AgeCap = 2
    FailureCap = 2
    FaultCap = 1
INVARIANT HashMeansIngested
PROPERTIES ListedNeverRemoved ImplementsLedger
