\* Two sessions, up to three requests, two applications, one stop.
SPECIFICATION Spec
CONSTANTS
    Sessions = {s1, s2}
    s1 = s1
    s2 = s2
    NoApp = NoApp
    NoRow = NoRow
    MaxApps = 2
    MaxTexts = 2
    MaxRequests = 3
    MayStop = TRUE
SYMMETRY Symmetric
CHECK_DEADLOCK FALSE
INVARIANTS
    OfferIsFrozen
    OneApplicationPerOffer
    LogKeepsUp
