\* The tables as they were before offers had the key of their opening.
SPECIFICATION MCSpec
CONSTANTS
    here = here  there = there
    u1 = u1  u2 = u2  u3 = u3  e1 = e1  e2 = e2  e3 = e3
    k1 = k1  k2 = k2  k3 = k3  p = p  q = q
    Boards = {here, there}
    Urls = {u1, u2, u3}
    Ids = {e1, e2, e3}
    Keys = {k1, k2, k3}
    Cities = {p, q}
    NoId = NoId  NoHash = NoHash  NoRow = NoRow
    Versions <- AllOffers
    Alike <- Twins
    Reordered <- Twins
    Settings <- SerialAndStops
    MaxOffers = 2
    MaxDigests = 2
    MaxChanges = 1
    MAX_OFFERS_PER_DIGEST = 1
    WINDOW = 1
    ATTEMPTS = 2
    MAX_STALLED = 1
    Notifiers = {n1}
    Runs = {r1, r2}
    Words = {acme}
    Platforms = {p, q}
    Nothing = Nothing
    Hand = Hand
    acme = acme
    MaxEdits = 1
    Users = {v1, v2}
    OldTables <- AllTables
    v1 = v1
    v2 = v2
    NoApp = NoApp
    app = app
PROPERTY MostEngagedWins
CHECK_DEADLOCK FALSE
