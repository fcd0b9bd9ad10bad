\* Every sheet: an offer and a profile, a board, a field of places, a read, copies,
\* a dashboard.
CONSTANTS
  a = a
  b = b
  REMOTE = "REMOTE"
  Unknown = Unknown
  Values = {a, b, "REMOTE"}
  None = None
  Nowhere = Nowhere
  PAGE_SIZE = 2
  MAX_PAGES = 2
  MatchCases <- Matches
  BoardCases <- Boards
  PlaceCases <- PlainFields
  ListingCases <- Reads
  CopyCases <- Copies
  DashboardCases <- Dashboards
SPECIFICATION Spec
INVARIANTS
  MissIsHidden
  UnknownNeverHurts
  BoardAddsUp
  NothingLost
  ListingHonest
CHECK_DEADLOCK FALSE
