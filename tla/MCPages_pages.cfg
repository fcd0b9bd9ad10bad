\* Seven pages side by side; calls fail, answers get lost, people act in between.
CONSTANTS
  NoUrl = NoUrl
  Shut = Shut
  Filters = {remote}
  MaxPushes = 3
  MaxCalls = 3
  NoPane = NoPane
  Apps = {x, y}
  Statuses = {"WISHLIST", "APPLIED"}
  Unset = Unset
  MaxDrags = 2
  None = None
  Kinds = {"RESUME", "COVER_LETTER"}
  Resume = "RESUME"
  Names = {"b", "c"}
  Given = "a"
  MaxFiles = 2
  MaxActs = 6
  Nobody = Nobody
  Tabs = {t1, t2}
  MaxOps = 4
  NoRow = NoRow
  Idle = Idle
  PageSize = 1
  MaxCompanies = 2
  MaxTasks = 4
  Ids = {1, 2}
  MaxListActs = 4
  NoId = NoId
  Looks = {red, blue}
  NoLook = NoLook
  Delay = 2
  MaxPicks = 4
SPECIFICATION Spec
INVARIANTS
  UrlFollowsChoices
  PaneTellsTruth
  CardsSettle
  LibraryTellsTruth
  CompanyKeeps
  ListSettles
  PreviewSettles
PROPERTIES
  ProfileTellsTruth
CHECK_DEADLOCK FALSE
