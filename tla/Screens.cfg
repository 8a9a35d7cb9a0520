SPECIFICATION ScreensSpec
CONSTANTS
  MaxImports = 2
  Links = {"home", "stats", "discover", "settings", "login", "nowhere", "import", "question", "edit", "requests", "collection"}
  MaxTests = 1
  Commands <- MCCommands
  NCommands = 2
  Alone = TRUE
  MaxMade = 2
  MaxCalls = 2
  MaxIds = 2
  Limit <- MCLimit
  Unkeyed = {2}
  MaxAsks = 2
  MaxSent = 2
  MaxRows = 2
  PageSize = 1
  MaxTitles = 1
  MaxGets = 2
  NProposals = 2
  Rewrites = {1}
  MaxPosts = 2
  Readers = {"ann"}
  MaxErrands = 2
  Tours <- MCTours
INVARIANTS RouteShown OfflineAnnounced WizardTruthful KeyKept PicturesResolve ListFaithful SettingsTrue OwnerPagesTrue
CHECK_DEADLOCK FALSE
