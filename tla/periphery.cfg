SPECIFICATION Spec
CONSTANTS
  Batch = 2
  MaxCap = 8
  Asked <- MCAsked
  NaN = NaN
  MaxTicks = 10
  Keys = {"plain", "api"}
  Seeds <- MCSeeds
  NewRows <- MCNewRows
  OthersRows <- MCOthersRows
  Typed = {"t"}
  Empty = ""
  Dots = "**"
  NoKey = "none"
  NoRow = NoRow
  MaxCalls = 4
  Keep = 3
  Replay = 2
  Sources <- MCSources
  MaxEvents = 4
  MaxMounts = 2
  NoSource = NoSource
  ChainOf <- MCChainOf
  Default = "arbitrum"
  Known = {1}
  Transfers = {1, 2}
  MaxMoves = 1
  NoChain = 0
  Parts = 2
  DeployRuns = {1, 2}
  Targets <- MCTargets
  Torn = Torn
  NoFile = NoFile
  Provisions = {1, 2}
  Fundings = {1, 2}
  Goal = 2
  NoKeyFile = NoKeyFile
  TornKey = TornKey
  Calls = {1}
  Usages <- MCUsages
  OtherCards <- MCOtherCards
  Window = 0
  MaxNow = 1
  NoProvider = NoProvider
  MaxTurns = 2
  MaxTools = 2
  ScriptPays = 2
  Plan <- MCPlan
  Bonded <- MCBonded
  Visits <- MCVisits
  Payments = {"a", "A", "b", "f"}
  TextOf <- MCTextOf
  Forged = {"f"}
  MaxStops = 1
  Makings <- MCMakings
  NoPayment = "none"
  NoMaking = NoMaking
  Demos = {1, 2}
  Presets = {"arc", "arbitrum"}
  Deployed = {"arc"}
  LiveNetwork = "arbitrum"
  MaxPolls = 2
  NoNetwork = "none"
  Tabs = {1, 2}
  Users = {"u", "op"}
  Operators = {"op"}
  ApiKeys = {"k"}
  MaxForms = 3
  Nobody = "nobody"
  NoApiKey = "none"
INVARIANTS
  ShownIsOneRun
  KeysStayWithTheirOrg
  UnbilledIsLessThanABatch
  SavesItsOwnDraft
  WireIsTheTail
  SentOnItsChain
  NamesOneLiveSet
  SettingsSurvive
  DoneOnce
  CompletedIsShownWhole
  CostIsHonest
  AccountsForPurchases
  LateIsRefused
  ScaffoldIsWhole
PROPERTIES
  StreamEnds
  PanelComesBack
CHECK_DEADLOCK FALSE
