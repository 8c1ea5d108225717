SPECIFICATION RunSpec
CONSTANTS
  None = None
  Actions = {n1, n2}
  Citations = {r1}
  ExpectationWindow = 1
  RepeatWindow = 1
  IntentWindow = 1
  MaxActive = 1
  MaxContinuations = 1
  Rules <- TheRules
  Skews = {0}
  JournalTime = 3
  MaxStops = 1
  MaxAttempts = 2
  MaxUnwritten = 1
  Sources = {n1, n2}
  ActionIds = {1}
  Base = 2
  Letters = 1
  Digits = 3
  DrainRecords = 2
  RecheckWindow = 2
  Instants = {1}
  MaxLines <- TheLines
  MaxItems = 3
  DrainFaults = 1
  MaxMoves = 1
  Procs = {n1, n2}
  Topics = {n1, n2}
  ReflectionWindow = 1
  Cadence = 1
  MaxThoughts = 2
  ReflectionTime = 2
  StoreRecords = 2
  MaxPasses = 3
  MaxCrashes = 1
  Nil = Nil
  Contenders = {n1, n2, r1}
  EmptyRetries = 1
  WriteFaults = TRUE
  MaxDeaths = 1
  Uris = {r1}
  StreamTexts = {n1, n2}
  StreamLength = 3
  MaxNoise = 1
  StreamFaults = 1
  MaxRuns = 2
  LegacyRecords = 3
  UpgradeFaults = 2
  Hosts <- TheHosts
  Overrides <- TheOverrides
  Classes <- TheClasses
  Disk = 40
  MemoryFloor = 4
  MemoryCap = 32
  DiskFloor = 6
  DiskCap = 32
  EdgeBytes = 1
  ObservationBytes = 2
  WriteMinimum = 2
  GrowthMinimum = 2
  PageStep = 2
  PagePerCpu = 2
  MaxPage = 3
  PressurePage = 1
  Growths <- TheGrowths
  MaxWritten = 4
  MaxNodes = 6
  MaxEdges = 8
SYMMETRY Symmetric
INVARIANTS
  
  EventsLinkOnce
  ResolutionsOnlyImprove
  ConversationsAreBounded
  PublicationIsTrue
  PassesAreSerial
  LiveOwnerIsRespected
  CursorBehindHandled
  ChangesAreAccounted
  UpgradeKeepsHistory
  BudgetKeepsReserve
CHECK_DEADLOCK FALSE
