SPECIFICATION Spec
CONSTANTS
  Texts = {1, 2}
  LegacyTokens <- TokensBefore
  UnicodeTokens <- TokensNow
  HashToken <- OneBucket
  HashEdge <- FewBuckets
  GroupKey <- ByLength
  BytesAfter <- FewBytes
  OldTexts <- FirstIsOld
  NodeCapacity = 3
  EdgeCapacity = 2
  EpisodeMax = 2
  SummarySize = 2
  GroupTokenMax = 3
  EventCapacity = 1
  NodeFloor = 2
  EdgeFloor = 2
  None = None
  MaxEntries = 3
  MaxEvents = 2
  MaxRecalls = 1
  MaxExcluded = 1
  MaxArchitecture = 1
  Concepts = {"a", "b"}
  Signs = {1}
  Declared = {0}
  Ceilings = {1}
INVARIANTS IndexesFindEverything RecallIsExact ValenceFollowsItsToken SnapshotsLoad
PROPERTIES RejectedWhole
CHECK_DEADLOCK FALSE
