\* Every text of up to the lengths of MCMaxText, every way to split a stream of 24
\* samples at five speeds, the packages of two models in four folders, every
\* request with two profiles, two sentences on two endpoints with one seek, one loss
\* and one move, and downloads of two revisions with three faults.
SPECIFICATION Spec
CONSTANTS
  MaxText <- MCMaxText
  Batch = 3
  Hop = 3
  Tolerance = 2
  Ratios <- MCRatios
  MaxInput = 24
  UserFolders <- MCUser
  AppFolders <- MCApp
  KeptFolders <- MCKept
  DirectoryOf <- MCDirectory
  Contents <- MCContents
  CurrentOf <- MCCurrent
  MaxChanges = 2
  Profiles = {"p", "q"}
  Requests <- MCRequests
  Letters <- MCLetters
  Defaults <- MCDefaults
  Fallbacks <- MCFallbacks
  Ticks = 6
  Clips <- MCClips
  Endpoints <- MCEndpoints
  Capacity = 2
  MaxSeeks = 1
  MaxLosses = 2
  MaxMoves = 1
  SpoolLimit = 4
  CacheLimit = 3
  ClipLengths = {1, 2}
  Pinned <- MCPinned
  Unpacked <- MCUnpacked
  MaxFaults = 3
INVARIANTS
  TextIsReadOnce
  AudioIsExact
  SelectionIsFaithful
  StreamIsHeard
PROPERTIES
  ListIsTrue
  DeliveryIsExact
\* Each part ends with its input, its utterance or its bounds.
CHECK_DEADLOCK FALSE
