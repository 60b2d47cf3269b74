SPECIFICATION AssetSpec
CONSTANTS
  Radix = 3
  Unit = 8
  Turn = 24
  Epsilon = 0
  Slots = 5
  None = None
  StableId <- MCStableId
  Files <- MCFiles
  Present <- MCPresent
  Throwing = {"broken"}
  Nodeless = {"nothing"}
  Offsets <- MCOffsets
  Nothing = Nothing
  Shows <- MCShows
  Gdtf <- MCGdtf
  Gdtfs <- MCGdtfs
  CompiledGdtfs <- MCCompiledGdtfs
  BoundGdtfs <- MCBoundGdtfs
  ArchiveOf <- MCArchiveOf
  Archives <- MCArchives
  Detail = "default"
  Frames <- MCFrames
INVARIANTS
  ShownIsInstalled
  AssetsAvailable
  ActivationIsModeMaster
  RoutesReachBeams
  NothingCompiledIsRefused
PROPERTIES
  LoadEnds
