SPECIFICATION Spec
CONSTANTS
  u1 = u1
  u2 = u2
  o1 = o1
  o2 = o2
  NoPayload = NoPayload
  Universes <- MCUniverses
  Offsets <- MCOffsets
  Bytes <- MCBytes
  ZeroByte = 0
  MaxPackets = 2
  MaxGeneration = 3
INVARIANTS
  TokensOwnDirtySlots
  HeldProvesSubscribedOffsets
  SettledViewMatchesWire
  StoppedSessionHoldsNothing
PROPERTIES
  DrainNeverResurrects
  ViewCatchesUp
  PlaybackShowsLatestState
CHECK_DEADLOCK FALSE
