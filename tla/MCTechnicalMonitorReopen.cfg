SPECIFICATION Spec
CONSTANTS
  None = None
  Universes = {1, 2}
  Payloads <- MCPayloads
  Channels = 2
  CapturesPerDrain = 1
  MaxPackets = 2
  MaxCaptures = 2
INVARIANT GridShowsNoEarlierCapture
