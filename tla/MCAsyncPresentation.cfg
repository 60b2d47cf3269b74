SPECIFICATION FairSpec
CONSTANTS
  u1 = u1
  u2 = u2
  in1 = in1
  in2 = in2
  in3 = in3
  out1 = out1
  out2 = out2
  None = None
  Universes <- MCUniverses
  InputBanks <- MCInputBanks
  OutputBanks <- MCOutputBanks
  MaxPackets = 3
  MaxSessions = 2
  MaxFailures = 1
INVARIANTS
  BanksHaveOneHolder
  FlushFindsFreeBank
  DeltasAppliedInOrder
  SettledDisplayIsLatest
  RetirementLosesNothing
PROPERTY DisplayCatchesUp
CHECK_DEADLOCK FALSE
