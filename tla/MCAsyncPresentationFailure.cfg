SPECIFICATION Spec
CONSTANTS
  u1 = u1
  u2 = u2
  in1 = in1
  in2 = in2
  in3 = in3
  out1 = out1
  out2 = out2
  None = None
  Universes <- MCUniverses
  InputBanks <- MCInputBanks
  OutputBanks <- MCOutputBanks
  MaxPackets = 2
  MaxSessions = 1
  MaxFailures = 1

INVARIANT RetirementKeepsDelivered
CHECK_DEADLOCK FALSE
