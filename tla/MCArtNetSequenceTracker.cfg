SPECIFICATION Spec
CONSTANTS
  e1 = e1
  e2 = e2
  None = None
  Universes = {1}
  Endpoints <- MCEndpoints
  Cycle = 5
  HalfCycle = 2
  MaxSent = 5
  MaxRuns = 1
SYMMETRY MCSymmetry
INVARIANTS
  RestartRejectionBounded
PROPERTY DecidesByAge
