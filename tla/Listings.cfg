SPECIFICATION ListSpec
CONSTANTS
  MaxSequence = 1
  Machines = 2
  MachineId = 1
  MaxTime = 2
  MaxIssued = 3
  Markets <- MCMarkets
  Limits = {1, 2}
INVARIANTS IdTypeOK IdsIncrease NothingSkipped NewestFirst
