SPECIFICATION Spec
CONSTANTS
  Loops = {l1, l2}
  Menus = {m1}
  NoTask = NoTask
  ConsensusTicks = 2
  Grace = 1
  MaxErrors = 2
  MaxCall = 3
  MaxClock = 5
SYMMETRY TaskSymmetry
INVARIANT FailureLeavesAutoAttempt
