CONSTANTS
  Captures = {c1, c2}
  MaxQueue = 3
SPECIFICATION Spec
INVARIANTS
  TypeOK
  SetUpTogether
  StoppedStaysStopped
PROPERTIES
  NoPreSuspendFrame
  EveryCaptureReturns
