CONSTANTS
  SSIDs = {home, cafe}
  NoSSID = NoSSID
SPECIFICATION Spec
INVARIANT PendingIsDropped
