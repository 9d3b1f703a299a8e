CONSTANTS
  SSIDs = {home, cafe}
  NoSSID = NoSSID
SPECIFICATION Spec
PROPERTY StaleTrustEnds
