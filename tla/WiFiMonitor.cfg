CONSTANTS
  SSIDs = {home, cafe}
  NoSSID = NoSSID
SPECIFICATION Spec
INVARIANTS
  TypeOK
  PollingWhileTrusted
PROPERTIES
  LeavingIsNoticed
  RevokedLocationEnforces
