SPECIFICATION FairSpec

CONSTANTS
  Users = {"u"}
  MAX_SOCKET = 1
  PackageSize = 2
  MaxIds = 2
  MaxPackages = 2
  MaxPipe = 1

INVARIANTS
  PackagesWhole
  NothingLostByClose

PROPERTIES
  CloseAnswered

\* The bounds stop it, or a failed assertion does.
CHECK_DEADLOCK FALSE
