SPECIFICATION Spec

CONSTANTS
  Users = {"u"}
  MAX_SOCKET = 2
  PackageSize = 2
  MaxIds = 3
  MaxPackages = 1
  MaxPipe = 1

INVARIANTS
  TypeOK
  StaleIdHarmless
  DataAfterOpen

\* The bounds stop it, or a failed assertion does.
CHECK_DEADLOCK FALSE
