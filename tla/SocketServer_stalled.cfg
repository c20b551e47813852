SPECIFICATION Spec

CONSTANTS
  Users = {"u"}
  MAX_SOCKET = 1
  PackageSize = 2
  MaxIds = 1
  MaxPackages = 2
  MaxPipe = 1

INVARIANT BuffersEmpty

CHECK_DEADLOCK FALSE
