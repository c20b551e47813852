SPECIFICATION Spec

CONSTANTS
  p1 = p1
  p2 = p2
  p3 = p3
  Pids = {p1, p2, p3}
  nil = nil
  SCENESERVICE_CNT = 2
  MaxPlayers = 2
  MaxConns = 3
  MaxCalls = 1
  Allowed = {}

SYMMETRY AnyPlayer

INVARIANTS
  NoGameOverfull
  OneGameEach

\* The bounds stop a run: nobody logs in after MaxConns.
CHECK_DEADLOCK FALSE
