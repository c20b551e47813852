SPECIFICATION Spec

CONSTANTS
  Pids = {1}
  Controls = {MOVE}
  Piece = 1
  MaxFrames = 0
  nil = nil
  AGENT_CNT = 2
  MaxConns = 3
  MaxInputs = 0
  Allowed = {"overlap", "eager", "drop"}

INVARIANTS
  RoutingConverges
  SceneKnowsPlayer

\* The bounds stop a run: no frame after MaxFrames, no input after MaxInputs.
CHECK_DEADLOCK FALSE
