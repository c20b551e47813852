SPECIFICATION Spec

CONSTANTS
  Pids = {1, 2}
  Controls = {MOVE}
  Piece = 1
  MaxFrames = 1
  nil = nil
  AGENT_CNT = 2
  MaxConns = 2
  MaxInputs = 0
  Allowed = {"overlap"}

INVARIANTS
  LiveConnectionServed

\* The bounds stop a run: no frame after MaxFrames, no input after MaxInputs.
CHECK_DEADLOCK FALSE
