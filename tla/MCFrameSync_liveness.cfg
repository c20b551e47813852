SPECIFICATION FairSpec

CONSTANTS
  Pids = {1, 2}
  Controls = {MOVE}
  Piece = 1
  MaxFrames = 2
  nil = nil
  AGENT_CNT = 2
  MaxConns = 2
  MaxInputs = 1
  Allowed = {}

PROPERTIES
  LoginServed
  FramesExecuted
  ImplementsLockstep

\* The bounds stop a run: no frame after MaxFrames, no input after MaxInputs.
CHECK_DEADLOCK FALSE
