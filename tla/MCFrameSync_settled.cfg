SPECIFICATION Spec

CONSTANTS
  Pids = {1, 2}
  Controls = {MOVE, ATTACK}
  Piece = 2
  MaxFrames = 3
  nil = nil
  AGENT_CNT = 2
  MaxConns = 2
  MaxInputs = 2
  Allowed = {}

SYMMETRY AnyControl

INVARIANTS
  TypeOK
  LockstepPrefix
  NoFrameLost
  LiveConnectionServed
  NoGhostPlayer
  InputsInOrder
  ControlsFindTheirPlayer
  ReplayRebuildsPlayers

\* The bounds stop a run: no frame after MaxFrames, no input after MaxInputs.
CHECK_DEADLOCK FALSE
