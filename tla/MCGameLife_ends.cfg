SPECIFICATION FairSpec

CONSTANTS
  p1 = p1
  p2 = p2
  Pids = {p1, p2}
  nil = nil
  SCENESERVICE_CNT = 2
  MaxPlayers = 2
  MaxConns = 2
  MaxCalls = 1
  Allowed = {"drop"}

INVARIANTS
  TypeOK
  ListedGamesAreChecked
  AgentKnowsGame

PROPERTIES
  OffListIsFinal
  EmptyGameDelisted
  EveryPlayerEnters

\* The bounds stop a run: nobody logs in after MaxConns.
CHECK_DEADLOCK FALSE
