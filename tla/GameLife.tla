------------------------------ MODULE GameLife -------------------------------
(***************************************************************************)
(* How players come to games, and how games begin and end.  SCENE_MGR      *)
(* keeps a list of games that take players and creates a game when there   *)
(* is none; a game found empty by its CheckOver timer asks SCENE_MGR to    *)
(* take it off the list.  Frames, controls and connections are the matter  *)
(* of module FrameSync.                                                    *)
(*                                                                         *)
(* Messages are records in mailboxes, as in FrameSync: a named send is an  *)
(* append; the answer of a call goes to the caller's handle and may get    *)
(* ahead of sends that are still in the harbor queue.  A handler that      *)
(* waits for an answer goes on in an action of its own, which takes the    *)
(* answer; what it remembers meanwhile travels with the call.              *)
(*                                                                         *)
(* Each player has a mailbox of its own, although agents serve several:    *)
(* agents' handlers touch nothing but their player.                        *)
(***************************************************************************)
EXTENDS Naturals, Sequences, FiniteSets, SequencesExt, FiniteSetsExt

CONSTANTS
  Pids,
  nil,
  SCENESERVICE_CNT,  \* the number of scene services (config/game.lua)
  MaxPlayers,        \* the entries after which a game is full (five)
  MaxConns,          \* bound: the number of logins of a run
  MaxCalls,          \* bound: the game_over calls of a game on their way
  Allowed            \* what clients may do that the server does not rule out:
                     \*   "eager": log in before the last leave is done
                     \*   "drop": break while the player is entering

(* nil is neither a number nor a player's object.                           *)
ASSUME GameLifeAssumption ==
  /\ nil \notin Nat
  /\ nil \notin [m_FD : Nat, m_GameID : {nil} \cup Nat]
  /\ SCENESERVICE_CNT \in Nat \ {0}
  /\ MaxPlayers \in Nat \ {0, 1}
  /\ MaxConns \in Nat
  /\ MaxCalls \in Nat
  /\ Allowed \subseteq {"eager", "drop"}

(* Socket ids and game ids count up; a login creates at most one game.      *)
Fds == 1 .. MaxConns
Games == 1 .. MaxConns

VARIABLES
  nfd,               \* the number of logins so far
  online,            \* the pids whose connection is open
  agentq,            \* AGENTs: the messages about a pid
  playerlist,        \* AGENTs: m_FD and m_GameID of a pid's player, or nil
  mgrq,              \* SCENE_MGR's mailbox
  GAMEID,            \* SCENE_MGR: the last game id given
  m_SceneProxyList,  \* SCENE_MGR: the games that take players
  sceneq,            \* the mailboxes of the SCENE services
  m_Players,         \* SCENEs: the players of each game that exists
  checking           \* SCENEs: the games whose CheckOver timer is set

agentVars == <<nfd, online, agentq, playerlist>>
mgrVars == <<mgrq, GAMEID, m_SceneProxyList>>
sceneVars == <<sceneq, m_Players, checking>>
vars == <<agentVars, mgrVars, sceneVars>>

-----------------------------------------------------------------------------
Receives(mailbox, cmd) == mailbox # <<>> /\ Head(mailbox).cmd = cmd

Answer(mailbox, m) ==
  {InsertAt(mailbox, i, m) : i \in 1 .. Len(mailbox) + 1}

(* Fault: the multiples of SCENESERVICE_CNT are sent to no service.         *)
get_scene_service_NoService(game_id) == game_id % SCENESERVICE_CNT

get_scene_service(game_id) ==
  LET n == game_id % SCENESERVICE_CNT
  IN  IF n = 0 THEN SCENESERVICE_CNT ELSE n

Scenes == 1 .. SCENESERVICE_CNT

SendScene(q, m) ==
  [q EXCEPT ![get_scene_service(m.game_id)] = Append(@, m)]

AboutGame(cmd, game_id) == [cmd |-> cmd, game_id |-> game_id]
AboutPlayer(cmd, game_id, pid) ==
  [cmd |-> cmd, game_id |-> game_id, pid |-> pid]

(* A call on behalf of the login of pid over fd, and its answer.            *)
EnterPlayer(pid, fd) == [cmd |-> "enter_player", pid |-> pid, fd |-> fd]
NewGame(game_id, pid, fd) ==
  [cmd |-> "new_game", game_id |-> game_id, pid |-> pid, fd |-> fd]
Entering(game_id, fd) == [cmd |-> "entering", game_id |-> game_id, fd |-> fd]

(* The messages in the mailboxes of the scene services.                     *)
InScenes == UNION {Range(sceneq[s]) : s \in Scenes}

-----------------------------------------------------------------------------
(* Clients, as the agents see them through GAMEGATE.                        *)

Quiet(pid) ==
  /\ playerlist[pid] = nil /\ agentq[pid] = <<>>
  /\ \A m \in InScenes : m.cmd = "leave_player" => m.pid # pid

Connect(pid) ==
  /\ pid \notin online /\ nfd < MaxConns
  /\ "eager" \in Allowed \/ Quiet(pid)
  /\ nfd' = nfd + 1
  /\ online' = online \cup {pid}
  /\ agentq' = [agentq EXCEPT ![pid] =
                  Append(@, [cmd |-> "start", fd |-> nfd + 1])]
  /\ UNCHANGED <<playerlist, mgrVars, sceneVars>>

InGame(pid) == playerlist[pid] # nil /\ playerlist[pid].m_GameID # nil

Disconnect(pid) ==
  /\ pid \in online
  /\ "drop" \in Allowed \/ InGame(pid)
  /\ online' = online \ {pid}
  /\ agentq' = [agentq EXCEPT ![pid] = Append(@, [cmd |-> "kick"])]
  /\ UNCHANGED <<nfd, playerlist, mgrVars, sceneVars>>

-----------------------------------------------------------------------------
(* AGENT.                                                                   *)

(* Player:login, and Player:enterwar up to its call.                        *)
start(pid) ==
  LET m == Head(agentq[pid])
  IN  /\ Receives(agentq[pid], "start")
      /\ agentq' = [agentq EXCEPT ![pid] = Tail(@)]
      /\ playerlist' = [playerlist EXCEPT ![pid] =
                          [m_FD |-> m.fd, m_GameID |-> nil]]
      /\ mgrq' = Append(mgrq, EnterPlayer(pid, m.fd))
      /\ UNCHANGED <<nfd, online, GAMEID, m_SceneProxyList, sceneVars>>

(* The rest of enterwar.  The object it changes may be out of the list.     *)
enterwar(pid) ==
  LET m == Head(agentq[pid])
  IN  /\ Receives(agentq[pid], "entering")
      /\ agentq' = [agentq EXCEPT ![pid] = Tail(@)]
      /\ playerlist' = IF playerlist[pid] # nil /\ playerlist[pid].m_FD = m.fd
                       THEN [playerlist EXCEPT ![pid].m_GameID = m.game_id]
                       ELSE playerlist
      /\ UNCHANGED <<nfd, online, mgrVars, sceneVars>>

(* Fault: the player object is dropped without leaving its game.            *)
kick_NoLeave(pid) ==
  /\ Receives(agentq[pid], "kick")
  /\ agentq' = [agentq EXCEPT ![pid] = Tail(@)]
  /\ playerlist' = [playerlist EXCEPT ![pid] = nil]
  /\ UNCHANGED <<nfd, online, mgrVars, sceneVars>>

(* Player:leavewar and Player:quit.                                         *)
kick(pid) ==
  /\ Receives(agentq[pid], "kick")
  /\ agentq' = [agentq EXCEPT ![pid] = Tail(@)]
  /\ playerlist' = [playerlist EXCEPT ![pid] = nil]
  /\ sceneq' = IF InGame(pid)
               THEN SendScene(sceneq, AboutPlayer("leave_player",
                                        playerlist[pid].m_GameID, pid))
               ELSE sceneq
  /\ UNCHANGED <<nfd, online, mgrVars, m_Players, checking>>

Agent(pid) == start(pid) \/ enterwar(pid) \/ kick(pid)

-----------------------------------------------------------------------------
(* SCENE_MGR.                                                               *)

(* Fault: one player more than there is room for.                           *)
counted_OneMore(list, i) ==
  LET counted == [list EXCEPT ![i].playercnt = @ + 1]
  IN  IF counted[i].playercnt > MaxPlayers THEN Tail(counted) ELSE counted

(* One more player for the i-th proxy; pop_proxy takes the first off.       *)
counted(list, i) ==
  LET plus == [list EXCEPT ![i].playercnt = @ + 1]
  IN  IF plus[i].playercnt >= MaxPlayers THEN Tail(plus) ELSE plus

(* Fault: the player is sent to the first game, not to the one it was       *)
(* counted for and that its agent is told of.                               *)
Enter_FirstGame(list, i, pid, fd) ==
  /\ m_SceneProxyList' = counted(list, i)
  /\ sceneq' = SendScene(sceneq, AboutPlayer("enter_player", list[1].game_id,
                                             pid))
  /\ \E mailbox \in Answer(agentq[pid], Entering(list[i].game_id, fd)) :
       agentq' = [agentq EXCEPT ![pid] = mailbox]

(* What command.enter_player does with the proxy it has got.                *)
Enter(list, i, pid, fd) ==
  LET game_id == list[i].game_id
  IN  /\ m_SceneProxyList' = counted(list, i)
      /\ sceneq' = SendScene(sceneq, AboutPlayer("enter_player", game_id, pid))
      /\ \E mailbox \in Answer(agentq[pid], Entering(game_id, fd)) :
           agentq' = [agentq EXCEPT ![pid] = mailbox]

(* There is a game: get_proxy returns it.                                   *)
enter_player ==
  LET m == Head(mgrq)
  IN  /\ Receives(mgrq, "enter_player")
      /\ m_SceneProxyList # <<>>
      /\ mgrq' = Tail(mgrq)
      /\ Enter(m_SceneProxyList, 1, m.pid, m.fd)
      /\ UNCHANGED <<nfd, online, playerlist, GAMEID, m_Players, checking>>

(* Fault: the new game gets an id by the number of listed games.            *)
NewServiceUniqID_ByList(id) == Len(m_SceneProxyList) + 1

NewServiceUniqID(id) == id + 1

(* Fault: the id is used before it is counted up.                           *)
new_proxy_NoCount ==
  LET m == Head(mgrq)
  IN  /\ Receives(mgrq, "enter_player")
      /\ m_SceneProxyList = <<>>
      /\ mgrq' = Tail(mgrq)
      /\ GAMEID' = NewServiceUniqID(GAMEID)
      /\ sceneq' = SendScene(sceneq, NewGame(GAMEID, m.pid, m.fd))
      /\ UNCHANGED <<agentVars, m_SceneProxyList, m_Players, checking>>

(* There is none: new_proxy, up to its call.                                *)
new_proxy ==
  LET m == Head(mgrq)
      game_id == NewServiceUniqID(GAMEID)
  IN  /\ Receives(mgrq, "enter_player")
      /\ m_SceneProxyList = <<>>
      /\ mgrq' = Tail(mgrq)
      /\ GAMEID' = game_id
      /\ sceneq' = SendScene(sceneq, NewGame(game_id, m.pid, m.fd))
      /\ UNCHANGED <<agentVars, m_SceneProxyList, m_Players, checking>>

(* The rest of new_proxy, and of the enter_player that called it.           *)
new_game_answer ==
  LET m == Head(mgrq)
      list == Append(m_SceneProxyList, [game_id |-> m.game_id, playercnt |-> 0])
  IN  /\ Receives(mgrq, "new_game")
      /\ mgrq' = Tail(mgrq)
      /\ Enter(list, Len(list), m.pid, m.fd)
      /\ UNCHANGED <<nfd, online, playerlist, GAMEID, m_Players, checking>>

(* Fault: the first proxy goes, whichever game is over.                     *)
del_proxy_First(list, game_id) == IF list = <<>> THEN list ELSE Tail(list)

(* A game is listed once.                                                   *)
del_proxy(list, game_id) ==
  LET at == {i \in DOMAIN list : list[i].game_id = game_id}
  IN  IF at = {} THEN list ELSE RemoveAt(list, CHOOSE i \in at : TRUE)

mgr_game_over ==
  LET m == Head(mgrq)
      s == get_scene_service(m.game_id)
  IN  /\ Receives(mgrq, "game_over")
      /\ mgrq' = Tail(mgrq)
      /\ m_SceneProxyList' = del_proxy(m_SceneProxyList, m.game_id)
      /\ \E mailbox \in Answer(sceneq[s], AboutGame("game_over", m.game_id)) :
           sceneq' = [sceneq EXCEPT ![s] = mailbox]
      /\ UNCHANGED <<agentVars, GAMEID, m_Players, checking>>

SceneMgr == enter_player \/ new_proxy \/ new_game_answer \/ mgr_game_over

-----------------------------------------------------------------------------
(* SCENE.                                                                   *)

(* FighterWar:init, and its answer.                                         *)
new_game(s) ==
  LET m == Head(sceneq[s])
  IN  /\ Receives(sceneq[s], "new_game")
      /\ sceneq' = [sceneq EXCEPT ![s] = Tail(@)]
      /\ m_Players' = [g \in DOMAIN m_Players \cup {m.game_id} |->
                         IF g = m.game_id THEN {} ELSE m_Players[g]]
      /\ checking' = checking \cup {m.game_id}
      /\ mgrq' \in Answer(mgrq, m)
      /\ UNCHANGED <<agentVars, GAMEID, m_SceneProxyList>>

(* Messages about a game that GetGameObj does not find are ignored.         *)
scene_enter_player(s) ==
  LET m == Head(sceneq[s])
  IN  /\ Receives(sceneq[s], "enter_player")
      /\ sceneq' = [sceneq EXCEPT ![s] = Tail(@)]
      /\ m_Players' = [g \in DOMAIN m_Players |->
                         IF g = m.game_id THEN m_Players[g] \cup {m.pid}
                         ELSE m_Players[g]]
      /\ UNCHANGED <<agentVars, mgrVars, checking>>

scene_leave_player(s) ==
  LET m == Head(sceneq[s])
  IN  /\ Receives(sceneq[s], "leave_player")
      /\ sceneq' = [sceneq EXCEPT ![s] = Tail(@)]
      /\ m_Players' = [g \in DOMAIN m_Players |->
                         IF g = m.game_id THEN m_Players[g] \ {m.pid}
                         ELSE m_Players[g]]
      /\ UNCHANGED <<agentVars, mgrVars, checking>>

(* The game_over calls of a game that have not returned.                    *)
Calls(game_id) ==
  LET isCall(m) == m.cmd = "game_over" /\ m.game_id = game_id
  IN  Len(SelectSeq(mgrq, isCall))
        + Len(SelectSeq(sceneq[get_scene_service(game_id)], isCall))

(* check_over, and game_over up to its call.  The timer has been set again  *)
(* before, so that it can go off while game_over waits.                     *)
check_over(game_id) ==
  /\ game_id \in checking
  /\ m_Players[game_id] = {}
  /\ Calls(game_id) < MaxCalls
  /\ mgrq' = Append(mgrq, AboutGame("game_over", game_id))
  /\ UNCHANGED <<agentVars, GAMEID, m_SceneProxyList, sceneVars>>

(* The rest of game_over.  The game stays, and so do its players.           *)
game_over_answer(s) ==
  LET m == Head(sceneq[s])
  IN  /\ Receives(sceneq[s], "game_over")
      /\ sceneq' = [sceneq EXCEPT ![s] = Tail(@)]
      /\ checking' = checking \ {m.game_id}
      /\ UNCHANGED <<agentVars, mgrVars, m_Players>>

SceneService(s) ==
  \/ new_game(s) \/ game_over_answer(s)
  \/ scene_enter_player(s) \/ scene_leave_player(s)

-----------------------------------------------------------------------------
Init ==
  /\ nfd = 0
  /\ online = {}
  /\ agentq = [pid \in Pids |-> <<>>]
  /\ playerlist = [pid \in Pids |-> nil]
  /\ mgrq = <<>>
  /\ GAMEID = 0
  /\ m_SceneProxyList = <<>>
  /\ sceneq = [s \in Scenes |-> <<>>]
  /\ m_Players = <<>>
  /\ checking = {}

Next ==
  \/ \E pid \in Pids : Connect(pid) \/ Disconnect(pid) \/ Agent(pid)
  \/ SceneMgr
  \/ \E s \in Scenes : SceneService(s)
  \/ \E game_id \in checking : check_over(game_id)

Spec == Init /\ [][Next]_vars

(* Skynet's workers run every service whose mailbox is not empty, and the   *)
(* CheckOver timer goes off again and again while it is set.                *)
Fairness ==
  /\ \A pid \in Pids : WF_vars(Agent(pid))
  /\ WF_vars(SceneMgr)
  /\ \A s \in Scenes : WF_vars(SceneService(s))
  /\ \A game_id \in Games : WF_vars(check_over(game_id))

FairSpec == Spec /\ Fairness

-----------------------------------------------------------------------------
AgentMsg ==
  [cmd : {"start"}, fd : Fds] \cup [cmd : {"kick"}]
    \cup [cmd : {"entering"}, game_id : Games, fd : Fds]

MgrMsg ==
  [cmd : {"enter_player"}, pid : Pids, fd : Fds]
    \cup [cmd : {"new_game"}, game_id : Games, pid : Pids, fd : Fds]
    \cup [cmd : {"game_over"}, game_id : Games]

SceneMsg ==
  [cmd : {"new_game"}, game_id : Games, pid : Pids, fd : Fds]
    \cup [cmd : {"game_over"}, game_id : Games]
    \cup [cmd : {"enter_player", "leave_player"}, game_id : Games, pid : Pids]

(* Types: each mailbox holds what its service handles.                      *)
TypeOK ==
  /\ nfd \in 0 .. MaxConns
  /\ online \subseteq Pids
  /\ agentq \in [Pids -> Seq(AgentMsg)]
  /\ playerlist \in [Pids -> {nil} \cup [m_FD : Fds, m_GameID : {nil} \cup Games]]
  /\ mgrq \in Seq(MgrMsg)
  /\ GAMEID \in 0 .. MaxConns
  /\ m_SceneProxyList \in Seq([game_id : Games, playercnt : 0 .. MaxPlayers])
  /\ sceneq \in [Scenes -> Seq(SceneMsg)]
  /\ DOMAIN m_Players \subseteq Games
  /\ \A g \in DOMAIN m_Players : m_Players[g] \subseteq Pids
  /\ checking \subseteq DOMAIN m_Players

Listed == {m_SceneProxyList[i].game_id : i \in DOMAIN m_SceneProxyList}

(* The players of a game and those on their way into it.                    *)
Entrants(game_id) ==
  {m.pid : m \in {x \in InScenes : x.cmd = "enter_player" /\ x.game_id = game_id}}

Members(game_id) ==
  Entrants(game_id)
    \cup IF game_id \in DOMAIN m_Players THEN m_Players[game_id] ELSE {}

(* No game ever gets more players than it has room for, however entries     *)
(* wait for new games and cross with game_over: playercnt is raised before  *)
(* any other handler can get the same proxy.                                *)
NoGameOverfull == \A g \in Games : Cardinality(Members(g)) <= MaxPlayers

(* A listed game has its CheckOver timer, or else it would stay listed      *)
(* when its players are gone: game_over removes the timer only after        *)
(* SCENE_MGR has deleted the proxy, and new_proxy lists a game before a     *)
(* game_over of it can get to SCENE_MGR.                                    *)
ListedGamesAreChecked == Listed \subseteq checking

(* Nobody is sent to a game that has gone off the list, and such a game     *)
(* never comes back.                                                        *)
OffList(g) ==
  /\ g \in DOMAIN m_Players
  /\ g \notin Listed
  /\ \A i \in DOMAIN mgrq : mgrq[i].cmd = "new_game" => mgrq[i].game_id # g

OffListIsFinal ==
  [][\A g \in Games : OffList(g) => OffList(g)' /\ Members(g)' \subseteq Members(g)]_vars

(* When nothing about a player is on its way to its game any more, the      *)
(* game that its agent sends its controls to has it.                        *)
AgentKnowsGame ==
  \A pid \in Pids :
    /\ InGame(pid)
    /\ \A m \in InScenes : m.cmd \in {"enter_player", "leave_player"} => m.pid # pid
    => /\ playerlist[pid].m_GameID \in DOMAIN m_Players
       /\ pid \in m_Players[playerlist[pid].m_GameID]

(* A player is in one game at a time, or two games would broadcast frames   *)
(* to its connection.  So it is when clients come back only after they      *)
(* have left.                                                               *)
OneGameEach ==
  \A g, h \in Games : g # h => Members(g) \cap Members(h) = {}

(* A game that stays empty does not stay listed.                            *)
EmptyGameDelisted ==
  \A g \in Games : <>[](Members(g) = {}) => <>[](g \notin Listed)

(* A player who logs in and stays gets into a game.                         *)
EveryPlayerEnters ==
  \A pid \in Pids : pid \in online ~> pid \notin online \/ InGame(pid)
=============================================================================
