------------------------------ MODULE FrameSync ------------------------------
(***************************************************************************)
(* The path of frames and controls through the whole server: GAMEGATE      *)
(* hands connections to the AGENT services, an agent enters its player     *)
(* into the running game through SCENE_MGR, the game's SCENE service       *)
(* (module Scene) collects controls into frames, and the game's SCENE_BC   *)
(* service sends frames to the connection registered for each player.      *)
(* Clients queue the frames and execute them in order.                     *)
(*                                                                         *)
(* Each service takes one message at a time from its mailbox, in order.    *)
(* Named sends go through one harbor queue, so messages get to a mailbox   *)
(* in the order in which they were sent: a send is an append.              *)
(*                                                                         *)
(* The module covers a game from its creation to its CheckOver timer:      *)
(* SCENE_MGR holds the one proxy of a running game and fewer than five     *)
(* players enter.  Clients have not reached the goal score, after which    *)
(* they execute no more frames.                                            *)
(***************************************************************************)
EXTENDS Scene, SequencesExt

CONSTANTS
  nil,        \* Lua's nil
  AGENT_CNT,  \* the number of agent services (config/game.lua)
  MaxConns,   \* bound: the number of connections of a run, below the five
              \* at which SCENE_MGR gives up the game's proxy
  MaxInputs,  \* bound: the number of controls clients send
  Allowed     \* what clients may do that the server does not rule out:
              \*   "overlap": a pid logs in while a connection of it is open
              \*   "eager": a pid logs in again, its old connection closed,
              \*     before its leave_player is done
              \*   "drop": a connection closes while its player is entering

ASSUME FrameSyncAssumption ==
  /\ nil \notin Nat
  /\ AGENT_CNT \in Nat \ {0}
  /\ MaxConns \in 1 .. 4
  /\ MaxInputs \in Nat
  /\ Allowed \subseteq {"overlap", "eager", "drop"}

(* Socket ids, handed out in increasing order and not used again.           *)
Fds == 1 .. MaxConns

VARIABLES
  conlist,       \* GAMEGATE: the connections it holds
  m_Pid,         \* GAMEGATE: the pid a connection is logged in with, or nil
  nfd,           \* the number of connections accepted so far
  logins,        \* logins on their way through GAMELOGIN back to GAMEGATE
  agentq,        \* the mailboxes of the agent services
  playerlist,    \* AGENTs: m_FD of the player object of a pid, or nil
  m_SceneAgent,  \* AGENTs: the pids whose player object has m_SceneAgent set
  mgrq,          \* SCENE_MGR's mailbox
  sceneq,        \* the mailbox of the game's SCENE service
  fd_map,        \* the game's SCENE_BC: the connection of a pid, or nil
  client,        \* the client behind each connection
  inputs         \* history: the controls of a pid that the gate has got

gateVars  == <<conlist, m_Pid, nfd, logins>>
agentVars == <<playerlist, m_SceneAgent>>
vars == <<gameVars, bcq, gateVars, agentq, agentVars, mgrq, sceneq, fd_map,
          client, inputs>>

-----------------------------------------------------------------------------
(* Messages.                                                                *)

Msg(cmd, pid) == [cmd |-> cmd, pid |-> pid]
Start(pid, fd) == [cmd |-> "start", pid |-> pid, fd |-> fd]
Unpack(pid, action) == [cmd |-> "Unpack", pid |-> pid, action |-> action]

(* SCENE_MGR's answer to enter_player.  It resumes Player:enterwar of the   *)
(* player object that was created for fd.                                   *)
Entering(pid, fd) == [cmd |-> "entering", pid |-> pid, fd |-> fd]

EnterPlayer(pid, fd) == [cmd |-> "enter_player", pid |-> pid, fd |-> fd]

Register(uuid, fd) == [cmd |-> "register_fd", uuid |-> uuid, fd |-> fd]
Unregister(uuid) == [cmd |-> "unregister_fd", uuid |-> uuid]

Receives(mailbox, cmd) == mailbox # <<>> /\ Head(mailbox).cmd = cmd

(* The agent service of a pid.                                              *)
get_user_agent(pid) ==
  LET n == pid % AGENT_CNT IN IF n = 0 THEN AGENT_CNT ELSE n

Agents == 1 .. AGENT_CNT

SendAgent(q, pid, m) == [q EXCEPT ![get_user_agent(pid)] = Append(@, m)]

-----------------------------------------------------------------------------
(* The client behind a connection: m_FsmInitData (its frame_cache_num),     *)
(* m_FrameQueue, the frames executed so far, and how many of them were when *)
(* SetRndSeed was last called, nil if it was not (FSM_OPEN is set with it). *)
(* Executing a frame is a function of the generator and of the frames       *)
(* before it, so the last two stand for the whole state of its game.        *)

NewClient == [m_FsmInitData |-> nil, m_FrameQueue |-> <<>>, executed |-> <<>>,
              seededAt |-> nil]

FSM_OPEN(fd) == client[fd].seededAt # nil

(* Fault: the client waits for one frame more than the cache has.           *)
gs2c_frame_cache_data_OffByOne(c, frame_cache) ==
  LET queue == c.m_FrameQueue \o frame_cache
  IN  IF c.m_FsmInitData = nil THEN c
      ELSE IF Len(queue) <= c.m_FsmInitData
      THEN [c EXCEPT !.m_FrameQueue = queue]
      ELSE [c EXCEPT !.m_FrameQueue = queue, !.m_FsmInitData = nil,
                     !.seededAt = Len(c.executed)]

gs2c_frame_cache_data(c, frame_cache) ==
  LET queue == c.m_FrameQueue \o frame_cache
  IN  IF c.m_FsmInitData = nil THEN c
      ELSE IF Len(queue) < c.m_FsmInitData
      THEN [c EXCEPT !.m_FrameQueue = queue]
      ELSE [c EXCEPT !.m_FrameQueue = queue, !.m_FsmInitData = nil,
                     !.seededAt = Len(c.executed)]

init_fsm(c, frame_cache_num) ==
  gs2c_frame_cache_data([c EXCEPT !.m_FsmInitData = frame_cache_num], <<>>)

recv_frame(c, frame) == [c EXCEPT !.m_FrameQueue = Append(@, frame)]

_dispatch_request(c, msg) ==
  CASE msg.proto = "gs2c_loginsuc" -> init_fsm(c, msg.frame_cache_num)
    [] msg.proto = "gs2c_frame_cache_data" ->
         gs2c_frame_cache_data(c, msg.frame_cache)
    [] msg.proto = "gs2c_frame_data" -> recv_frame(c, msg.frame_data)

(* The frames the client has, executed or not.                              *)
Received(c) == c.executed \o c.m_FrameQueue

(* m_MainRole is set: the last enter or leave of pid executed is an enter.  *)
MainRole(c, pid) ==
  LET stream == FlattenSeq([i \in 1 .. Len(c.executed) |->
                              c.executed[i].ctrl_data])
  IN  \E k \in 1 .. Len(stream) :
        /\ stream[k] = Ctrl(pid, "ACTION_ENTER")
        /\ \A n \in k + 1 .. Len(stream) :
             stream[n] # Ctrl(pid, "ACTION_LEAVE")

-----------------------------------------------------------------------------
(* What is in flight for a pid.                                             *)

Mentions(mailbox, cmds, pid) ==
  \E i \in 1 .. Len(mailbox) : mailbox[i].cmd \in cmds /\ mailbox[i].pid = pid

Connected(pid) == {fd \in conlist : m_Pid[fd] = pid \/ <<fd, pid>> \in logins}

(* A start of pid is not finished: its player object has yet to be created  *)
(* or to be told which scene it is in.                                      *)
IsEntering(pid) ==
  \/ Mentions(agentq[get_user_agent(pid)], {"start", "entering"}, pid)
  \/ Mentions(mgrq, {"enter_player"}, pid)

(* Nothing that changes where pid is remains to be done by AGENT, SCENE_MGR *)
(* or SCENE.                                                                *)
IsSettled(pid) ==
  /\ ~IsEntering(pid)
  /\ ~Mentions(agentq[get_user_agent(pid)], {"kick"}, pid)
  /\ ~Mentions(sceneq, {"enter_player", "leave_player"}, pid)

-----------------------------------------------------------------------------
(* GAMEGATE.                                                                *)

(* GAMELOGIN answers a c2gs_login with a loginsuc to GAMEGATE.              *)
UpackData(fd, pid) == logins' = logins \cup {<<fd, pid>>}

(* A client connects and sends c2gs_login.  MSG.open, dispatch_msg of a     *)
(* connection without agent and UpackData are one step: no other service    *)
(* notices what they do.                                                    *)
NewConnection(pid) ==
  LET fd == nfd + 1
  IN  /\ nfd < MaxConns
      /\ "overlap" \in Allowed \/ Connected(pid) = {}
      /\ \/ "eager" \in Allowed
         \/ Connected(pid) # {}
         \/ IsSettled(pid) /\ pid \notin m_Players
      /\ nfd' = fd
      /\ conlist' = conlist \cup {fd}
      /\ UpackData(fd, pid)
      /\ UNCHANGED <<gameVars, bcq, m_Pid, agentq, agentVars, mgrq, sceneq,
                     fd_map, client, inputs>>

loginsuc(fd, pid) ==
  /\ <<fd, pid>> \in logins
  /\ logins' = logins \ {<<fd, pid>>}
  /\ IF fd \in conlist /\ m_Pid[fd] = nil
     THEN /\ m_Pid' = [m_Pid EXCEPT ![fd] = pid]
          /\ agentq' = SendAgent(agentq, pid, Start(pid, fd))
     ELSE UNCHANGED <<m_Pid, agentq>>
  /\ UNCHANGED <<gameVars, bcq, conlist, nfd, agentVars, mgrq, sceneq,
                 fd_map, client, inputs>>

(* Fault: a broken connection is forgotten without a kick.                  *)
DelConnection_NoKick(fd) ==
  /\ fd \in conlist
  /\ "drop" \in Allowed \/ (m_Pid[fd] # nil /\ ~IsEntering(m_Pid[fd]))
  /\ conlist' = conlist \ {fd}
  /\ m_Pid' = [m_Pid EXCEPT ![fd] = nil]
  /\ client' = [client EXCEPT ![fd] = NewClient]
  /\ UNCHANGED <<gameVars, bcq, nfd, logins, agentq, agentVars, mgrq, sceneq,
                 fd_map, inputs>>

(* The client goes away: MSG.close or MSG.error.                            *)
DelConnection(fd) ==
  LET pid == m_Pid[fd]
  IN  /\ fd \in conlist
      /\ "drop" \in Allowed \/ (pid # nil /\ ~IsEntering(pid))
      /\ conlist' = conlist \ {fd}
      /\ m_Pid' = [m_Pid EXCEPT ![fd] = nil]
      /\ agentq' = IF pid # nil
                   THEN SendAgent(agentq, pid, Msg("kick", pid))
                   ELSE agentq
      /\ client' = [client EXCEPT ![fd] = NewClient]
      /\ UNCHANGED <<gameVars, bcq, nfd, logins, agentVars, mgrq, sceneq,
                     fd_map, inputs>>

(* A packet of a connection that is logged in goes to its agent.            *)
dispatch_msg(fd, action) ==
  IF fd \in conlist /\ m_Pid[fd] # nil
  THEN agentq' = SendAgent(agentq, m_Pid[fd], Unpack(m_Pid[fd], action))
  ELSE UNCHANGED agentq

(* The controls given so far, by all clients together.                      *)
Given == UNION {{pid} \X DOMAIN inputs[pid] : pid \in Pids}

(* The user of a client whose own player is in its game presses or releases *)
(* a key (touch_key_down, touch_key_up), and the gate gets the packet: the  *)
(* key handler's send together with the gate's dispatch. A control still    *)
(* unread in the socket of a connection that breaks is one that was never   *)
(* given.                                                                   *)
touch_key(fd, action) ==
  LET pid == m_Pid[fd]
  IN  /\ fd \in conlist
      /\ pid # nil
      /\ MainRole(client[fd], pid)
      /\ Cardinality(Given) < MaxInputs
      /\ dispatch_msg(fd, action)
      /\ inputs' = [inputs EXCEPT ![pid] = Append(@, action)]
      /\ UNCHANGED <<gameVars, bcq, gateVars, agentVars, mgrq, sceneq,
                     fd_map, client>>

-----------------------------------------------------------------------------
(* AGENT a.                                                                 *)

(* Fault: login does not register the connection.                           *)
login_NoRegister(pid, fd) ==
  /\ playerlist' = [playerlist EXCEPT ![pid] = fd]
  /\ m_SceneAgent' = m_SceneAgent \ {pid}
  /\ UNCHANGED bcq

(* NewPlayer and Player:login: a new player object for pid, not in a scene. *)
login(pid, fd) ==
  /\ playerlist' = [playerlist EXCEPT ![pid] = fd]
  /\ m_SceneAgent' = m_SceneAgent \ {pid}
  /\ bcq' = Append(bcq, Register(pid, fd))

(* command.start up to the call in Player:enterwar, which sends SCENE_MGR   *)
(* the request.                                                             *)
start(a) ==
  LET m == Head(agentq[a])
  IN  /\ Receives(agentq[a], "start")
      /\ agentq' = [agentq EXCEPT ![a] = Tail(@)]
      /\ login(m.pid, m.fd)
      /\ mgrq' = Append(mgrq, EnterPlayer(m.pid, m.fd))
      /\ UNCHANGED <<gameVars, gateVars, sceneq, fd_map, client, inputs>>

(* Fault: the player is looked up again by pid after the call.              *)
enterwar_ByPid(a) ==
  LET m == Head(agentq[a])
  IN  /\ Receives(agentq[a], "entering")
      /\ agentq' = [agentq EXCEPT ![a] = Tail(@)]
      /\ m_SceneAgent' = IF playerlist[m.pid] # nil
                         THEN m_SceneAgent \cup {m.pid}
                         ELSE m_SceneAgent
      /\ UNCHANGED <<gameVars, bcq, gateVars, playerlist, mgrq, sceneq,
                     fd_map, client, inputs>>

(* Player:enterwar after the call.  A player object that is no longer the   *)
(* one in playerlist is set too, but nobody can reach it.                   *)
enterwar(a) ==
  LET m == Head(agentq[a])
  IN  /\ Receives(agentq[a], "entering")
      /\ agentq' = [agentq EXCEPT ![a] = Tail(@)]
      /\ m_SceneAgent' = IF playerlist[m.pid] = m.fd
                         THEN m_SceneAgent \cup {m.pid}
                         ELSE m_SceneAgent
      /\ UNCHANGED <<gameVars, bcq, gateVars, playerlist, mgrq, sceneq,
                     fd_map, client, inputs>>

(* A player object that is not in a scene yet leaves none.                  *)
leavewar(pid) ==
  sceneq' = IF pid \in m_SceneAgent
            THEN Append(sceneq, Msg("leave_player", pid))
            ELSE sceneq

(* Fault: Player:quit without unregister_fd.                                *)
quit_NoUnregister(pid) ==
  /\ playerlist' = [playerlist EXCEPT ![pid] = nil]
  /\ m_SceneAgent' = m_SceneAgent \ {pid}
  /\ UNCHANGED bcq

quit(pid) ==
  /\ playerlist' = [playerlist EXCEPT ![pid] = nil]
  /\ m_SceneAgent' = m_SceneAgent \ {pid}
  /\ bcq' = Append(bcq, Unregister(pid))

kick(a) ==
  LET pid == Head(agentq[a]).pid
  IN  /\ Receives(agentq[a], "kick")
      /\ agentq' = [agentq EXCEPT ![a] = Tail(@)]
      /\ IF playerlist[pid] # nil
         THEN leavewar(pid) /\ quit(pid)
         ELSE UNCHANGED <<sceneq, agentVars, bcq>>
      /\ UNCHANGED <<gameVars, gateVars, mgrq, fd_map, client, inputs>>

Player_sync_ctrl(pid, action) ==
  sceneq' = IF pid \in m_SceneAgent
            THEN Append(sceneq, [cmd |-> "sync_ctrl", pid |-> pid,
                                 action |-> action])
            ELSE sceneq

(* command.Unpack of a c2gs_ctrl_data.                                      *)
Analysis(a) ==
  LET m == Head(agentq[a])
  IN  /\ Receives(agentq[a], "Unpack")
      /\ agentq' = [agentq EXCEPT ![a] = Tail(@)]
      /\ IF playerlist[m.pid] # nil
         THEN Player_sync_ctrl(m.pid, m.action)
         ELSE UNCHANGED sceneq
      /\ UNCHANGED <<gameVars, bcq, gateVars, agentVars, mgrq, fd_map,
                     client, inputs>>

-----------------------------------------------------------------------------
(* SCENE_MGR: command.enter_player with a proxy in the list.                *)

(* The answer of a call goes to the caller's handle, not by name: it may    *)
(* get to the mailbox before messages that are still in the harbor queue.   *)
Answer(mailbox, m) ==
  {InsertAt(mailbox, i, m) : i \in 1 .. Len(mailbox) + 1}

mgr_enter_player ==
  LET m == Head(mgrq)
  IN  /\ Receives(mgrq, "enter_player")
      /\ mgrq' = Tail(mgrq)
      /\ sceneq' = Append(sceneq, Msg("enter_player", m.pid))
      /\ LET a == get_user_agent(m.pid)
         IN  \E mailbox \in Answer(agentq[a], Entering(m.pid, m.fd)) :
               agentq' = [agentq EXCEPT ![a] = mailbox]
      /\ UNCHANGED <<gameVars, bcq, gateVars, agentVars, fd_map, client,
                     inputs>>

-----------------------------------------------------------------------------
(* The game's SCENE service.                                                *)
outsideScene == <<gateVars, agentq, agentVars, mgrq, fd_map, client, inputs>>

scene_enter_player ==
  /\ Receives(sceneq, "enter_player")
  /\ add_player(Head(sceneq).pid)
  /\ sceneq' = Tail(sceneq)
  /\ UNCHANGED outsideScene

scene_leave_player ==
  /\ Receives(sceneq, "leave_player")
  /\ del_player(Head(sceneq).pid)
  /\ sceneq' = Tail(sceneq)
  /\ UNCHANGED outsideScene

scene_sync_ctrl ==
  /\ Receives(sceneq, "sync_ctrl")
  /\ sync_ctrl(Head(sceneq).pid, Head(sceneq).action)
  /\ sceneq' = Tail(sceneq)
  /\ UNCHANGED outsideScene

FrameSkip ==
  /\ frame_skip
  /\ UNCHANGED <<sceneq, outsideScene>>

-----------------------------------------------------------------------------
(* The game's SCENE_BC service.                                             *)
outsideBC == <<gameVars, gateVars, agentq, agentVars, mgrq, sceneq, inputs>>

register_fd ==
  /\ Receives(bcq, "register_fd")
  /\ bcq' = Tail(bcq)
  /\ fd_map' = [fd_map EXCEPT ![Head(bcq).uuid] = Head(bcq).fd]
  /\ UNCHANGED <<outsideBC, client>>

unregister_fd ==
  /\ Receives(bcq, "unregister_fd")
  /\ bcq' = Tail(bcq)
  /\ fd_map' = [fd_map EXCEPT ![Head(bcq).uuid] = nil]
  /\ UNCHANGED <<outsideBC, client>>

(* send_to_player and send_to_list, with the receive handler of the client. *)
(* What is sent to a closed connection is lost.                             *)
send_to_list ==
  LET m == Head(bcq)
  IN  /\ Receives(bcq, "send")
      /\ bcq' = Tail(bcq)
      /\ client' = [fd \in Fds |->
                      IF fd \in conlist /\ \E uuid \in m.uuids : fd_map[uuid] = fd
                      THEN _dispatch_request(client[fd], m.data)
                      ELSE client[fd]]
      /\ UNCHANGED <<outsideBC, fd_map>>

-----------------------------------------------------------------------------
(* Fault: the loop stops with one frame left in the queue.                  *)
update_logic_OffByOne(fd) ==
  /\ FSM_OPEN(fd)
  /\ Len(client[fd].m_FrameQueue) > 1
  /\ client' = [client EXCEPT
       ![fd].executed = Append(@, Head(client[fd].m_FrameQueue)),
       ![fd].m_FrameQueue = Tail(@)]
  /\ UNCHANGED <<gameVars, bcq, gateVars, agentq, agentVars, mgrq, sceneq,
                 fd_map, inputs>>

(* The client executes the frame at the head of its queue, once it is due.  *)
(* A turn of the loop in update_logic, from the main loop or from the fast  *)
(* forward when the FSM opens.                                              *)
update_logic(fd) ==
  /\ FSM_OPEN(fd)
  /\ client[fd].m_FrameQueue # <<>>
  /\ client' = [client EXCEPT
       ![fd].executed = Append(@, Head(client[fd].m_FrameQueue)),
       ![fd].m_FrameQueue = Tail(@)]
  /\ UNCHANGED <<gameVars, bcq, gateVars, agentq, agentVars, mgrq, sceneq,
                 fd_map, inputs>>

-----------------------------------------------------------------------------
(* The game has just been created for the first login: its agent waits in   *)
(* enterwar, and SCENE_MGR's handler has new_game's answer.                 *)
Init ==
  /\ GameInit
  /\ \E pid \in Pids :
       /\ m_Pid = [fd \in Fds |-> IF fd = 1 THEN pid ELSE nil]
       /\ playerlist = [p \in Pids |-> IF p = pid THEN 1 ELSE nil]
       /\ bcq = <<Register(pid, 1)>>
       /\ mgrq = <<EnterPlayer(pid, 1)>>
  /\ conlist = {1}
  /\ nfd = 1
  /\ logins = {}
  /\ agentq = [a \in Agents |-> <<>>]
  /\ m_SceneAgent = {}
  /\ sceneq = <<>>
  /\ fd_map = [p \in Pids |-> nil]
  /\ client = [fd \in Fds |-> NewClient]
  /\ inputs = [p \in Pids |-> <<>>]

Gate ==
  \/ \E pid \in Pids : NewConnection(pid)
  \/ \E fd \in Fds, pid \in Pids : loginsuc(fd, pid)
  \/ \E fd \in Fds : DelConnection(fd)
  \/ \E fd \in Fds, action \in Controls : touch_key(fd, action)

Agent(a) == start(a) \/ enterwar(a) \/ kick(a) \/ Analysis(a)

SceneService == scene_enter_player \/ scene_leave_player \/ scene_sync_ctrl

Broadcast == register_fd \/ unregister_fd \/ send_to_list

Next ==
  \/ Gate
  \/ \E a \in Agents : Agent(a)
  \/ mgr_enter_player
  \/ SceneService
  \/ FrameSkip
  \/ Broadcast
  \/ \E fd \in Fds : update_logic(fd)

Spec == Init /\ [][Next]_vars

(* Skynet's workers run every service whose mailbox is not empty, GAMELOGIN *)
(* answers, the FrameSkip timer goes off, and clients keep running.         *)
Fairness ==
  /\ \A fd \in Fds, pid \in Pids : WF_vars(loginsuc(fd, pid))
  /\ \A a \in Agents : WF_vars(Agent(a))
  /\ WF_vars(mgr_enter_player)
  /\ WF_vars(SceneService)
  /\ WF_vars(FrameSkip)
  /\ WF_vars(Broadcast)
  /\ \A fd \in Fds : WF_vars(update_logic(fd))

FairSpec == Spec /\ Fairness

-----------------------------------------------------------------------------
(* Types.                                                                   *)
AgentMsg ==
  [cmd : {"start", "entering"}, pid : Pids, fd : Fds]
    \cup [cmd : {"kick"}, pid : Pids]
    \cup [cmd : {"Unpack"}, pid : Pids, action : Controls]

MgrMsg == [cmd : {"enter_player"}, pid : Pids, fd : Fds]

SceneMsg ==
  [cmd : {"enter_player", "leave_player"}, pid : Pids]
    \cup [cmd : {"sync_ctrl"}, pid : Pids, action : Controls]

Package ==
  [proto : {"gs2c_loginsuc"}, frame_cache_num : Nat]
    \cup [proto : {"gs2c_frame_cache_data"}, frame_cache : Seq(FrameInfo)]
    \cup [proto : {"gs2c_frame_data"}, frame_data : FrameInfo]

BCMsg ==
  [cmd : {"register_fd"}, uuid : Pids, fd : Fds]
    \cup [cmd : {"unregister_fd"}, uuid : Pids]
    \cup [cmd : {"send"}, uuids : SUBSET Pids, data : Package]

Client ==
  [m_FsmInitData : Nat \cup {nil}, m_FrameQueue : Seq(FrameInfo),
   executed : Seq(FrameInfo), seededAt : Nat \cup {nil}]

(* Every mailbox holds messages its service has a handler for, frames are   *)
(* numbered by their place in the log, and the tables of the services hold  *)
(* connections that were accepted.                                          *)
TypeOK ==
  /\ GameTypeOK
  /\ nfd \in Fds
  /\ conlist \subseteq 1 .. nfd
  /\ m_Pid \in [Fds -> Pids \cup {nil}]
  /\ logins \subseteq (1 .. nfd) \X Pids
  /\ agentq \in [Agents -> Seq(AgentMsg)]
  /\ playerlist \in [Pids -> Fds \cup {nil}]
  /\ m_SceneAgent \subseteq Pids
  /\ mgrq \in Seq(MgrMsg)
  /\ sceneq \in Seq(SceneMsg)
  /\ bcq \in Seq(BCMsg)
  /\ fd_map \in [Pids -> Fds \cup {nil}]
  /\ client \in [Fds -> Client]
  /\ inputs \in [Pids -> Seq(Controls)]

-----------------------------------------------------------------------------
(* Properties that hold whichever of the freedoms in Allowed clients take.  *)

LastOf(mailbox, cmds, pid) ==
  {i \in 1 .. Len(mailbox) :
     /\ mailbox[i].cmd \in cmds
     /\ mailbox[i].pid = pid
     /\ \A j \in i + 1 .. Len(mailbox) :
          ~(mailbox[j].cmd \in cmds /\ mailbox[j].pid = pid)}

LastRouting(pid) ==
  {i \in 1 .. Len(bcq) :
     /\ bcq[i].cmd \in {"register_fd", "unregister_fd"}
     /\ bcq[i].uuid = pid
     /\ \A j \in i + 1 .. Len(bcq) :
          ~(bcq[j].cmd \in {"register_fd", "unregister_fd"} /\ bcq[j].uuid = pid)}

(* The broadcast service's table ends up as the agents' player table: the   *)
(* last register_fd or unregister_fd on its way for a pid, or else fd_map,  *)
(* says what playerlist says (Player:login, Player:quit, broadcast.lua).    *)
RoutingConverges ==
  \A pid \in Pids :
    IF LastRouting(pid) = {}
    THEN fd_map[pid] = playerlist[pid]
    ELSE \A i \in LastRouting(pid) :
           playerlist[pid] = IF bcq[i].cmd = "register_fd" THEN bcq[i].fd ELSE nil

(* A player object that knows its scene is known to the scene, or will be   *)
(* after the messages under way: no leave_player of an earlier connection   *)
(* of the pid undoes a later enter_player (Player:enterwar and leavewar,    *)
(* SCENE_MGR between them).                                                 *)
SceneKnowsPlayer ==
  \A pid \in m_SceneAgent :
    LET last == LastOf(sceneq, {"enter_player", "leave_player"}, pid)
    IN  IF last = {} THEN pid \in m_Players
        ELSE \A i \in last : sceneq[i].cmd = "enter_player"

-----------------------------------------------------------------------------
(* Properties that need clients to behave: Allowed = {}.                    *)

(* The README's frame synchronisation: each client executes the frames of   *)
(* the game in order from the first, its generator seeded before the first  *)
(* (the frame cache, the order of the broadcasts and gs2c_frame_cache_data  *)
(* that waits for the whole cache).                                         *)
LockstepPrefix ==
  \A fd \in conlist :
    /\ client[fd].seededAt \in {nil, 0}
    /\ IsPrefix(Received(client[fd]), m_FrameCacheQueue)

(* The part of LockstepPrefix a user can see: what has been executed.       *)
ExecutedInLockstep ==
  \A fd \in conlist :
    /\ client[fd].seededAt \in {nil, 0}
    /\ IsPrefix(client[fd].executed, m_FrameCacheQueue)

(* The frames on their way to pid at connection fd: those that SCENE_BC     *)
(* comes to once fd is registered.                                          *)
Frames(data) ==
  CASE data.proto = "gs2c_loginsuc" -> <<>>
    [] data.proto = "gs2c_frame_cache_data" -> data.frame_cache
    [] data.proto = "gs2c_frame_data" -> <<data.frame_data>>

InTransit(pid, fd) ==
  FlattenSeq([i \in 1 .. Len(bcq) |->
    IF /\ bcq[i].cmd = "send"
       /\ pid \in bcq[i].uuids
       /\ \A j \in i + 1 .. Len(bcq) : bcq[j] # Register(pid, fd)
    THEN Frames(bcq[i].data)
    ELSE <<>>])

(* No frame is lost between the game and a player of it: what its client    *)
(* has and what is on its way make up the log, from the moment the scene    *)
(* has added the player (add_player sends the past, BC2Players the future). *)
NoFrameLost ==
  \A fd \in conlist :
    m_Pid[fd] \in m_Players =>
      Received(client[fd]) \o InTransit(m_Pid[fd], fd) = m_FrameCacheQueue

(* Once all is settled for a pid and its routing is up to date, its newest  *)
(* connection is the one served: by its agent, by the broadcast service and *)
(* in the game (command.start, command.kick, register_fd, add_player).      *)
LiveConnectionServed ==
  \A fd \in conlist :
    LET pid == m_Pid[fd]
    IN  /\ pid # nil
        /\ \A g \in Connected(pid) : g <= fd
        /\ IsSettled(pid)
        /\ LastRouting(pid) = {}
        => /\ playerlist[pid] = fd
           /\ fd_map[pid] = fd
           /\ pid \in m_SceneAgent
           /\ pid \in m_Players

(* Once all is settled for a pid that has no connection, nothing of it is   *)
(* left: no player object, no route, no player in the game (DelConnection,  *)
(* command.kick, Player:leavewar, Player:quit).                             *)
NoGhostPlayer ==
  \A pid \in Pids :
    /\ Connected(pid) = {}
    /\ IsSettled(pid)
    /\ LastRouting(pid) = {}
    => /\ playerlist[pid] = nil
       /\ fd_map[pid] = nil
       /\ pid \notin m_Players

(* The controls of the log and of the tick under way, one after the other.  *)
Stream == FlattenSeq([i \in 1 .. Len(m_FrameCacheQueue) |->
                        m_FrameCacheQueue[i].ctrl_data]) \o m_CtrlDataQueue

(* What users of pid did that is in frames, and what is in a mailbox.       *)
Framed(pid) ==
  FlattenSeq([k \in 1 .. Len(Stream) |->
    IF Stream[k].pid = pid /\ Stream[k].action \in Controls
    THEN <<Stream[k].action>> ELSE <<>>])

Posted(pid, mailbox) ==
  FlattenSeq([k \in 1 .. Len(mailbox) |->
    IF mailbox[k].cmd \in {"sync_ctrl", "Unpack"} /\ mailbox[k].pid = pid
    THEN <<mailbox[k].action>> ELSE <<>>])

(* Every control of a user that the gate gets reaches the frames once and   *)
(* in the order got: the controls of a pid in the log, then those of the    *)
(* tick under way and of the mailboxes, are the ones its clients gave, also *)
(* when the player leaves right after (Analysis, Player:sync_ctrl,          *)
(* command.kick).                                                           *)
ControlsOf(pid) ==
  Framed(pid) \o Posted(pid, sceneq) \o Posted(pid, agentq[get_user_agent(pid)])

InputsInOrder == \A pid \in Pids : ControlsOf(pid) = inputs[pid]

-----------------------------------------------------------------------------
(* Liveness, under FairSpec and for clients that behave.                    *)

(* A login is answered: the client's FSM opens, unless the client goes.     *)
LoginServed ==
  \A fd \in Fds :
    fd \in conlist ~> (FSM_OPEN(fd) \/ fd \notin conlist)

(* A frame of the log, old or new, is executed by every client that stays   *)
(* (add_player's cache, BC2Players and update_logic).                       *)
FramesExecuted ==
  \A fd \in Fds : \A n \in 1 .. MaxFrames :
    (fd \in conlist /\ Len(m_FrameCacheQueue) >= n)
      ~> (Len(client[fd].executed) >= n \/ fd \notin conlist)

-----------------------------------------------------------------------------
(* The services together implement Lockstep: a viewer is a connection whose *)
(* client has opened its FSM.                                               *)
Abstract == INSTANCE Lockstep WITH
  Viewers <- Fds,
  Frame   <- FrameInfo,
  log     <- m_FrameCacheQueue,
  viewers <- {fd \in Fds : FSM_OPEN(fd)},
  seen    <- [fd \in Fds |-> client[fd].executed]

(* Every step of the services is a step of Lockstep or changes nothing of   *)
(* it, and each frame of the log is executed by each client that stays.     *)
ImplementsLockstep == Abstract!FairSpec
=============================================================================
