----------------------------- MODULE ClientProofs -----------------------------
(***************************************************************************)
(* What holds of the whole server when clients behave (Allowed = {}): a    *)
(* pid logs in when nothing is left of its last login, and leaves when it  *)
(* has entered.                                                            *)
(*                                                                         *)
(* First, what becomes of logins.  A login is in one of a few stages, from *)
(* GAMEGATE to the game and back, and the stage says which messages of the *)
(* pid each mailbox holds and what each service knows of it.               *)
(*                                                                         *)
(* Second, what clients get to see: the client of a connection has         *)
(* received a beginning of the game's log, what it has and what is under   *)
(* way to it make up that log, the services together implement Lockstep,   *)
(* and so any two clients show one game.                                   *)
(*                                                                         *)
(* Third, the controls the gate gets: each gets into the log, in order.    *)
(***************************************************************************)
EXTENDS FrameSyncProofs

-----------------------------------------------------------------------------
(* The messages by which an agent goes on with pid, and those by which it   *)
(* asks SCENE_MGR for it.                                                   *)
Duty(pid) == {m \in AgentMsg : /\ m.cmd \in {"start", "entering", "kick"}
                               /\ m.pid = pid}
Asks(pid) == {m \in MgrMsg : m.pid = pid}

(* All that is under way for pid to and from its agent.                     *)
ToDo(pid, duty, asked) ==
  /\ Holds(agentq[get_user_agent(pid)], Duty(pid), duty)
  /\ Holds(mgrq, Asks(pid), asked)

Idle(pid) == ToDo(pid, <<>>, <<>>)

(* Where pid is in respect of the game.                                     *)
Enter(pid) == Msg("enter_player", pid)
Leave(pid) == Msg("leave_player", pid)

Moving(pid, moves) == Holds(sceneq, Moves(pid), moves)

OutOfGame(pid) == pid \notin m_Players /\ Moving(pid, <<>>)
GoingIn(pid) == IF pid \in m_Players THEN Moving(pid, <<>>)
                                     ELSE Moving(pid, <<Enter(pid)>>)
GoingOut(pid) == IF pid \in m_Players THEN Moving(pid, <<Leave(pid)>>)
                 ELSE Moving(pid, <<>>) \/ Moving(pid, <<Enter(pid), Leave(pid)>>)

(* Where it is in respect of GAMEGATE and its agent.                        *)
Unconnected(pid) == Connected(pid) = {}
LoggingIn(pid, fd) == Connected(pid) = {fd} /\ m_Pid[fd] = nil
LoggedIn(pid, fd) == Connected(pid) = {fd} /\ m_Pid[fd] = pid

Absent(pid) == playerlist[pid] = nil /\ pid \notin m_SceneAgent

(* The stages of a login.                                                   *)
Away(pid) == Unconnected(pid) /\ Idle(pid) /\ Absent(pid) /\ GoingOut(pid)

LogsIn(pid, fd) == LoggingIn(pid, fd) /\ Idle(pid) /\ Absent(pid) /\ OutOfGame(pid)

Starting(pid, fd) ==
  /\ LoggedIn(pid, fd) /\ ToDo(pid, <<Start(pid, fd)>>, <<>>)
  /\ Absent(pid) /\ OutOfGame(pid)

Calling(pid, fd) ==
  /\ LoggedIn(pid, fd) /\ ToDo(pid, <<>>, <<EnterPlayer(pid, fd)>>)
  /\ playerlist[pid] = fd /\ OutOfGame(pid)

EnteringScene(pid, fd) ==
  /\ LoggedIn(pid, fd) /\ ToDo(pid, <<Entering(pid, fd)>>, <<>>)
  /\ playerlist[pid] = fd /\ GoingIn(pid)

Playing(pid, fd) ==
  /\ LoggedIn(pid, fd) /\ Idle(pid)
  /\ playerlist[pid] = fd /\ pid \in m_SceneAgent /\ GoingIn(pid)

Kicked(pid) ==
  /\ Unconnected(pid) /\ ToDo(pid, <<Msg("kick", pid)>>, <<>>)
  /\ playerlist[pid] # nil /\ pid \in m_SceneAgent /\ GoingIn(pid)

Stage(pid) ==
  \/ Away(pid)
  \/ Kicked(pid)
  \/ \E fd \in Fds : \/ LogsIn(pid, fd) \/ Starting(pid, fd) \/ Calling(pid, fd)
                     \/ EnteringScene(pid, fd) \/ Playing(pid, fd)

(* A login on its way is that of one pid, on a connection that is there and *)
(* not logged in; and an agent is sent messages of its own pids only.       *)
GateInv ==
  /\ \A fd \in Fds, pid \in Pids :
       <<fd, pid>> \in logins => fd \in conlist /\ m_Pid[fd] = nil
  /\ \A fd \in Fds, p, q \in Pids :
       <<fd, p>> \in logins /\ <<fd, q>> \in logins => p = q
  /\ \A fd \in Fds : fd \notin conlist => m_Pid[fd] = nil

HomeInv == \A a \in Agents : \A m \in Range(agentq[a]) : get_user_agent(m.pid) = a

ServedInv == GateInv /\ HomeInv /\ \A pid \in Pids : Stage(pid)

-----------------------------------------------------------------------------
(* What a step may leave as it was for pid.                                 *)
GateKept(pid) ==
  /\ Unconnected(pid) => Unconnected(pid)'
  /\ \A fd \in Fds : /\ LoggingIn(pid, fd) => LoggingIn(pid, fd)'
                     /\ LoggedIn(pid, fd) => LoggedIn(pid, fd)'

AgentKept(pid) ==
  /\ playerlist'[pid] = playerlist[pid]
  /\ pid \in m_SceneAgent' <=> pid \in m_SceneAgent

MailKept(pid) == \A duty, asked : ToDo(pid, duty, asked) => ToDo(pid, duty, asked)'

WayKept(pid) ==
  /\ OutOfGame(pid) => OutOfGame(pid)'
  /\ GoingIn(pid) => GoingIn(pid)'
  /\ GoingOut(pid) => GoingOut(pid)'

LEMMA StageKept ==
  ASSUME NEW pid \in Pids, Stage(pid), GateKept(pid), AgentKept(pid),
         MailKept(pid), WayKept(pid)
  PROVE  Stage(pid)'
<1>1. Absent(pid) => Absent(pid)'
  BY DEF AgentKept, Absent
<1>2. Idle(pid) => Idle(pid)'
  BY DEF MailKept, Idle
<1>3. Away(pid) => Away(pid)'
  BY <1>1, <1>2 DEF Away, GateKept, WayKept
<1>4. Kicked(pid) => Kicked(pid)'
  BY DEF Kicked, GateKept, WayKept, AgentKept, MailKept
<1>5. ASSUME NEW fd \in Fds
      PROVE  /\ LogsIn(pid, fd) => LogsIn(pid, fd)'
             /\ Starting(pid, fd) => Starting(pid, fd)'
             /\ Calling(pid, fd) => Calling(pid, fd)'
             /\ EnteringScene(pid, fd) => EnteringScene(pid, fd)'
             /\ Playing(pid, fd) => Playing(pid, fd)'
  <2>1. LogsIn(pid, fd) => LogsIn(pid, fd)'
    BY <1>1, <1>2 DEF LogsIn, GateKept, WayKept
  <2>2. Starting(pid, fd) => Starting(pid, fd)'
    BY <1>1 DEF Starting, GateKept, WayKept, MailKept
  <2>3. Calling(pid, fd) => Calling(pid, fd)'
    BY DEF Calling, GateKept, WayKept, AgentKept, MailKept
  <2>4. EnteringScene(pid, fd) => EnteringScene(pid, fd)'
    BY DEF EnteringScene, GateKept, WayKept, AgentKept, MailKept
  <2>5. Playing(pid, fd) => Playing(pid, fd)'
    BY <1>2 DEF Playing, GateKept, WayKept, AgentKept
  <2> QED BY <2>1, <2>2, <2>3, <2>4, <2>5
<1> QED BY <1>3, <1>4, <1>5 DEF Stage

LEMMA GateUnchanged ==
  ASSUME NEW pid, UNCHANGED gateVars
  PROVE  GateKept(pid)
BY DEF GateKept, Unconnected, LoggingIn, LoggedIn, Connected, gateVars

LEMMA AgentUnchanged ==
  ASSUME NEW pid, UNCHANGED agentVars
  PROVE  AgentKept(pid)
BY DEF AgentKept, agentVars

LEMMA MailUnchanged ==
  ASSUME NEW pid, UNCHANGED <<agentq, mgrq>>
  PROVE  MailKept(pid)
BY DEF MailKept, ToDo

LEMMA WayUnchanged ==
  ASSUME NEW pid, UNCHANGED <<sceneq, m_Players>>
  PROVE  WayKept(pid)
BY DEF WayKept, OutOfGame, GoingIn, GoingOut, Moving

(* An agent is sent something that is not for pid to go on with,            *)
LEMMA MailSent ==
  ASSUME TypeOK, NEW pid \in Pids, NEW p \in Pids, NEW m \in AgentMsg,
         m \notin Duty(pid), agentq' = SendAgent(agentq, p, m), mgrq' = mgrq
  PROVE  MailKept(pid)
<1> DEFINE u == get_user_agent(pid)
<1>1. u \in Agents /\ agentq[u] \in Seq(AgentMsg)
  BY AgentOfPid DEF TypeOK
<1>2. agentq'[u] = agentq[u] \/ agentq'[u] = Append(agentq[u], m)
  BY <1>1, Sent
<1> HIDE DEF u
<1>3. \A s : Holds(agentq[u], Duty(pid), s) => Holds(agentq'[u], Duty(pid), s)
  BY <1>1, <1>2, AppendOther
<1> QED BY <1>3 DEF MailKept, ToDo, u

(* or takes such a message.                                                 *)
LEMMA DutyTaken ==
  ASSUME TypeOK, NEW pid \in Pids, NEW a \in Agents, agentq[a] # <<>>,
         Head(agentq[a]) \notin Duty(pid),
         agentq' = [agentq EXCEPT ![a] = Tail(@)]
  PROVE  \A s : Holds(agentq[get_user_agent(pid)], Duty(pid), s)
                  => Holds(agentq'[get_user_agent(pid)], Duty(pid), s)
<1> DEFINE u == get_user_agent(pid)
<1>1. u \in Agents /\ agentq[u] \in Seq(AgentMsg) /\ agentq \in [Agents -> Seq(AgentMsg)]
  BY AgentOfPid DEF TypeOK
<1>2. \/ agentq'[u] = agentq[u]
      \/ a = u /\ agentq'[u] = Tail(agentq[u])
  <2> HIDE DEF u
  <2> QED BY <1>1
<1> HIDE DEF u
<1>3. \A s : Holds(agentq[u], Duty(pid), s) => Holds(agentq'[u], Duty(pid), s)
  BY <1>1, <1>2, TailOther
<1> QED BY <1>3 DEF u

-----------------------------------------------------------------------------
(* GAMEGATE.                                                                *)
LEMMA GateFacts ==
  ASSUME TypeOK
  PROVE  /\ nfd \in Nat /\ Fds = 1 .. MaxConns /\ MaxConns \in Nat
         /\ conlist \subseteq 1 .. nfd /\ conlist \subseteq Fds
         /\ m_Pid \in [Fds -> Pids \cup {nil}] /\ nil \notin Pids
<1>1. nfd \in 1 .. MaxConns /\ MaxConns \in Nat /\ conlist \subseteq 1 .. nfd
  BY FrameSyncAssumption DEF TypeOK, Fds
<1>2. conlist \subseteq 1 .. MaxConns
  BY <1>1
<1>3. nil \notin Pids
  BY SceneAssumption, FrameSyncAssumption
<1> QED BY <1>1, <1>2, <1>3 DEF TypeOK, Fds

(* A pid whose connection is at GAMEGATE with a login on its way is at      *)
(* LogsIn, one whose connection is logged in is past it.                    *)
LEMMA LogsInOnly ==
  ASSUME NEW pid \in Pids, NEW fd \in Fds, Stage(pid), nil \notin Pids,
         fd \in Connected(pid), m_Pid[fd] = nil
  PROVE  LogsIn(pid, fd)
<1>1. ~Unconnected(pid) /\ \A g \in Fds : ~LoggedIn(pid, g)
  BY DEF Unconnected, LoggedIn
<1>2. PICK g \in Fds : LogsIn(pid, g)
  <2>1. ~Away(pid) /\ ~Kicked(pid)
    BY <1>1 DEF Away, Kicked
  <2>2. ASSUME NEW g \in Fds
        PROVE  /\ ~Starting(pid, g) /\ ~Calling(pid, g)
               /\ ~EnteringScene(pid, g) /\ ~Playing(pid, g)
    BY <1>1 DEF Starting, Calling, EnteringScene, Playing
  <2> QED BY <2>1, <2>2 DEF Stage
<1>3. g = fd
  BY <1>2 DEF LogsIn, LoggingIn
<1> QED BY <1>2, <1>3

LEMMA LoggedInOnly ==
  ASSUME NEW pid \in Pids, NEW fd \in Fds, Stage(pid), nil \notin Pids,
         fd \in Connected(pid), m_Pid[fd] = pid
  PROVE  \/ Starting(pid, fd) \/ Calling(pid, fd) \/ EnteringScene(pid, fd)
         \/ Playing(pid, fd)
<1>1. ~Unconnected(pid) /\ \A g \in Fds : LoggingIn(pid, g) \/ LoggedIn(pid, g) => g = fd
  BY DEF Unconnected, LoggingIn, LoggedIn
<1>2. ~LogsIn(pid, fd)
  BY DEF LogsIn, LoggingIn
<1>3. ~Away(pid) /\ ~Kicked(pid)
  BY <1>1 DEF Away, Kicked
<1>4. ASSUME NEW g \in Fds, g # fd
      PROVE  /\ ~LogsIn(pid, g) /\ ~Starting(pid, g) /\ ~Calling(pid, g)
             /\ ~EnteringScene(pid, g) /\ ~Playing(pid, g)
  BY <1>1, <1>4 DEF LogsIn, Starting, Calling, EnteringScene, Playing
<1> QED BY <1>2, <1>3, <1>4 DEF Stage

LEMMA MentionsOf ==
  ASSUME NEW q, DOMAIN q = 1 .. Len(q), NEW T, NEW s, Holds(q, T, s),
         NEW cmds, NEW pid, NEW k \in DOMAIN s, s[k].cmd \in cmds, s[k].pid = pid
  PROVE  Mentions(q, cmds, pid)
<1>1. PICK f : Embeds(f, q, T, s)
  BY DEF Holds
<1>2. f[k] \in DOMAIN q /\ q[f[k]] = s[k]
  BY <1>1 DEF Embeds
<1> QED BY <1>2 DEF Mentions

(* Of a pid that is settled nothing is under way.                           *)
LEMMA SettledAway ==
  ASSUME TypeOK, NEW pid \in Pids, Stage(pid), Unconnected(pid), IsSettled(pid),
         pid \notin m_Players
  PROVE  Away(pid) /\ OutOfGame(pid)
<1> DEFINE u == get_user_agent(pid)
<1>1. /\ DOMAIN agentq[u] = 1 .. Len(agentq[u])
      /\ DOMAIN sceneq = 1 .. Len(sceneq)
  BY AgentOfPid DEF TypeOK
<1>2. ~Kicked(pid)
  <2> SUFFICES ASSUME Holds(agentq[u], Duty(pid), <<Msg("kick", pid)>>) PROVE FALSE
    BY DEF Kicked, ToDo
  <2> DEFINE s == <<Msg("kick", pid)>>
  <2>1. 1 \in DOMAIN s /\ s[1].cmd \in {"kick"} /\ s[1].pid = pid
    BY DEF Msg
  <2> HIDE DEF s
  <2>2. Mentions(agentq[u], {"kick"}, pid)
    BY <1>1, <2>1, MentionsOf DEF s
  <2> QED BY <2>2 DEF IsSettled
<1>3. Away(pid)
  <2>1. ASSUME NEW fd \in Fds
        PROVE  ~LoggedIn(pid, fd) /\ ~LoggingIn(pid, fd)
    BY DEF Unconnected, LoggedIn, LoggingIn
  <2> QED BY <1>2, <2>1
    DEF Stage, LogsIn, Starting, Calling, EnteringScene, Playing
<1>4. ~Moving(pid, <<Enter(pid), Leave(pid)>>)
  <2> SUFFICES ASSUME Moving(pid, <<Enter(pid), Leave(pid)>>) PROVE FALSE
    OBVIOUS
  <2> DEFINE s == <<Enter(pid), Leave(pid)>>
  <2>1. /\ 1 \in DOMAIN s /\ s[1].cmd \in {"enter_player", "leave_player"}
        /\ s[1].pid = pid
    BY DEF Msg, Enter
  <2>2. Holds(sceneq, Moves(pid), s)
    BY DEF Moving
  <2> HIDE DEF s
  <2>3. Mentions(sceneq, {"enter_player", "leave_player"}, pid)
    BY <1>1, <2>1, <2>2, MentionsOf
  <2> QED BY <2>3 DEF IsSettled
<1> QED BY <1>3, <1>4 DEF Away, GoingOut, OutOfGame

(* A pid that a step of GAMEGATE is not about.                              *)
LEMMA ConnectedKept ==
  ASSUME NEW pid, Connected(pid)' = Connected(pid),
         \A fd \in Connected(pid) : m_Pid'[fd] = m_Pid[fd]
  PROVE  GateKept(pid)
BY DEF GateKept, Unconnected, LoggingIn, LoggedIn

LEMMA StageNewConnection ==
  ASSUME TypeOK, GateInv, Allowed = {}, NEW pid \in Pids, Stage(pid),
         NEW p \in Pids, NewConnection(p)
  PROVE  Stage(pid)'
<1>1. PICK fd \in Fds :
      /\ fd \notin conlist /\ conlist' = conlist \cup {fd}
      /\ logins' = logins \cup {<<fd, p>>} /\ m_Pid' = m_Pid
      /\ UNCHANGED <<agentVars, agentq, mgrq, sceneq, m_Players>>
  <2>1. nfd + 1 \in 1 .. MaxConns /\ nfd + 1 \notin 1 .. nfd
    BY GateFacts DEF NewConnection
  <2> QED BY <2>1, GateFacts DEF NewConnection, UpackData, gameVars
<1>2. \A x \in Pids : <<fd, x>> \notin logins
  BY <1>1 DEF GateInv
<1>3. Unconnected(p) /\ IsSettled(p) /\ p \notin m_Players
  BY DEF NewConnection, Unconnected
<1>4. m_Pid[fd] = nil /\ nil \notin Pids
  BY <1>1, GateFacts DEF GateInv
<1>5. MailKept(pid) /\ WayKept(pid) /\ AgentKept(pid)
  BY <1>1, MailUnchanged, WayUnchanged, AgentUnchanged
<1>6. CASE pid # p
  <2>1. Connected(pid)' = Connected(pid)
    BY <1>1, <1>2, <1>4, <1>6 DEF Connected
  <2>2. GateKept(pid)
    BY <1>1, <2>1, ConnectedKept
  <2> QED BY <1>5, <2>2, StageKept
<1>7. CASE pid = p
  <2>1. Connected(pid)' = {fd}
    BY <1>1, <1>3, <1>7 DEF Connected, Unconnected
  <2>2. LoggingIn(pid, fd)'
    BY <1>1, <1>4, <2>1 DEF LoggingIn
  <2>3. Away(pid) /\ OutOfGame(pid)
    BY <1>3, <1>7, SettledAway
  <2>4. Idle(pid)' /\ Absent(pid)' /\ OutOfGame(pid)'
    BY <1>5, <2>3 DEF Away, Idle, MailKept, AgentKept, Absent, WayKept
  <2> QED BY <1>1, <2>2, <2>4 DEF Stage, LogsIn
<1> QED BY <1>6, <1>7

(* A new message for pid to go on with.                                     *)
LEMMA DutySent ==
  ASSUME TypeOK, NEW pid \in Pids, NEW m \in Duty(pid), Idle(pid),
         agentq' = SendAgent(agentq, pid, m), mgrq' = mgrq
  PROVE  ToDo(pid, <<m>>, <<>>)'
<1> DEFINE u == get_user_agent(pid)
<1>1. m \in AgentMsg
  BY DEF Duty
<1>2. u \in Agents /\ agentq[u] \in Seq(AgentMsg) /\ agentq'[u] = Append(agentq[u], m)
  BY <1>1, AgentOfPid, Sent DEF TypeOK
<1> HIDE DEF u
<1>3. <<>> \in Seq(AgentMsg) /\ Append(<<>>, m) = <<m>>
  OBVIOUS
<1>4. Holds(agentq[u], Duty(pid), <<>>) /\ Holds(mgrq, Asks(pid), <<>>)
  BY DEF Idle, ToDo, u
<1>5. Holds(agentq'[u], Duty(pid), <<m>>)
  BY <1>1, <1>2, <1>3, <1>4, AppendOwn
<1> QED BY <1>4, <1>5 DEF ToDo, u

LEMMA StageLoginsuc ==
  ASSUME TypeOK, GateInv, NEW pid \in Pids, Stage(pid),
         NEW x \in Fds, NEW p \in Pids, loginsuc(x, p)
  PROVE  Stage(pid)'
<1>1. /\ <<x, p>> \in logins /\ x \in conlist /\ m_Pid[x] = nil
      /\ logins' = logins \ {<<x, p>>} /\ conlist' = conlist
      /\ m_Pid' = [m_Pid EXCEPT ![x] = p]
      /\ agentq' = SendAgent(agentq, p, Start(p, x))
      /\ UNCHANGED <<agentVars, mgrq, sceneq, m_Players>>
  BY DEF loginsuc, GateInv, gameVars
<1> DEFINE m == Start(p, x)
<1>2. m \in AgentMsg /\ m \in Duty(p) /\ m.pid = p
  BY DEF Duty, AgentMsg, Start
<1>3. nil \notin Pids /\ m_Pid'[x] = p /\ \A fd \in Fds : fd # x => m_Pid'[fd] = m_Pid[fd]
  BY <1>1, GateFacts
<1>4. conlist \subseteq Fds
  BY GateFacts
<1>5. WayKept(pid) /\ AgentKept(pid)
  BY <1>1, WayUnchanged, AgentUnchanged
<1> HIDE DEF m
<1>6. CASE pid # p
  <2>1. <<x, pid>> \notin logins
    BY <1>1, <1>6 DEF GateInv
  <2>2. x \notin Connected(pid) /\ x \notin Connected(pid)'
    BY <1>1, <1>3, <1>6, <2>1 DEF Connected
  <2>3. Connected(pid)' = Connected(pid)
    BY <1>1, <1>3, <1>4, <2>2 DEF Connected
  <2>4. \A fd \in Connected(pid) : m_Pid'[fd] = m_Pid[fd]
    BY <1>3, <1>4, <2>2 DEF Connected
  <2>5. GateKept(pid)
    BY <2>3, <2>4, ConnectedKept
  <2>6. m \notin Duty(pid)
    BY <1>2, <1>6 DEF Duty
  <2>7. MailKept(pid)
    BY <1>1, <1>2, <2>6, MailSent DEF m
  <2> QED BY <1>5, <2>5, <2>7, StageKept
<1>7. CASE pid = p
  <2>1. x \in Connected(pid)
    BY <1>1, <1>7 DEF Connected
  <2>2. LogsIn(pid, x)
    BY <1>1, <1>3, <2>1, LogsInOnly
  <2>3. Connected(pid) = {x}
    BY <2>2 DEF LogsIn, LoggingIn
  <2>4. Connected(pid)' = {x}
    <3>1. x \in Connected(pid)'
      BY <1>1, <1>3, <1>7 DEF Connected
    <3>2. \A fd \in Connected(pid)' : fd = x
      BY <1>1, <1>3, <1>4, <2>3 DEF Connected
    <3> QED BY <3>1, <3>2
  <2>5. LoggedIn(pid, x)'
    BY <1>3, <1>7, <2>4 DEF LoggedIn
  <2>6. ToDo(pid, <<Start(pid, x)>>, <<>>)'
    BY <1>1, <1>2, <1>7, <2>2, DutySent DEF LogsIn, m
  <2>7. Absent(pid)' /\ OutOfGame(pid)'
    BY <1>5, <2>2 DEF LogsIn, AgentKept, Absent, WayKept
  <2> QED BY <2>5, <2>6, <2>7 DEF Stage, Starting
<1> QED BY <1>6, <1>7

LEMMA StageDelConnection ==
  ASSUME TypeOK, GateInv, Allowed = {}, NEW pid \in Pids, Stage(pid),
         NEW x \in Fds, DelConnection(x)
  PROVE  Stage(pid)'
<1> DEFINE p == m_Pid[x]
<1>0. p \in Pids
  BY GateFacts DEF DelConnection
<1>1. /\ x \in conlist /\ ~IsEntering(p) /\ conlist' = conlist \ {x}
      /\ logins' = logins /\ m_Pid' = [m_Pid EXCEPT ![x] = nil]
      /\ agentq' = SendAgent(agentq, p, Msg("kick", p))
      /\ UNCHANGED <<agentVars, mgrq, sceneq, m_Players>>
  BY <1>0, GateFacts DEF DelConnection, gameVars
<1> DEFINE m == Msg("kick", p)
<1>2. m \in AgentMsg /\ m \in Duty(p) /\ m.pid = p
  BY <1>0 DEF Duty, AgentMsg, Msg
<1>3. /\ nil \notin Pids /\ m_Pid'[x] = nil
      /\ \A fd \in Fds : fd # x => m_Pid'[fd] = m_Pid[fd]
  BY <1>1, GateFacts
<1>4. conlist \subseteq Fds
  BY GateFacts
<1>5. WayKept(pid) /\ AgentKept(pid)
  BY <1>1, WayUnchanged, AgentUnchanged
<1>6. <<x, pid>> \notin logins
  BY <1>0, <1>3 DEF GateInv
<1>7. CASE pid # p
  <2>1. x \notin Connected(pid) /\ x \notin Connected(pid)'
    BY <1>1, <1>6, <1>7 DEF Connected
  <2>2. Connected(pid)' = Connected(pid)
    BY <1>1, <1>3, <1>4, <2>1 DEF Connected
  <2>3. \A fd \in Connected(pid) : m_Pid'[fd] = m_Pid[fd]
    BY <1>3, <1>4, <2>1 DEF Connected
  <2>4. GateKept(pid)
    BY <2>2, <2>3, ConnectedKept
  <2>5. m \notin Duty(pid)
    BY <1>2, <1>7 DEF Duty
  <2>6. MailKept(pid)
    BY <1>0, <1>1, <1>2, <2>5, MailSent DEF m
  <2> QED BY <1>5, <2>4, <2>6, StageKept
<1>8. CASE pid = p
  <2>1. x \in Connected(pid)
    BY <1>1, <1>8 DEF Connected
  <2>2. Playing(pid, x)
    <3>1. /\ DOMAIN agentq[get_user_agent(pid)] = 1 .. Len(agentq[get_user_agent(pid)])
          /\ DOMAIN mgrq = 1 .. Len(mgrq)
      BY AgentOfPid DEF TypeOK
    <3>2. ASSUME NEW d, d.cmd \in {"start", "entering"}, d.pid = pid
          PROVE  ~ToDo(pid, <<d>>, <<>>)
      <4> DEFINE s == <<d>>
      <4>1. 1 \in DOMAIN s /\ s[1] = d
        OBVIOUS
      <4> HIDE DEF s
      <4>2. Holds(agentq[get_user_agent(pid)], Duty(pid), s)
              => Mentions(agentq[get_user_agent(pid)], {"start", "entering"}, pid)
        BY <3>1, <3>2, <4>1, MentionsOf
      <4> QED BY <1>1, <1>8, <4>2 DEF IsEntering, ToDo, s
    <3>3. ~Starting(pid, x) /\ ~EnteringScene(pid, x)
      BY <3>2 DEF Starting, EnteringScene, Start, Entering
    <3>4. ~Calling(pid, x)
      <4> DEFINE s == <<EnterPlayer(pid, x)>>
      <4>1. 1 \in DOMAIN s /\ s[1].cmd \in {"enter_player"} /\ s[1].pid = pid
        BY DEF EnterPlayer
      <4> HIDE DEF s
      <4>2. Holds(mgrq, Asks(pid), s) => Mentions(mgrq, {"enter_player"}, pid)
        BY <3>1, <4>1, MentionsOf
      <4> QED BY <1>1, <1>8, <4>2 DEF IsEntering, Calling, ToDo, s
    <3> QED BY <1>3, <1>8, <2>1, <3>3, <3>4, LoggedInOnly
  <2>3. Connected(pid) = {x}
    BY <2>2 DEF Playing, LoggedIn
  <2>4. Connected(pid)' = {}
    BY <1>1, <1>3, <1>4, <2>3 DEF Connected
  <2>5. ToDo(pid, <<Msg("kick", pid)>>, <<>>)'
    <3>1. agentq' = SendAgent(agentq, pid, Msg("kick", pid)) /\ Msg("kick", pid) \in Duty(pid)
      BY <1>1, <1>2, <1>8
    <3> HIDE DEF p, m
    <3> QED BY <1>1, <2>2, <3>1, DutySent DEF Playing
  <2>6. playerlist'[pid] # nil /\ pid \in m_SceneAgent' /\ GoingIn(pid)'
    BY <1>5, <2>2, FrameSyncAssumption DEF Playing, AgentKept, WayKept, Fds
  <2> QED BY <2>4, <2>5, <2>6 DEF Stage, Kicked, Unconnected
<1> QED BY <1>7, <1>8

LEMMA StageTouchKey ==
  ASSUME TypeOK, NEW pid \in Pids, Stage(pid),
         NEW x \in Fds, NEW action \in Controls, touch_key(x, action)
  PROVE  Stage(pid)'
<1> DEFINE p == m_Pid[x]
           m == Unpack(p, action)
<1>1. /\ p \in Pids /\ agentq' = SendAgent(agentq, p, m)
      /\ UNCHANGED <<gateVars, agentVars, mgrq, sceneq, m_Players>>
  BY GateFacts DEF touch_key, dispatch_msg, gameVars
<1>2. m \in AgentMsg /\ m \notin Duty(pid)
  BY <1>1 DEF Duty, AgentMsg, Unpack
<1>3. MailKept(pid)
  <2> HIDE DEF p, m
  <2> QED BY <1>1, <1>2, MailSent
<1> QED BY <1>1, <1>3, StageKept, WayUnchanged, AgentUnchanged, GateUnchanged

LEMMA StageGate ==
  ASSUME TypeOK, GateInv, Allowed = {}, NEW pid \in Pids, Stage(pid), Gate
  PROVE  Stage(pid)'
BY StageNewConnection, StageLoginsuc, StageDelConnection, StageTouchKey DEF Gate

LEMMA GateInvUnchanged ==
  ASSUME GateInv, UNCHANGED gateVars
  PROVE  GateInv'
BY DEF GateInv, gateVars

LEMMA GateInvStep ==
  ASSUME TypeOK, GateInv, Allowed = {}, Gate
  PROVE  GateInv'
<1>1. ASSUME NEW p \in Pids, NewConnection(p) PROVE GateInv'
  <2>1. PICK fd \in Fds :
          /\ fd \notin conlist /\ conlist' = conlist \cup {fd}
          /\ logins' = logins \cup {<<fd, p>>} /\ m_Pid' = m_Pid
    <3>1. nfd + 1 \in 1 .. MaxConns /\ nfd + 1 \notin 1 .. nfd
      BY <1>1, GateFacts DEF NewConnection
    <3> QED BY <1>1, <3>1, GateFacts DEF NewConnection, UpackData
  <2>2. m_Pid[fd] = nil /\ \A x \in Pids : <<fd, x>> \notin logins
    BY <2>1 DEF GateInv
  <2> QED BY <2>1, <2>2 DEF GateInv
<1>2. ASSUME NEW x \in Fds, NEW p \in Pids, loginsuc(x, p) PROVE GateInv'
  <2>1. /\ <<x, p>> \in logins /\ x \in conlist
        /\ logins' = logins \ {<<x, p>>} /\ conlist' = conlist
        /\ m_Pid' = [m_Pid EXCEPT ![x] = p]
    BY <1>2 DEF loginsuc, GateInv
  <2>2. /\ \A q \in Pids : <<x, q>> \notin logins'
        /\ \A fd \in Fds : fd # x => m_Pid'[fd] = m_Pid[fd]
    BY <2>1, GateFacts DEF GateInv
  <2> QED BY <2>1, <2>2 DEF GateInv
<1>3. ASSUME NEW x \in Fds, DelConnection(x) PROVE GateInv'
  <2>1. /\ m_Pid[x] # nil /\ logins' = logins /\ conlist' = conlist \ {x}
        /\ m_Pid' = [m_Pid EXCEPT ![x] = nil]
    BY <1>3 DEF DelConnection
  <2>2. /\ \A q \in Pids : <<x, q>> \notin logins
        /\ m_Pid'[x] = nil /\ \A fd \in Fds : fd # x => m_Pid'[fd] = m_Pid[fd]
    BY <2>1, GateFacts DEF GateInv
  <2> QED BY <2>1, <2>2 DEF GateInv
<1>4. ASSUME NEW x \in Fds, NEW action \in Controls, touch_key(x, action) PROVE GateInv'
  BY <1>4, GateInvUnchanged DEF touch_key
<1> QED BY <1>1, <1>2, <1>3, <1>4 DEF Gate

LEMMA HomeSent ==
  ASSUME TypeOK, HomeInv, NEW p \in Pids, NEW m \in AgentMsg, m.pid = p,
         agentq' = SendAgent(agentq, p, m)
  PROVE  HomeInv'
<1>1. ASSUME NEW a \in Agents, NEW n \in Range(agentq'[a])
      PROVE  get_user_agent(n.pid) = a
  BY <1>1, Sent DEF HomeInv
<1> QED BY <1>1 DEF HomeInv

LEMMA HomeStep ==
  ASSUME TypeOK, GateInv, HomeInv, Next
  PROVE  HomeInv'
<1>1. ASSUME agentq' = agentq PROVE HomeInv'
  BY <1>1 DEF HomeInv
<1>2. CASE Gate
  <2>1. ASSUME NEW x \in Fds, NEW p \in Pids, loginsuc(x, p) PROVE HomeInv'
    <3>1. agentq' = SendAgent(agentq, p, Start(p, x))
      BY <2>1 DEF loginsuc, GateInv
    <3>2. Start(p, x) \in AgentMsg /\ Start(p, x).pid = p
      BY DEF Start, AgentMsg
    <3> QED BY <3>1, <3>2, HomeSent
  <2>2. ASSUME NEW x \in Fds, DelConnection(x) PROVE HomeInv'
    <3> DEFINE p == m_Pid[x]
    <3>1. p \in Pids \cup {nil} /\
          agentq' = IF p # nil THEN SendAgent(agentq, p, Msg("kick", p)) ELSE agentq
      BY <2>2, GateFacts DEF DelConnection
    <3> HIDE DEF p
    <3>2. ASSUME p \in Pids PROVE Msg("kick", p) \in AgentMsg /\ Msg("kick", p).pid = p
      BY <3>2 DEF Msg, AgentMsg
    <3> QED BY <1>1, <3>1, <3>2, HomeSent
  <2>3. ASSUME NEW x \in Fds, NEW action \in Controls, touch_key(x, action)
        PROVE  HomeInv'
    <3> DEFINE p == m_Pid[x]
    <3>1. p \in Pids /\ agentq' = SendAgent(agentq, p, Unpack(p, action))
      BY <2>3, GateFacts DEF touch_key, dispatch_msg
    <3> HIDE DEF p
    <3>2. Unpack(p, action) \in AgentMsg /\ Unpack(p, action).pid = p
      BY <3>1 DEF Unpack, AgentMsg
    <3> QED BY <3>1, <3>2, HomeSent
  <2>4. ASSUME NEW p \in Pids, NewConnection(p) PROVE HomeInv'
    BY <1>1, <2>4 DEF NewConnection
  <2> QED BY <1>2, <2>1, <2>2, <2>3, <2>4 DEF Gate
<1>3. ASSUME NEW a \in Agents, Agent(a) PROVE HomeInv'
  <2>1. agentq[a] # <<>> /\ agentq' = [agentq EXCEPT ![a] = Tail(@)]
    BY <1>3 DEF Agent, start, enterwar, kick, Analysis, Receives
  <2> QED BY <2>1, Taken DEF HomeInv
<1>4. CASE mgr_enter_player
  <2> DEFINE h == Head(mgrq)
             a == get_user_agent(h.pid)
             m == Entering(h.pid, h.fd)
  <2>1. PICK mailbox \in Answer(agentq[a], m) : agentq' = [agentq EXCEPT ![a] = mailbox]
    BY <1>4 DEF mgr_enter_player
  <2>2. h \in MgrMsg
    BY <1>4, TailFacts DEF mgr_enter_player, Receives, TypeOK
  <2> HIDE DEF h
  <2>3. h.pid \in Pids /\ h.fd \in Fds /\ a \in Agents
    BY <2>2, AgentOfPid DEF MgrMsg
  <2>4. m \in AgentMsg /\ get_user_agent(m.pid) = a
    BY <2>3 DEF Entering, AgentMsg
  <2> HIDE DEF a, m
  <2>5. /\ \A b \in Agents : b # a => agentq'[b] = agentq[b]
        /\ \A b \in Agents : Range(agentq'[b]) \subseteq Range(agentq[b]) \cup {m}
    BY <2>1, <2>3, <2>4, Answered
  <2>6. ASSUME NEW b \in Agents, NEW n \in Range(agentq'[b])
        PROVE  get_user_agent(n.pid) = b
    BY <2>4, <2>5, <2>6 DEF HomeInv
  <2> QED BY <2>6 DEF HomeInv
<1>5. CASE SceneService \/ FrameSkip \/ Broadcast \/ \E fd \in Fds : update_logic(fd)
  BY <1>1, <1>5 DEF SceneService, scene_enter_player, scene_leave_player,
     scene_sync_ctrl, outsideScene, FrameSkip, Broadcast, register_fd,
     unregister_fd, send_to_list, outsideBC, update_logic
<1> QED BY <1>2, <1>3, <1>4, <1>5 DEF Next

-----------------------------------------------------------------------------
(* The agents.                                                              *)

(* What an agent goes on with is what the stage says, and there is no more. *)
LEMMA DutyOnly ==
  ASSUME NEW S, NEW q \in Seq(S), q # <<>>, NEW T, Head(q) \in T
  PROVE  /\ ~Holds(q, T, <<>>)
         /\ \A d : Holds(q, T, <<d>>) => Head(q) = d /\ Holds(Tail(q), T, <<>>)
<1>1. ~Holds(q, T, <<>>)
  BY TailFacts, HoldsNone
<1>2. ASSUME NEW d, Holds(q, T, <<d>>)
      PROVE  Head(q) = d /\ Holds(Tail(q), T, <<>>)
  <2> DEFINE s == <<d>>
             R == {d}
  <2>1. s \in Seq(R) /\ Head(s) = d /\ Tail(s) = <<>> /\ Holds(q, T, s)
    BY <1>2
  <2> HIDE DEF s, R
  <2>2. Head(q) = Head(s) /\ Holds(Tail(q), T, Tail(s))
    BY <2>1, TailOwn
  <2> QED BY <2>1, <2>2
<1> QED BY <1>1, <1>2

LEMMA DutyIs ==
  ASSUME TypeOK, HomeInv, NEW pid \in Pids, Stage(pid), NEW a \in Agents,
         agentq[a] # <<>>, Head(agentq[a]) \in Duty(pid),
         agentq' = [agentq EXCEPT ![a] = Tail(@)]
  PROVE  /\ a = get_user_agent(pid)
         /\ Holds(agentq'[a], Duty(pid), <<>>)
         /\ \/ Kicked(pid) /\ Head(agentq[a]) = Msg("kick", pid)
            \/ \E fd \in Fds :
                 \/ Starting(pid, fd) /\ Head(agentq[a]) = Start(pid, fd)
                 \/ EnteringScene(pid, fd) /\ Head(agentq[a]) = Entering(pid, fd)
<1> DEFINE q == agentq[a]
<1>1. q \in Seq(AgentMsg) /\ q # <<>> /\ agentq'[a] = Tail(q) /\ Head(q) \in Duty(pid)
  BY DEF TypeOK
<1>2. a = get_user_agent(pid)
  <2>1. Head(q) \in Range(q) /\ Head(q).pid = pid
    BY <1>1, TailFacts DEF Duty
  <2> QED BY <2>1 DEF HomeInv
<1> HIDE DEF q
<1>3. /\ ~Holds(q, Duty(pid), <<>>)
      /\ \A d : Holds(q, Duty(pid), <<d>>)
                  => Head(q) = d /\ Holds(agentq'[a], Duty(pid), <<>>)
  <2> DEFINE T == Duty(pid)
  <2>1. Head(q) \in T
    BY <1>1
  <2> HIDE DEF T
  <2>2. ~Holds(q, T, <<>>) /\ \A d : Holds(q, T, <<d>>)
                                     => Head(q) = d /\ Holds(Tail(q), T, <<>>)
    BY <1>1, <2>1, DutyOnly
  <2> QED BY <1>1, <2>2 DEF T
<1>4. \A d, s : /\ ~ToDo(pid, <<>>, s)
                /\ ToDo(pid, <<d>>, s)
                     => Head(q) = d /\ Holds(agentq'[a], Duty(pid), <<>>)
  BY <1>2, <1>3 DEF ToDo, q
<1>5. CASE Kicked(pid)
  BY <1>2, <1>4, <1>5 DEF Kicked, q
<1>6. ASSUME NEW fd \in Fds, Starting(pid, fd)
      PROVE  Head(q) = Start(pid, fd) /\ Holds(agentq'[a], Duty(pid), <<>>)
  BY <1>4, <1>6 DEF Starting
<1>7. ASSUME NEW fd \in Fds, EnteringScene(pid, fd)
      PROVE  Head(q) = Entering(pid, fd) /\ Holds(agentq'[a], Duty(pid), <<>>)
  BY <1>4, <1>7 DEF EnteringScene
<1>8. /\ ~Away(pid)
      /\ \A fd \in Fds : ~LogsIn(pid, fd) /\ ~Calling(pid, fd) /\ ~Playing(pid, fd)
  BY <1>4 DEF Away, LogsIn, Calling, Playing, Idle
<1> QED BY <1>2, <1>5, <1>6, <1>7, <1>8 DEF Stage, q

(* A message that another pid is to go on with.                             *)
LEMMA DutyOfOne ==
  ASSUME NEW m, NEW pid, NEW p, m \in Duty(p), p # pid
  PROVE  m \notin Duty(pid)
BY DEF Duty

LEMMA StageStart ==
  ASSUME TypeOK, HomeInv, NEW pid \in Pids, Stage(pid), NEW a \in Agents, start(a)
  PROVE  Stage(pid)'
<1> DEFINE m == Head(agentq[a])
<1>1. /\ agentq[a] # <<>> /\ agentq' = [agentq EXCEPT ![a] = Tail(@)]
      /\ m.cmd = "start" /\ playerlist' = [playerlist EXCEPT ![m.pid] = m.fd]
      /\ m_SceneAgent' = m_SceneAgent \ {m.pid}
      /\ mgrq' = Append(mgrq, EnterPlayer(m.pid, m.fd))
      /\ UNCHANGED <<gateVars, sceneq, m_Players>>
  BY DEF start, Receives, login, gameVars
<1>2. m \in AgentMsg
  BY <1>1, Taken
<1>3. playerlist \in [Pids -> Fds \cup {nil}] /\ mgrq \in Seq(MgrMsg)
  BY DEF TypeOK
<1>4. GateKept(pid) /\ WayKept(pid)
  BY <1>1, GateUnchanged, WayUnchanged
<1>5. CASE m.pid # pid
  <2>1. m \notin Duty(pid)
    BY <1>5 DEF Duty
  <2>2. \A s : Holds(agentq[get_user_agent(pid)], Duty(pid), s)
                 => Holds(agentq'[get_user_agent(pid)], Duty(pid), s)
    BY <1>1, <2>1, DutyTaken
  <2> HIDE DEF m
  <2>3. m.pid \in Pids /\ m.fd \in Fds
    BY <1>1, <1>2, AgentHead
  <2> DEFINE e == EnterPlayer(m.pid, m.fd)
  <2>4. e \in MgrMsg /\ e \notin Asks(pid)
    BY <1>5, <2>3 DEF EnterPlayer, MgrMsg, Asks
  <2> HIDE DEF e
  <2>5. \A s : Holds(mgrq, Asks(pid), s) => Holds(Append(mgrq, e), Asks(pid), s)
    BY <1>3, <2>4, AppendOther
  <2>6. MailKept(pid)
    BY <1>1, <2>2, <2>5 DEF MailKept, ToDo, e
  <2>7. AgentKept(pid)
    BY <1>1, <1>3, <1>5 DEF AgentKept
  <2> QED BY <1>4, <2>6, <2>7, StageKept
<1>6. CASE m.pid = pid
  <2>1. m \in Duty(pid)
    BY <1>1, <1>2, <1>6 DEF Duty
  <2>2. PICK fd \in Fds :
          /\ Starting(pid, fd) /\ m = Start(pid, fd) /\ a = get_user_agent(pid)
          /\ Holds(agentq'[a], Duty(pid), <<>>)
    <3>1. m # Msg("kick", pid) /\ \A fd : m # Entering(pid, fd)
      BY <1>1 DEF Msg, Entering
    <3> QED BY <1>1, <2>1, <3>1, DutyIs
  <2> HIDE DEF m
  <2> DEFINE e == EnterPlayer(pid, fd)
  <2>3. e \in MgrMsg /\ e \in Asks(pid) /\ mgrq' = Append(mgrq, e)
    BY <1>1, <2>2 DEF EnterPlayer, MgrMsg, Asks, Start
  <2> HIDE DEF e
  <2>4. Holds(mgrq', Asks(pid), <<e>>)
    <3>1. <<>> \in Seq(MgrMsg) /\ Append(<<>>, e) = <<e>>
      OBVIOUS
    <3>2. Holds(mgrq, Asks(pid), <<>>)
      BY <2>2 DEF Starting, ToDo
    <3> QED BY <1>3, <2>3, <3>1, <3>2, AppendOwn
  <2>5. ToDo(pid, <<>>, <<e>>)'
    BY <2>2, <2>4 DEF ToDo
  <2>6. playerlist'[pid] = fd
    BY <1>1, <1>3, <2>2 DEF Start
  <2>7. LoggedIn(pid, fd)' /\ OutOfGame(pid)'
    BY <1>4, <2>2 DEF Starting, GateKept, WayKept
  <2> QED BY <2>5, <2>6, <2>7 DEF Stage, Calling, e
<1> QED BY <1>5, <1>6

LEMMA StageEnterwar ==
  ASSUME TypeOK, HomeInv, NEW pid \in Pids, Stage(pid), NEW a \in Agents, enterwar(a)
  PROVE  Stage(pid)'
<1> DEFINE m == Head(agentq[a])
<1>1. /\ agentq[a] # <<>> /\ agentq' = [agentq EXCEPT ![a] = Tail(@)]
      /\ m.cmd = "entering" /\ playerlist' = playerlist
      /\ m_SceneAgent' = IF playerlist[m.pid] = m.fd
                         THEN m_SceneAgent \cup {m.pid} ELSE m_SceneAgent
      /\ UNCHANGED <<gateVars, sceneq, m_Players, mgrq>>
  BY DEF enterwar, Receives, gameVars
<1>2. m \in AgentMsg
  BY <1>1, Taken
<1>3. GateKept(pid) /\ WayKept(pid)
  BY <1>1, GateUnchanged, WayUnchanged
<1>4. CASE m.pid # pid
  <2>1. m \notin Duty(pid)
    BY <1>4 DEF Duty
  <2>2. MailKept(pid)
    BY <1>1, <2>1, DutyTaken DEF MailKept, ToDo
  <2>3. AgentKept(pid)
    BY <1>1, <1>4 DEF AgentKept
  <2> QED BY <1>3, <2>2, <2>3, StageKept
<1>5. CASE m.pid = pid
  <2>1. m \in Duty(pid)
    BY <1>1, <1>2, <1>5 DEF Duty
  <2>2. PICK fd \in Fds :
          /\ EnteringScene(pid, fd) /\ m = Entering(pid, fd)
          /\ a = get_user_agent(pid) /\ Holds(agentq'[a], Duty(pid), <<>>)
    <3>1. m # Msg("kick", pid) /\ \A fd : m # Start(pid, fd)
      BY <1>1 DEF Msg, Start
    <3> QED BY <1>1, <2>1, <3>1, DutyIs
  <2>3. Holds(mgrq, Asks(pid), <<>>) /\ playerlist[pid] = fd
    BY <2>2 DEF EnteringScene, ToDo
  <2> HIDE DEF m
  <2>4. Idle(pid)'
    BY <1>1, <2>2, <2>3 DEF Idle, ToDo
  <2>5. playerlist'[pid] = fd /\ pid \in m_SceneAgent'
    BY <1>1, <2>2, <2>3 DEF Entering
  <2>6. LoggedIn(pid, fd)' /\ GoingIn(pid)'
    BY <1>3, <2>2 DEF EnteringScene, GateKept, WayKept
  <2> QED BY <2>4, <2>5, <2>6 DEF Stage, Playing
<1> QED BY <1>4, <1>5

(* A player who was on the way in or in the game is then on the way out.    *)
LEMMA GoesOut ==
  ASSUME TypeOK, NEW pid \in Pids, GoingIn(pid), m_Players' = m_Players,
         sceneq' = Append(sceneq, Leave(pid))
  PROVE  GoingOut(pid)'
<1> DEFINE l == Leave(pid)
           e == Enter(pid)
<1>1. sceneq \in Seq(SceneMsg) /\ l \in SceneMsg /\ e \in SceneMsg /\ l \in Moves(pid)
  BY DEF TypeOK, SceneMsg, Leave, Enter, Msg, Moves
<1> HIDE DEF l, e
<1>2. /\ <<>> \in Seq(SceneMsg) /\ Append(<<>>, l) = <<l>>
      /\ <<e>> \in Seq(SceneMsg) /\ Append(<<e>>, l) = <<e, l>>
  <2>1. <<>> \in Seq(SceneMsg) /\ <<e>> \in Seq(SceneMsg)
    BY <1>1
  <2>2. Append(<<>>, l) = <<l>>
    OBVIOUS
  <2>3. Append(<<e>>, l) = <<e, l>>
    <3> DEFINE s == Append(<<e>>, l)
               t == <<e, l>>
    <3>1. s \in Seq(SceneMsg) /\ Len(s) = 2 /\ s[1] = e /\ s[2] = l
      BY <1>1
    <3>2. t \in Seq(SceneMsg) /\ Len(t) = 2 /\ t[1] = e /\ t[2] = l
      BY <1>1
    <3> HIDE DEF s, t
    <3>3. \A i \in 1 .. 2 : s[i] = t[i]
      BY <3>1, <3>2
    <3>4. s = t
      BY <3>1, <3>2, <3>3, SeqEqual
    <3> QED BY <3>4 DEF s, t
  <2> QED BY <2>1, <2>2, <2>3
<1>3. CASE pid \in m_Players
  <2>1. Holds(sceneq, Moves(pid), <<>>)
    BY <1>3 DEF GoingIn, Moving
  <2>2. Holds(sceneq', Moves(pid), <<l>>)
    BY <1>1, <1>2, <2>1, AppendOwn DEF l
  <2> QED BY <1>3, <2>2 DEF GoingOut, Moving, l
<1>4. CASE pid \notin m_Players
  <2>1. Holds(sceneq, Moves(pid), <<e>>)
    BY <1>4 DEF GoingIn, Moving, e
  <2>2. Holds(sceneq', Moves(pid), Append(<<e>>, l))
    BY <1>1, <1>2, <2>1, AppendOwn DEF l
  <2>3. Holds(sceneq', Moves(pid), <<e, l>>)
    BY <1>2, <2>2
  <2> QED BY <1>4, <2>3 DEF GoingOut, Moving, l, e
<1> QED BY <1>3, <1>4

(* The scene is sent something that does not move pid.                      *)
LEMMA WaySent ==
  ASSUME TypeOK, NEW pid \in Pids, NEW m \in SceneMsg, m \notin Moves(pid),
         m_Players' = m_Players, sceneq' = Append(sceneq, m)
  PROVE  WayKept(pid)
<1>1. sceneq \in Seq(SceneMsg)
  BY DEF TypeOK
<1>2. \A s : Moving(pid, s) => Moving(pid, s)'
  BY <1>1, AppendOther DEF Moving
<1> QED BY <1>2 DEF WayKept, OutOfGame, GoingIn, GoingOut

LEMMA StageKick ==
  ASSUME TypeOK, HomeInv, NEW pid \in Pids, \A p \in Pids : Stage(p),
         NEW a \in Agents, kick(a)
  PROVE  Stage(pid)'
<1> DEFINE m == Head(agentq[a])
<1>1. /\ agentq[a] # <<>> /\ agentq' = [agentq EXCEPT ![a] = Tail(@)]
      /\ m.cmd = "kick" /\ UNCHANGED <<gateVars, m_Players, mgrq>>
  BY DEF kick, Receives, gameVars
<1>2. m \in AgentMsg /\ m.pid \in Pids
  BY <1>1, Taken, AgentHead
<1>3. m \in Duty(m.pid)
  BY <1>1, <1>2 DEF Duty
<1>4. /\ Kicked(m.pid) /\ a = get_user_agent(m.pid)
      /\ Holds(agentq'[a], Duty(m.pid), <<>>)
  <2>1. \A fd : m # Start(m.pid, fd) /\ m # Entering(m.pid, fd)
    BY <1>1 DEF Start, Entering
  <2> QED BY <1>1, <1>2, <1>3, <2>1, DutyIs
<1>5. /\ playerlist' = [playerlist EXCEPT ![m.pid] = nil]
      /\ m_SceneAgent' = m_SceneAgent \ {m.pid}
      /\ sceneq' = Append(sceneq, Leave(m.pid))
  BY <1>4 DEF kick, leavewar, quit, Kicked, Leave
<1>6. playerlist \in [Pids -> Fds \cup {nil}]
  BY DEF TypeOK
<1>7. GateKept(pid)
  BY <1>1, GateUnchanged
<1> HIDE DEF m
<1>8. CASE m.pid # pid
  <2>1. m \notin Duty(pid)
    BY <1>8 DEF Duty
  <2>2. MailKept(pid)
    BY <1>1, <2>1, DutyTaken DEF MailKept, ToDo, m
  <2>3. AgentKept(pid)
    BY <1>5, <1>6, <1>8 DEF AgentKept
  <2>4. Leave(m.pid) \in SceneMsg /\ Leave(m.pid) \notin Moves(pid)
    BY <1>2, <1>8 DEF Leave, Msg, SceneMsg, Moves
  <2>5. WayKept(pid)
    BY <1>1, <1>5, <2>4, WaySent
  <2> QED BY <1>7, <2>2, <2>3, <2>5, StageKept
<1>9. CASE m.pid = pid
  <2>1. Unconnected(pid)'
    BY <1>4, <1>7, <1>9 DEF Kicked, GateKept
  <2>2. GoingOut(pid)'
    BY <1>1, <1>4, <1>5, <1>9, GoesOut DEF Kicked
  <2>3. Idle(pid)'
    BY <1>1, <1>4, <1>9 DEF Kicked, Idle, ToDo
  <2>4. Absent(pid)'
    BY <1>5, <1>6, <1>9 DEF Absent
  <2> QED BY <2>1, <2>2, <2>3, <2>4 DEF Stage, Away
<1> QED BY <1>8, <1>9

LEMMA StageAnalysis ==
  ASSUME TypeOK, NEW pid \in Pids, Stage(pid), NEW a \in Agents, Analysis(a)
  PROVE  Stage(pid)'
<1> DEFINE m == Head(agentq[a])
           c == [cmd |-> "sync_ctrl", pid |-> m.pid, action |-> m.action]
<1>1. /\ agentq[a] # <<>> /\ agentq' = [agentq EXCEPT ![a] = Tail(@)]
      /\ m.cmd = "Unpack" /\ UNCHANGED <<gateVars, agentVars, m_Players, mgrq>>
      /\ sceneq' = sceneq \/ sceneq' = Append(sceneq, c)
  BY DEF Analysis, Player_sync_ctrl, Receives, gameVars
<1>2. m \in AgentMsg /\ m \notin Duty(pid)
  BY <1>1, Taken DEF Duty
<1>3. MailKept(pid)
  BY <1>1, <1>2, DutyTaken DEF MailKept, ToDo
<1> HIDE DEF m
<1>4. c \in SceneMsg /\ c \notin Moves(pid)
  BY <1>1, <1>2, AgentHead DEF SceneMsg, Moves
<1> HIDE DEF c
<1>5. WayKept(pid)
  BY <1>1, <1>4, WaySent, WayUnchanged
<1> QED BY <1>1, <1>3, <1>5, StageKept, GateUnchanged, AgentUnchanged

LEMMA StageAgent ==
  ASSUME TypeOK, HomeInv, \A p \in Pids : Stage(p), NEW pid \in Pids,
         NEW a \in Agents, Agent(a)
  PROVE  Stage(pid)'
BY StageStart, StageEnterwar, StageKick, StageAnalysis DEF Agent

-----------------------------------------------------------------------------
(* SCENE_MGR.                                                               *)
LEMMA StageMgr ==
  ASSUME TypeOK, NEW pid \in Pids, \A p \in Pids : Stage(p), mgr_enter_player
  PROVE  Stage(pid)'
<1> DEFINE h == Head(mgrq)
           a == get_user_agent(h.pid)
           m == Entering(h.pid, h.fd)
<1>1. /\ mgrq # <<>> /\ mgrq \in Seq(MgrMsg) /\ mgrq' = Tail(mgrq)
      /\ sceneq' = Append(sceneq, Enter(h.pid))
      /\ UNCHANGED <<gateVars, agentVars, m_Players>>
  BY DEF mgr_enter_player, Receives, gameVars, TypeOK, Enter
<1>2. h \in MgrMsg
  BY <1>1, TailFacts
<1>3. PICK mailbox \in Answer(agentq[a], m) : agentq' = [agentq EXCEPT ![a] = mailbox]
  BY DEF mgr_enter_player
<1>4. h.pid \in Pids /\ h.fd \in Fds /\ h \in Asks(h.pid)
  BY <1>2 DEF MgrMsg, Asks
<1>5. a \in Agents /\ agentq[a] \in Seq(AgentMsg)
  BY <1>4, AgentOfPid DEF TypeOK
<1>6. m \in AgentMsg /\ m.pid = h.pid /\ m \in Duty(h.pid)
  BY <1>4 DEF Entering, AgentMsg, Duty
<1> HIDE DEF h, m
<1>7. /\ \A b \in Agents : b # a => agentq'[b] = agentq[b]
      /\ \E k \in 1 .. Len(agentq[a]) + 1 : agentq'[a] = InsertAt(agentq[a], k, m)
  BY <1>3, <1>5, <1>6, Answered
<1>8. GateKept(pid) /\ AgentKept(pid)
  BY <1>1, GateUnchanged, AgentUnchanged
<1>9. CASE pid # h.pid
  <2> DEFINE u == get_user_agent(pid)
  <2>1. u \in Agents
    BY AgentOfPid
  <2>2. m \notin Duty(pid) /\ h \notin Asks(pid)
    BY <1>6, <1>9 DEF Duty, Asks
  <2>3. \A s : Holds(agentq[a], Duty(pid), s) => Holds(agentq'[a], Duty(pid), s)
    BY <1>5, <1>6, <1>7, <2>2, InsertOther
  <2> HIDE DEF a
  <2>4. \A s : Holds(agentq[u], Duty(pid), s) => Holds(agentq'[u], Duty(pid), s)
    BY <1>7, <2>1, <2>3
  <2>5. \A s : Holds(mgrq, Asks(pid), s) => Holds(mgrq', Asks(pid), s)
    BY <1>1, <2>2, TailOther DEF h
  <2>6. MailKept(pid)
    BY <2>4, <2>5 DEF MailKept, ToDo
  <2>7. Enter(h.pid) \in SceneMsg /\ Enter(h.pid) \notin Moves(pid)
    BY <1>4, <1>9 DEF Enter, Msg, SceneMsg, Moves
  <2>8. WayKept(pid)
    BY <1>1, <2>7, WaySent
  <2> QED BY <1>8, <2>6, <2>8, StageKept
<1>10. CASE pid = h.pid
  <2>1. /\ ~Holds(mgrq, Asks(pid), <<>>)
        /\ \A d : Holds(mgrq, Asks(pid), <<d>>)
                    => h = d /\ Holds(mgrq', Asks(pid), <<>>)
    BY <1>1, <1>4, <1>10, DutyOnly DEF h
  <2>2. PICK fd \in Fds : Calling(pid, fd)
    <3>1. \A s : ~ToDo(pid, s, <<>>)
      BY <2>1 DEF ToDo
    <3>2. /\ ~Away(pid) /\ ~Kicked(pid)
          /\ \A fd \in Fds : /\ ~LogsIn(pid, fd) /\ ~Starting(pid, fd)
                             /\ ~EnteringScene(pid, fd) /\ ~Playing(pid, fd)
      BY <3>1 DEF Away, Kicked, LogsIn, Starting, EnteringScene, Playing, Idle
    <3> QED BY <3>2 DEF Stage
  <2>3. h = EnterPlayer(pid, fd) /\ Holds(mgrq', Asks(pid), <<>>)
    BY <2>1, <2>2 DEF Calling, ToDo
  <2>4. m = Entering(pid, fd)
    BY <1>10, <2>3 DEF m, EnterPlayer
  <2>5. Holds(agentq[a], Duty(pid), <<>>)
    BY <1>10, <2>2 DEF Calling, ToDo
  <2>6. Holds(agentq'[a], Duty(pid), <<m>>)
    BY <1>5, <1>6, <1>7, <1>10, <2>5, InsertFirst
  <2>7. ToDo(pid, <<Entering(pid, fd)>>, <<>>)'
    BY <1>10, <2>3, <2>4, <2>6 DEF ToDo
  <2>8. GoingIn(pid)'
    <3> DEFINE e == Enter(pid)
    <3>1. /\ e \in SceneMsg /\ e \in Moves(pid) /\ sceneq \in Seq(SceneMsg)
          /\ sceneq' = Append(sceneq, e)
      BY <1>1, <1>10 DEF SceneMsg, Enter, Msg, Moves, TypeOK
    <3> HIDE DEF e
    <3>2. <<>> \in Seq(SceneMsg) /\ Append(<<>>, e) = <<e>>
      OBVIOUS
    <3>3. pid \notin m_Players /\ Holds(sceneq, Moves(pid), <<>>)
      BY <2>2 DEF Calling, OutOfGame, Moving
    <3>4. Holds(sceneq', Moves(pid), <<e>>)
      BY <3>1, <3>2, <3>3, AppendOwn
    <3> QED BY <1>1, <3>3, <3>4 DEF GoingIn, Moving, e
  <2>9. LoggedIn(pid, fd)' /\ playerlist'[pid] = fd
    BY <1>8, <2>2 DEF Calling, GateKept, AgentKept
  <2> QED BY <2>7, <2>8, <2>9 DEF Stage, EnteringScene
<1> QED BY <1>9, <1>10

-----------------------------------------------------------------------------
(* The game: whoever was on the way in or out goes on that way.             *)
LEMMA WayTaken ==
  ASSUME TypeOK, NEW pid \in Pids, SceneService
  PROVE  WayKept(pid)
<1> DEFINE m == Head(sceneq)
           T == Moves(pid)
<1>1. sceneq # <<>> /\ sceneq \in Seq(SceneMsg) /\ sceneq' = Tail(sceneq)
  BY DEF SceneService, scene_enter_player, scene_leave_player, scene_sync_ctrl,
         Receives, TypeOK
<1>2. m \in SceneMsg
  BY <1>1, TailFacts
<1>3. \/ m.cmd = "enter_player" /\ m_Players' = m_Players \cup {m.pid}
      \/ m.cmd = "leave_player" /\ m_Players' = m_Players \ {m.pid}
      \/ m.cmd = "sync_ctrl" /\ m_Players' = m_Players
  <2>1. CASE scene_enter_player
    BY <2>1 DEF scene_enter_player, add_player, Receives
  <2>2. CASE scene_leave_player
    <3>1. m.cmd = "leave_player" /\ del_player(m.pid)
      BY <2>2 DEF scene_leave_player, Receives
    <3> HIDE DEF m
    <3> QED BY <3>1 DEF del_player
  <2>3. CASE scene_sync_ctrl
    BY <2>3 DEF scene_sync_ctrl, sync_ctrl, Receives
  <2> QED BY <2>1, <2>2, <2>3 DEF SceneService
<1> HIDE DEF m, T
<1>4. CASE m \notin T
  <2>1. \A s : Moving(pid, s) => Moving(pid, s)'
    BY <1>1, <1>4, TailOther DEF Moving, m, T
  <2>2. pid \in m_Players' <=> pid \in m_Players
    BY <1>2, <1>3, <1>4 DEF T, Moves
  <2> QED BY <2>1, <2>2 DEF WayKept, OutOfGame, GoingIn, GoingOut
<1>5. CASE m \in T
  <2>1. m.pid = pid
    BY <1>5 DEF T, Moves
  <2>2. ~Holds(sceneq, T, <<>>)
    BY <1>1, <1>5, DutyOnly DEF m
  <2>3. \A d : Holds(sceneq, T, <<d>>) => m = d /\ Holds(sceneq', T, <<>>)
    BY <1>1, <1>5, DutyOnly DEF m
  <2>4. ASSUME NEW e \in SceneMsg, NEW l \in SceneMsg, Holds(sceneq, T, <<e, l>>)
        PROVE  m = e /\ Holds(sceneq', T, <<l>>)
    <3> DEFINE s == <<e, l>>
    <3>1. s \in Seq(SceneMsg) /\ Head(s) = e /\ Holds(sceneq, T, s)
      BY <2>4
    <3>2. Tail(s) = <<l>>
      OBVIOUS
    <3> HIDE DEF s
    <3>3. m = Head(s) /\ Holds(sceneq', T, Tail(s))
      BY <1>1, <1>5, <3>1, TailOwn DEF m
    <3> QED BY <3>1, <3>2, <3>3
  <2>5. /\ Enter(pid) \in SceneMsg /\ Leave(pid) \in SceneMsg
        /\ Enter(pid).cmd = "enter_player" /\ Leave(pid).cmd = "leave_player"
    BY DEF Enter, Leave, Msg, SceneMsg
  <2>6. ~OutOfGame(pid)
    BY <2>2 DEF OutOfGame, Moving, T
  <2>7. ASSUME GoingIn(pid) PROVE GoingIn(pid)'
    <3>1. pid \notin m_Players /\ Holds(sceneq, T, <<Enter(pid)>>)
      BY <2>2, <2>7 DEF GoingIn, Moving, T
    <3>2. m.cmd = "enter_player" /\ Holds(sceneq', T, <<>>)
      BY <2>3, <2>5, <3>1
    <3>3. pid \in m_Players'
      BY <1>3, <2>1, <3>2
    <3> QED BY <3>2, <3>3 DEF GoingIn, Moving, T
  <2>8. ASSUME GoingOut(pid) PROVE GoingOut(pid)'
    <3>1. CASE pid \in m_Players
      <4>1. Holds(sceneq, T, <<Leave(pid)>>)
        BY <2>8, <3>1 DEF GoingOut, Moving, T
      <4>2. m.cmd = "leave_player" /\ Holds(sceneq', T, <<>>)
        BY <2>3, <2>5, <4>1
      <4>3. pid \notin m_Players'
        BY <1>3, <2>1, <4>2
      <4> QED BY <4>2, <4>3 DEF GoingOut, Moving, T
    <3>2. CASE pid \notin m_Players
      <4>1. Holds(sceneq, T, <<Enter(pid), Leave(pid)>>)
        BY <2>2, <2>8, <3>2 DEF GoingOut, Moving, T
      <4>2. m.cmd = "enter_player" /\ Holds(sceneq', T, <<Leave(pid)>>)
        BY <2>4, <2>5, <4>1
      <4>3. pid \in m_Players'
        BY <1>3, <2>1, <4>2
      <4> QED BY <4>2, <4>3 DEF GoingOut, Moving, T
    <3> QED BY <3>1, <3>2
  <2> QED BY <2>6, <2>7, <2>8 DEF WayKept
<1> QED BY <1>4, <1>5

-----------------------------------------------------------------------------
LEMMA ServedStep ==
  ASSUME TypeOK, ServedInv, Allowed = {}, [Next]_vars
  PROVE  ServedInv'
<1>1. GateInv /\ HomeInv /\ \A p \in Pids : Stage(p)
  BY DEF ServedInv
<1>2. CASE UNCHANGED vars
  <2>1. UNCHANGED <<gateVars, agentVars, agentq, mgrq, sceneq, m_Players>>
    BY <1>2 DEF vars, gameVars
  <2>2. GateInv' /\ HomeInv'
    BY <1>1, <2>1, GateInvUnchanged DEF HomeInv
  <2>3. ASSUME NEW pid \in Pids PROVE Stage(pid)'
    BY <1>1, <2>1, StageKept, GateUnchanged, AgentUnchanged, MailUnchanged, WayUnchanged
  <2> QED BY <2>2, <2>3 DEF ServedInv
<1>3. CASE Next
  <2>1. HomeInv'
    BY <1>1, <1>3, HomeStep
  <2>2. GateInv'
    <3>1. ASSUME NEW a \in Agents, Agent(a) PROVE UNCHANGED gateVars
      BY <3>1 DEF Agent, start, enterwar, kick, Analysis, gateVars
    <3>2. ASSUME mgr_enter_player \/ SceneService \/ FrameSkip
          PROVE  UNCHANGED gateVars
      BY <3>2 DEF mgr_enter_player, SceneService, scene_enter_player,
         scene_leave_player, scene_sync_ctrl, FrameSkip, outsideScene, gateVars
    <3>3. ASSUME Broadcast \/ \E fd \in Fds : update_logic(fd)
          PROVE  UNCHANGED gateVars
      BY <3>3 DEF Broadcast, register_fd, unregister_fd, send_to_list, outsideBC,
         update_logic, gateVars
    <3>4. Gate \/ UNCHANGED gateVars
      BY <1>3, <3>1, <3>2, <3>3 DEF Next
    <3> QED BY <1>1, <3>4, GateInvStep, GateInvUnchanged
  <2>3. ASSUME NEW pid \in Pids PROVE Stage(pid)'
    <3>1. CASE SceneService
      <4>1. UNCHANGED <<gateVars, agentVars, agentq, mgrq>>
        BY <3>1 DEF SceneService, scene_enter_player, scene_leave_player,
           scene_sync_ctrl, outsideScene
      <4> QED BY <1>1, <3>1, <4>1, WayTaken, StageKept, GateUnchanged,
                 AgentUnchanged, MailUnchanged
    <3>2. CASE FrameSkip \/ Broadcast \/ \E fd \in Fds : update_logic(fd)
      <4>1. UNCHANGED <<gateVars, agentVars, agentq, mgrq, sceneq, m_Players>>
        BY <3>2 DEF FrameSkip, frame_skip, outsideScene, Broadcast, register_fd,
           unregister_fd, send_to_list, outsideBC, update_logic, gameVars
      <4> QED BY <1>1, <4>1, StageKept, GateUnchanged, AgentUnchanged,
                 MailUnchanged, WayUnchanged
    <3> QED BY <1>1, <1>3, <3>1, <3>2, StageGate, StageAgent, StageMgr DEF Next
  <2> QED BY <2>1, <2>2, <2>3 DEF ServedInv
<1> QED BY <1>2, <1>3

LEMMA ServedStart == Init => ServedInv
<1> SUFFICES ASSUME Init PROVE ServedInv
  OBVIOUS
<1>1. PICK p \in Pids :
        /\ m_Pid = [fd \in Fds |-> IF fd = 1 THEN p ELSE nil]
        /\ playerlist = [x \in Pids |-> IF x = p THEN 1 ELSE nil]
        /\ mgrq = <<EnterPlayer(p, 1)>>
  BY DEF Init
<1>2. /\ conlist = {1} /\ logins = {} /\ m_SceneAgent = {} /\ m_Players = {}
      /\ agentq = [a \in Agents |-> <<>>] /\ sceneq = <<>>
  BY DEF Init, GameInit
<1>3. 1 \in Fds /\ nil \notin Pids
  <2>1. nil \notin Pids
    BY SceneAssumption, FrameSyncAssumption
  <2>2. 1 \in Fds
    BY FrameSyncAssumption DEF Fds
  <2> QED BY <2>1, <2>2
<1>4. ASSUME NEW a \in Agents PROVE agentq[a] = <<>> /\ Range(agentq[a]) = {}
  BY <1>2 DEF Range
<1>5. GateInv /\ HomeInv
  BY <1>1, <1>2, <1>4 DEF GateInv, HomeInv
<1>6. ASSUME NEW pid \in Pids PROVE Stage(pid)
  <2>1. /\ Holds(agentq[get_user_agent(pid)], Duty(pid), <<>>)
        /\ Holds(sceneq, Moves(pid), <<>>)
    BY <1>2, <1>4, AgentOfPid, HoldsNone
  <2>2. OutOfGame(pid)
    BY <1>2, <2>1 DEF OutOfGame, Moving
  <2> DEFINE e == EnterPlayer(p, 1)
  <2>3. e \in MgrMsg /\ e.pid = p
    BY <1>3 DEF EnterPlayer, MgrMsg
  <2>4. mgrq = <<e>> /\ DOMAIN <<e>> = {1} /\ <<e>>[1] = e
    BY <1>1
  <2> HIDE DEF e
  <2>5. CASE pid = p
    <3>1. Holds(mgrq, Asks(pid), <<e>>)
      BY <2>3, <2>4, <2>5, HoldsOne DEF Asks
    <3>2. Connected(pid) = {1} /\ m_Pid[1] = pid /\ playerlist[pid] = 1
      BY <1>1, <1>2, <1>3, <2>5 DEF Connected
    <3>3. Calling(pid, 1)
      BY <2>1, <2>2, <2>5, <3>1, <3>2 DEF Calling, LoggedIn, ToDo, e
    <3> QED BY <1>3, <3>3 DEF Stage
  <2>6. CASE pid # p
    <3>1. Holds(mgrq, Asks(pid), <<>>)
      BY <2>3, <2>4, <2>6, HoldsNone DEF Asks
    <3>2. Connected(pid) = {} /\ playerlist[pid] = nil
      BY <1>1, <1>2, <1>3, <2>6 DEF Connected
    <3>3. Away(pid)
      BY <1>2, <2>1, <2>2, <3>1, <3>2
         DEF Away, Unconnected, Idle, ToDo, Absent, GoingOut, OutOfGame
    <3> QED BY <3>3 DEF Stage
  <2> QED BY <2>5, <2>6
<1> QED BY <1>5, <1>6 DEF ServedInv

-----------------------------------------------------------------------------
(* Nothing is on its way into the scene or out of it for a settled pid.     *)
LEMMA SettledScene ==
  ASSUME TypeOK, NEW pid \in Pids, IsSettled(pid)
  PROVE  /\ GoingIn(pid) => pid \in m_Players
         /\ GoingOut(pid) => pid \notin m_Players
<1>1. DOMAIN sceneq = 1 .. Len(sceneq)
  BY DEF TypeOK
<1>2. ~Mentions(sceneq, {"enter_player", "leave_player"}, pid)
  BY DEF IsSettled
<1>3. \A m : m.cmd \in {"enter_player", "leave_player"} /\ m.pid = pid
               => ~Moving(pid, <<m>>)
  <2> SUFFICES ASSUME NEW m, m.cmd \in {"enter_player", "leave_player"}, m.pid = pid,
                      Holds(sceneq, Moves(pid), <<m>>)
               PROVE  FALSE
    BY DEF Moving
  <2> DEFINE s == <<m>>
  <2>1. 1 \in DOMAIN s /\ s[1] = m
    OBVIOUS
  <2> HIDE DEF s
  <2> QED BY <1>1, <1>2, <2>1, MentionsOf DEF s
<1>4. GoingIn(pid) => pid \in m_Players
  BY <1>3 DEF GoingIn, Enter, Msg
<1>5. GoingOut(pid) => pid \notin m_Players
  BY <1>3 DEF GoingOut, Leave, Msg
<1> QED BY <1>4, <1>5

(* A settled pid is away or plays.                                          *)
LEMMA SettledStage ==
  ASSUME TypeOK, NEW pid \in Pids, Stage(pid), IsSettled(pid)
  PROVE  \/ Away(pid)
         \/ \E fd \in Fds : LogsIn(pid, fd) \/ Playing(pid, fd)
<1> DEFINE u == get_user_agent(pid)
<1>1. /\ DOMAIN agentq[u] = 1 .. Len(agentq[u]) /\ DOMAIN mgrq = 1 .. Len(mgrq)
  BY AgentOfPid DEF TypeOK
<1>2. /\ ~Mentions(agentq[u], {"start", "entering"}, pid)
      /\ ~Mentions(agentq[u], {"kick"}, pid)
      /\ ~Mentions(mgrq, {"enter_player"}, pid)
  BY DEF IsSettled, IsEntering
<1>3. ASSUME NEW d, d.cmd \in {"start", "entering"} \/ d.cmd \in {"kick"}, d.pid = pid
      PROVE  ~ToDo(pid, <<d>>, <<>>)
  <2> DEFINE s == <<d>>
  <2>1. 1 \in DOMAIN s /\ s[1] = d
    OBVIOUS
  <2> HIDE DEF s, u
  <2>2. ~Holds(agentq[u], Duty(pid), s)
    BY <1>1, <1>2, <1>3, <2>1, MentionsOf
  <2> QED BY <2>2 DEF ToDo, s, u
<1>4. ASSUME NEW d, d.cmd \in {"enter_player"}, d.pid = pid
      PROVE  ~ToDo(pid, <<>>, <<d>>)
  <2> DEFINE s == <<d>>
  <2>1. 1 \in DOMAIN s /\ s[1] = d
    OBVIOUS
  <2> HIDE DEF s, u
  <2>2. ~Holds(mgrq, Asks(pid), s)
    BY <1>1, <1>2, <1>4, <2>1, MentionsOf
  <2> QED BY <2>2 DEF ToDo, s
<1>5. ~Kicked(pid)
  BY <1>3 DEF Kicked, Msg
<1>6. ASSUME NEW fd \in Fds
      PROVE  ~Starting(pid, fd) /\ ~Calling(pid, fd) /\ ~EnteringScene(pid, fd)
  BY <1>3, <1>4 DEF Starting, Calling, EnteringScene, Start, EnterPlayer, Entering
<1> QED BY <1>5, <1>6 DEF Stage

LEMMA ServedImplies ==
  ASSUME TypeOK, ServedInv, RoutingConverges
  PROVE  LiveConnectionServed /\ NoGhostPlayer
<1>1. ASSUME NEW fd \in conlist, m_Pid[fd] # nil, IsSettled(m_Pid[fd]),
             LastRouting(m_Pid[fd]) = {}
      PROVE  /\ playerlist[m_Pid[fd]] = fd /\ fd_map[m_Pid[fd]] = fd
             /\ m_Pid[fd] \in m_SceneAgent /\ m_Pid[fd] \in m_Players
  <2>1. PICK pid \in Pids : pid = m_Pid[fd]
    BY <1>1, GateFacts
  <2>2. fd \in Fds /\ fd \in Connected(pid) /\ nil \notin Pids
    BY <2>1, GateFacts DEF Connected
  <2>3. Playing(pid, fd)
    <3>1. ~Away(pid)
      BY <2>2 DEF Away, Unconnected
    <3>2. \A g \in Fds : ~LogsIn(pid, g) /\ (Playing(pid, g) => g = fd)
      BY <2>1, <2>2 DEF LogsIn, LoggingIn, Playing, LoggedIn
    <3> QED BY <1>1, <2>1, <3>1, <3>2, SettledStage DEF ServedInv
  <2>4. playerlist[pid] = fd /\ pid \in m_SceneAgent /\ pid \in m_Players
    BY <1>1, <2>1, <2>3, SettledScene DEF Playing
  <2>5. fd_map[pid] = playerlist[pid]
    BY <1>1, <2>1 DEF RoutingConverges
  <2> QED BY <2>1, <2>4, <2>5
<1>2. ASSUME NEW pid \in Pids, Connected(pid) = {}, IsSettled(pid), LastRouting(pid) = {}
      PROVE  playerlist[pid] = nil /\ fd_map[pid] = nil /\ pid \notin m_Players
  <2>1. Away(pid)
    <3>1. \A g \in Fds : ~LogsIn(pid, g) /\ ~Playing(pid, g)
      BY <1>2 DEF LogsIn, LoggingIn, Playing, LoggedIn
    <3> QED BY <1>2, <3>1, SettledStage DEF ServedInv
  <2>2. playerlist[pid] = nil /\ pid \notin m_Players
    BY <1>2, <2>1, SettledScene DEF Away, Absent
  <2>3. fd_map[pid] = playerlist[pid]
    BY <1>2 DEF RoutingConverges
  <2> QED BY <2>2, <2>3
<1>3. LiveConnectionServed
  BY <1>1 DEF LiveConnectionServed
<1>4. NoGhostPlayer
  BY <1>2 DEF NoGhostPlayer
<1> QED BY <1>3, <1>4

THEOREM ServedInvariance ==
  ASSUME Allowed = {}
  PROVE  Spec => []ServedInv
<1>1. IInv /\ ServedInv /\ [Next]_vars => ServedInv'
  BY ServedStep DEF IInv
<1> QED BY <1>1, ServedStart, Invariance, PTL DEF Spec

(* When clients log in one at a time and leave after they have entered, a   *)
(* connection that is logged in is served once its messages are worked off: *)
(* command.start has made it the player's, the broadcast service has its    *)
(* route, the agent knows the scene and add_player has put it into the      *)
(* game, for any number of players and whatever logins cross.               *)
THEOREM LiveAreServed ==
  ASSUME Allowed = {}
  PROVE  Spec => []LiveConnectionServed
<1>1. IInv /\ ServedInv /\ RoutingConverges => LiveConnectionServed
  BY ServedImplies DEF IInv
<1> QED BY <1>1, ServedInvariance, Invariance, RoutesFollowPlayers, PTL

(* And of a pid without a connection nothing is left then: command.kick has *)
(* taken its player object away, unregister_fd its route, and del_player    *)
(* the player that add_player had put into the game.                        *)
THEOREM GhostsGo ==
  ASSUME Allowed = {}
  PROVE  Spec => []NoGhostPlayer
<1>1. IInv /\ ServedInv /\ RoutingConverges => NoGhostPlayer
  BY ServedImplies DEF IInv
<1> QED BY <1>1, ServedInvariance, Invariance, RoutesFollowPlayers, PTL

-----------------------------------------------------------------------------
(* How far a client has been brought: 0 when nothing of its login has been  *)
(* sent to it, x + 1 when gs2c_loginsuc and the first x frames have.  t is  *)
(* the length of the log at its add_player, log the log now.                *)

(* Package d brings it from x to y.                                         *)
Delivers(d, x, y, t, log) ==
  \/ d.proto = "gs2c_loginsuc" /\ d.frame_cache_num = t /\ x = 0 /\ y = 1
  \/ /\ d.proto = "gs2c_frame_cache_data"
     /\ 1 <= x /\ x < y /\ y <= t + 1
     /\ Len(d.frame_cache) = y - x
     /\ \A i \in 1 .. y - x : d.frame_cache[i] = log[x - 1 + i]
  \/ /\ d.proto = "gs2c_frame_data"
     /\ t < x /\ y = x + 1
     /\ x <= Len(log) /\ d.frame_data = log[x]

(* What the client knows then: it opens its FSM with the last frame of the  *)
(* cache.                                                                   *)
ClientAt(c, x, t, log) ==
  IF x = 0 THEN c = NewClient
  ELSE /\ x <= Len(log) + 1
       /\ Len(Received(c)) = x - 1
       /\ \A i \in 1 .. x - 1 : Received(c)[i] = log[i]
       /\ IF x <= t THEN c.m_FsmInitData = t /\ c.seededAt = nil /\ c.executed = <<>>
                    ELSE c.m_FsmInitData = nil /\ c.seededAt = 0

LEMMA ConcatAppend ==
  ASSUME NEW S, NEW q \in Seq(S), NEW r \in Seq(S), NEW m \in S
  PROVE  q \o Append(r, m) = Append(q \o r, m)
<1> DEFINE a == q \o Append(r, m)
           b == Append(q \o r, m)
<1>1. /\ a \in Seq(S) /\ b \in Seq(S)
      /\ Len(a) = Len(q) + Len(r) + 1 /\ Len(b) = Len(a)
  OBVIOUS
<1>2. ASSUME NEW i \in 1 .. Len(a) PROVE a[i] = b[i]
  <2>1. CASE i \in 1 .. Len(q)
    BY <2>1
  <2>2. CASE i \in Len(q) + 1 .. Len(q) + Len(r)
    BY <2>2
  <2>3. CASE i = Len(q) + Len(r) + 1
    BY <2>3
  <2> QED BY <1>1, <2>1, <2>2, <2>3
<1> HIDE DEF a, b
<1>3. a = b
  BY <1>1, <1>2, SeqEqual
<1> QED BY <1>3 DEF a, b

LEMMA ClientFacts ==
  ASSUME NEW c \in Client
  PROVE  /\ c.executed \in Seq(FrameInfo) /\ c.m_FrameQueue \in Seq(FrameInfo)
         /\ Received(c) \in Seq(FrameInfo)
         /\ c = [m_FsmInitData |-> c.m_FsmInitData, m_FrameQueue |-> c.m_FrameQueue,
                 executed |-> c.executed, seededAt |-> c.seededAt]
BY DEF Client, Received

LEMMA LoginDelivered ==
  ASSUME NEW d, NEW t \in Nat, NEW log \in Seq(FrameInfo),
         d.proto = "gs2c_loginsuc", d.frame_cache_num = t
  PROVE  ClientAt(_dispatch_request(NewClient, d), 1, t, log)
<1> DEFINE c == _dispatch_request(NewClient, d)
<1>1. nil \notin Nat /\ Len(log) \in Nat
  BY FrameSyncAssumption
<1>2. c = init_fsm(NewClient, t)
  BY DEF _dispatch_request
<1>3. c = gs2c_frame_cache_data([NewClient EXCEPT !.m_FsmInitData = t], <<>>)
  BY <1>2 DEF init_fsm
<1> HIDE DEF c
<1> DEFINE e == [m_FsmInitData |-> t, m_FrameQueue |-> <<>>, executed |-> <<>>,
                 seededAt |-> nil]
<1>4. c = gs2c_frame_cache_data(e, <<>>)
  BY <1>3 DEF NewClient
<1>5. e.m_FsmInitData = t /\ e.m_FrameQueue \o <<>> = <<>>
      /\ Len(<<>>) = 0 /\ e.executed = <<>>
  OBVIOUS
<1>6. c = IF 0 < t THEN [e EXCEPT !.m_FrameQueue = <<>>]
          ELSE [e EXCEPT !.m_FrameQueue = <<>>, !.m_FsmInitData = nil, !.seededAt = 0]
  <2> HIDE DEF e
  <2>1. CASE 0 < t
    BY <1>1, <1>4, <1>5, <2>1 DEF gs2c_frame_cache_data
  <2>2. CASE t = 0
    BY <1>1, <1>4, <1>5, <2>2 DEF gs2c_frame_cache_data
  <2> QED BY <2>1, <2>2
<1>7. /\ c.executed = <<>> /\ c.m_FrameQueue = <<>>
      /\ IF 0 < t THEN c.m_FsmInitData = t /\ c.seededAt = nil
                  ELSE c.m_FsmInitData = nil /\ c.seededAt = 0
  BY <1>6
<1>8. Received(c) = <<>>
  BY <1>7 DEF Received
<1>9. ClientAt(c, 1, t, log)
  BY <1>1, <1>7, <1>8 DEF ClientAt
<1> QED BY <1>9 DEF c

LEMMA CacheDelivered ==
  ASSUME NEW c \in Client, NEW d, NEW x \in Nat, NEW y \in Nat, NEW t \in Nat,
         NEW log \in Seq(FrameInfo), t <= Len(log), ClientAt(c, x, t, log),
         d.frame_cache \in Seq(FrameInfo), d.proto = "gs2c_frame_cache_data",
         Delivers(d, x, y, t, log)
  PROVE  ClientAt(_dispatch_request(c, d), y, t, log)
<1> DEFINE f == d.frame_cache
           q == c.m_FrameQueue \o f
           r == _dispatch_request(c, d)
<1>1. nil \notin Nat /\ Len(log) \in Nat
  BY FrameSyncAssumption
<1>2. /\ 1 <= x /\ x < y /\ y <= t + 1 /\ Len(f) = y - x
      /\ \A i \in 1 .. y - x : f[i] = log[x - 1 + i]
  BY DEF Delivers
<1>3. /\ Len(Received(c)) = x - 1 /\ \A i \in 1 .. x - 1 : Received(c)[i] = log[i]
      /\ c.m_FsmInitData = t /\ c.seededAt = nil /\ c.executed = <<>>
  BY <1>1, <1>2 DEF ClientAt
<1>4. c.m_FrameQueue \in Seq(FrameInfo) /\ f \in Seq(FrameInfo)
  BY ClientFacts
<1>5. Received(c) = c.m_FrameQueue
  BY <1>3, <1>4 DEF Received
<1> HIDE DEF f
<1>6. q \in Seq(FrameInfo) /\ Len(q) = y - 1
  BY <1>2, <1>3, <1>4, <1>5
<1>7. ASSUME NEW i \in 1 .. y - 1 PROVE q[i] = log[i]
  <2>1. CASE i <= x - 1
    <3>1. /\ i \in 1 .. x - 1 /\ i \in 1 .. Len(c.m_FrameQueue)
      BY <1>2, <1>3, <1>5, <2>1
    <3>2. q[i] = c.m_FrameQueue[i]
      BY <1>4, <3>1
    <3> QED BY <1>3, <1>5, <3>1, <3>2
  <2>2. CASE ~(i <= x - 1)
    <3> DEFINE j == i - (x - 1)
    <3>1. j \in 1 .. y - x /\ i = x - 1 + j
      BY <1>2, <2>2
    <3>2. q[i] = f[j]
      <4> HIDE DEF f
      <4>1. Len(c.m_FrameQueue) = x - 1 /\ i \in x .. y - 1
        BY <1>3, <1>5, <2>2
      <4>2. i \in 1 .. Len(c.m_FrameQueue) + Len(f)
        BY <1>2, <4>1
      <4>3. q[i] = IF i <= Len(c.m_FrameQueue) THEN c.m_FrameQueue[i]
                   ELSE f[i - Len(c.m_FrameQueue)]
        BY <1>4, <4>2, ConcatProperties
      <4> QED BY <4>1, <4>3
    <3> HIDE DEF j
    <3> QED BY <1>2, <3>1, <3>2
  <2> QED BY <2>1, <2>2
<1>8. r = gs2c_frame_cache_data(c, f)
  BY DEF _dispatch_request, f
<1> HIDE DEF q, r
<1>9. r = IF y - 1 < t THEN [c EXCEPT !.m_FrameQueue = q]
          ELSE [c EXCEPT !.m_FrameQueue = q, !.m_FsmInitData = nil, !.seededAt = 0]
  BY <1>1, <1>3, <1>6, <1>8 DEF gs2c_frame_cache_data, q
<1>10. /\ r.executed = <<>> /\ r.m_FrameQueue = q
       /\ IF y <= t THEN r.m_FsmInitData = t /\ r.seededAt = nil
                    ELSE r.m_FsmInitData = nil /\ r.seededAt = 0
  BY <1>3, <1>9, ClientFacts DEF Client
<1>11. Received(r) = q
  BY <1>6, <1>10 DEF Received
<1>12. ClientAt(r, y, t, log)
  BY <1>1, <1>2, <1>6, <1>7, <1>10, <1>11 DEF ClientAt
<1> QED BY <1>12 DEF r

LEMMA FrameDelivered ==
  ASSUME NEW c \in Client, NEW d, NEW x \in Nat, NEW y \in Nat, NEW t \in Nat,
         NEW log \in Seq(FrameInfo), t <= Len(log), ClientAt(c, x, t, log),
         d.frame_data \in FrameInfo, d.proto = "gs2c_frame_data",
         Delivers(d, x, y, t, log)
  PROVE  ClientAt(_dispatch_request(c, d), y, t, log)
<1> DEFINE f == d.frame_data
           r == _dispatch_request(c, d)
<1>1. Len(log) \in Nat /\ t < x /\ y = x + 1 /\ x <= Len(log) /\ f = log[x]
  BY DEF Delivers
<1>2. /\ Len(Received(c)) = x - 1 /\ \A i \in 1 .. x - 1 : Received(c)[i] = log[i]
      /\ c.m_FsmInitData = nil /\ c.seededAt = 0
  BY <1>1 DEF ClientAt
<1>3. r = [c EXCEPT !.m_FrameQueue = Append(c.m_FrameQueue, f)]
  BY DEF _dispatch_request, recv_frame
<1> HIDE DEF f, r
<1>4. f \in FrameInfo
  BY DEF f
<1>5. /\ r.executed = c.executed /\ r.m_FrameQueue = Append(c.m_FrameQueue, f)
      /\ r.m_FsmInitData = nil /\ r.seededAt = 0
  BY <1>2, <1>3 DEF Client
<1>6. /\ Received(r) = Append(Received(c), f) /\ Received(c) \in Seq(FrameInfo)
  <2> DEFINE a == c.executed
             b == c.m_FrameQueue
  <2>1. a \in Seq(FrameInfo) /\ b \in Seq(FrameInfo)
    BY ClientFacts
  <2>2. Received(c) = a \o b /\ Received(r) = a \o Append(b, f)
    BY <1>5 DEF Received
  <2> HIDE DEF a, b
  <2>3. a \o Append(b, f) = Append(a \o b, f)
    BY <1>4, <2>1, ConcatAppend
  <2> QED BY <2>1, <2>2, <2>3
<1>7. Len(Received(r)) = y - 1 /\ \A i \in 1 .. y - 1 : Received(r)[i] = log[i]
  BY <1>1, <1>2, <1>4, <1>6
<1>8. ClientAt(r, y, t, log)
  BY <1>1, <1>5, <1>7 DEF ClientAt
<1> QED BY <1>8 DEF r

LEMMA Delivered ==
  ASSUME NEW c \in Client, NEW d \in Package, NEW x \in Nat, NEW y \in Nat,
         NEW t \in Nat, NEW log \in Seq(FrameInfo), t <= Len(log),
         ClientAt(c, x, t, log), Delivers(d, x, y, t, log)
  PROVE  ClientAt(_dispatch_request(c, d), y, t, log)
<1>1. /\ d.proto = "gs2c_frame_cache_data" => d.frame_cache \in Seq(FrameInfo)
      /\ d.proto = "gs2c_frame_data" => d.frame_data \in FrameInfo
  BY DEF Package
<1>2. CASE d.proto = "gs2c_loginsuc"
  <2>1. d.frame_cache_num = t /\ x = 0 /\ y = 1
    BY <1>2 DEF Delivers
  <2>2. c = NewClient
    BY <2>1 DEF ClientAt
  <2> QED BY <1>2, <2>1, <2>2, LoginDelivered
<1>3. CASE d.proto = "gs2c_frame_cache_data"
  BY <1>1, <1>3, CacheDelivered
<1>4. CASE d.proto = "gs2c_frame_data"
  BY <1>1, <1>4, FrameDelivered
<1> QED BY <1>2, <1>3, <1>4 DEF Delivers

-----------------------------------------------------------------------------
(* What mailbox q of the broadcast service has for the client of pid at fd. *)

(* Message m brings it from x to y.                                         *)
Carries(m, pid, x, y, t, log) ==
  IF m.cmd = "send" /\ pid \in m.uuids THEN Delivers(m.data, x, y, t, log)
                                       ELSE y = x

(* From place b of q on, fd is the route of pid: b = 0 if it is already     *)
(* (route is the one in fd_map), else the place of its registration.        *)
RoutedFrom(q, route, pid, fd, b) ==
  /\ b = 0 => route = fd
  /\ b # 0 => /\ q[b] = Register(pid, fd)
              /\ route # fd
              /\ \A k \in 1 .. b - 1 : q[k] # Register(pid, fd)
  /\ \A k \in b + 1 .. Len(q) : ~IsRoute(q[k], pid)

(* Client c, at g[b], is brought by message k from g[k - 1] to g[k] and, by *)
(* the end of q, to e.                                                      *)
Brings(q, c, pid, e, t, log, b, g) ==
  /\ ClientAt(c, g[b], t, log)
  /\ \A k \in b + 1 .. Len(q) : Carries(q[k], pid, g[k - 1], g[k], t, log)
  /\ g[Len(q)] = e
  /\ e = 0 => \A k \in 0 .. Len(q) : g[k] = 0

LinkBy(q, route, c, pid, fd, e, t, log, b, g) ==
  /\ b \in 0 .. Len(q)
  /\ t \in 0 .. Len(log)
  /\ g \in [0 .. Len(q) -> Nat]
  /\ RoutedFrom(q, route, pid, fd, b)
  /\ Brings(q, c, pid, e, t, log, b, g)

Link(q, route, c, pid, fd, e, log) ==
  \E b, t, g : LinkBy(q, route, c, pid, fd, e, t, log, b, g)

(* The log only grows.                                                      *)
Longer(log, more) ==
  /\ more \in Seq(FrameInfo) /\ Len(log) <= Len(more)
  /\ \A i \in 1 .. Len(log) : more[i] = log[i]

LEMMA CarriesOn ==
  ASSUME NEW log \in Seq(FrameInfo), NEW more, Longer(log, more),
         NEW m, NEW pid, NEW x \in Nat, NEW y \in Nat, NEW t \in 0 .. Len(log),
         Carries(m, pid, x, y, t, log)
  PROVE  Carries(m, pid, x, y, t, more)
<1>1. Len(log) \in Nat /\ Len(more) \in Nat /\ Len(log) <= Len(more)
  BY DEF Longer
<1>2. ASSUME NEW d, Delivers(d, x, y, t, log) PROVE Delivers(d, x, y, t, more)
  <2>1. CASE d.proto = "gs2c_loginsuc"
    BY <1>2, <2>1 DEF Delivers
  <2>2. CASE d.proto = "gs2c_frame_cache_data"
    <3>1. /\ 1 <= x /\ x < y /\ y <= t + 1 /\ Len(d.frame_cache) = y - x
          /\ \A i \in 1 .. y - x : d.frame_cache[i] = log[x - 1 + i]
      BY <1>2, <2>2 DEF Delivers
    <3>2. \A i \in 1 .. y - x : x - 1 + i \in 1 .. Len(log)
      BY <1>1, <3>1
    <3>3. \A i \in 1 .. y - x : log[x - 1 + i] = more[x - 1 + i]
      BY <3>2 DEF Longer
    <3> QED BY <2>2, <3>1, <3>3 DEF Delivers
  <2>3. CASE d.proto = "gs2c_frame_data"
    <3>1. t < x /\ y = x + 1 /\ x <= Len(log) /\ d.frame_data = log[x]
      BY <1>2, <2>3 DEF Delivers
    <3>2. x \in 1 .. Len(log)
      BY <1>1, <3>1
    <3> QED BY <1>1, <2>3, <3>1, <3>2 DEF Delivers, Longer
  <2> QED BY <1>2, <2>1, <2>2, <2>3 DEF Delivers
<1> QED BY <1>2 DEF Carries

LEMMA ClientStaysAt ==
  ASSUME NEW log \in Seq(FrameInfo), NEW more, Longer(log, more),
         NEW c, NEW x \in Nat, NEW t, ClientAt(c, x, t, log)
  PROVE  ClientAt(c, x, t, more)
<1>1. Len(log) \in Nat /\ Len(more) \in Nat /\ Len(log) <= Len(more)
  BY DEF Longer
<1>2. CASE x = 0
  BY <1>2 DEF ClientAt
<1>3. CASE x # 0
  <2>1. x <= Len(log) + 1 /\ \A i \in 1 .. x - 1 : Received(c)[i] = log[i]
    BY <1>3 DEF ClientAt
  <2>2. \A i \in 1 .. x - 1 : more[i] = log[i]
    BY <1>1, <2>1 DEF Longer
  <2> QED BY <1>1, <1>3, <2>1, <2>2 DEF ClientAt
<1> QED BY <1>2, <1>3

(* Messages s are put into the mailbox, and go on from where it ended.      *)
LEMMA LinkSent ==
  ASSUME NEW q \in Seq(BCMsg), NEW s \in Seq(BCMsg), NEW route, NEW c, NEW pid,
         NEW fd, NEW e, NEW t, NEW log \in Seq(FrameInfo), NEW b, NEW g,
         LinkBy(q, route, c, pid, fd, e, t, log, b, g),
         NEW more, Longer(log, more),
         \A k \in 1 .. Len(s) : ~IsRoute(s[k], pid),
         NEW h \in [0 .. Len(s) -> Nat], h[0] = e,
         \A k \in 1 .. Len(s) : Carries(s[k], pid, h[k - 1], h[k], t, more),
         h[Len(s)] = 0 => \A k \in 0 .. Len(s) : h[k] = 0
  PROVE  Link(q \o s, route, c, pid, fd, h[Len(s)], more)
<1> DEFINE r == q \o s
           m == Len(q)
           n == Len(s)
           f == [k \in 0 .. m + n |-> IF k <= m THEN g[k] ELSE h[k - m]]
<1>1. /\ m \in Nat /\ n \in Nat /\ r \in Seq(BCMsg) /\ Len(r) = m + n
      /\ \A i \in 1 .. m : r[i] = q[i]
      /\ \A i \in 1 .. n : r[m + i] = s[i]
  BY ConcatProperties
<1>2. /\ b \in 0 .. m /\ t \in 0 .. Len(log) /\ g \in [0 .. m -> Nat]
      /\ RoutedFrom(q, route, pid, fd, b) /\ Brings(q, c, pid, e, t, log, b, g)
  BY DEF LinkBy
<1> HIDE DEF r, m, n
<1>3. /\ f \in [0 .. m + n -> Nat]
      /\ \A k \in 0 .. m : f[k] = g[k]
      /\ \A k \in 1 .. n : f[m + k] = h[k]
  <2>1. h \in [0 .. n -> Nat]
    BY DEF n
  <2>2. \A k \in 0 .. m + n : k <= m \/ k - m \in 0 .. n
    BY <1>1
  <2>3. \A k \in 1 .. n : m + k \in 0 .. m + n /\ ~(m + k <= m) /\ (m + k) - m = k
    BY <1>1
  <2> QED BY <1>1, <1>2, <2>1, <2>2, <2>3
<1> HIDE DEF f
<1>4. g[m] = e /\ f[m] = e /\ m \in 0 .. m
  BY <1>1, <1>2, <1>3 DEF Brings, m
<1>5. \A k \in 0 .. n : f[m + k] = h[k]
  <2> SUFFICES ASSUME NEW k \in 0 .. n PROVE f[m + k] = h[k]
    OBVIOUS
  <2>1. CASE k = 0
    BY <1>1, <1>4, <2>1
  <2>2. CASE k # 0
    BY <1>1, <1>3, <2>2
  <2> QED BY <2>1, <2>2
<1>6. ASSUME NEW k \in b + 1 .. m + n
      PROVE  \/ k \in b + 1 .. m /\ r[k] = q[k] /\ f[k - 1] = g[k - 1] /\ f[k] = g[k]
             \/ \E i \in 1 .. n : r[k] = s[i] /\ f[k - 1] = h[i - 1] /\ f[k] = h[i]
  <2>1. CASE k <= m
    <3>1. k \in b + 1 .. m /\ k \in 1 .. m /\ k \in 0 .. m /\ k - 1 \in 0 .. m
      BY <1>1, <1>2, <2>1
    <3> QED BY <1>1, <1>3, <3>1
  <2>2. CASE ~(k <= m)
    <3> DEFINE i == k - m
    <3>1. i \in 1 .. n /\ i - 1 \in 0 .. n /\ i \in 0 .. n
      BY <1>1, <1>2, <2>2
    <3>2. k = m + i /\ k - 1 = m + (i - 1)
      BY <1>1, <1>2
    <3> HIDE DEF i
    <3> QED BY <1>1, <1>5, <3>1, <3>2
  <2> QED BY <2>1, <2>2
<1>7. RoutedFrom(r, route, pid, fd, b)
  <2>1. b # 0 => b \in 1 .. m /\ \A k \in 1 .. b - 1 : k \in 1 .. m
    BY <1>1, <1>2
  <2>2. b # 0 => r[b] = q[b] /\ \A k \in 1 .. b - 1 : r[k] = q[k]
    BY <1>1, <2>1
  <2>3. \A k \in b + 1 .. m + n : ~IsRoute(r[k], pid)
    BY <1>2, <1>6 DEF RoutedFrom, m, n
  <2> QED BY <1>1, <1>2, <2>2, <2>3 DEF RoutedFrom
<1>8. \A k \in b + 1 .. m + n : Carries(r[k], pid, f[k - 1], f[k], t, more)
  <2> SUFFICES ASSUME NEW k \in b + 1 .. m + n
               PROVE  Carries(r[k], pid, f[k - 1], f[k], t, more)
    OBVIOUS
  <2>1. CASE k \in b + 1 .. m /\ r[k] = q[k] /\ f[k - 1] = g[k - 1] /\ f[k] = g[k]
    <3>1. Carries(q[k], pid, g[k - 1], g[k], t, log)
      BY <1>2, <2>1 DEF Brings, m
    <3>2. g[k - 1] \in Nat /\ g[k] \in Nat
      BY <1>1, <1>2, <2>1
    <3> QED BY <1>2, <2>1, <3>1, <3>2, CarriesOn
  <2>2. ASSUME NEW i \in 1 .. n, r[k] = s[i], f[k - 1] = h[i - 1], f[k] = h[i]
        PROVE  Carries(r[k], pid, f[k - 1], f[k], t, more)
    BY <2>2 DEF n
  <2> QED BY <1>6, <2>1, <2>2
<1>9. ClientAt(c, f[b], t, more)
  <2>1. ClientAt(c, g[b], t, log) /\ f[b] = g[b] /\ g[b] \in Nat
    BY <1>2, <1>3 DEF Brings
  <2> QED BY <2>1, ClientStaysAt
<1>10. f[m + n] = h[n]
  BY <1>1, <1>5
<1>11. h[n] = 0 => \A k \in 0 .. m + n : f[k] = 0
  <2> SUFFICES ASSUME h[n] = 0, NEW k \in 0 .. m + n PROVE f[k] = 0
    OBVIOUS
  <2>1. \A i \in 0 .. n : h[i] = 0
    BY DEF n
  <2>2. e = 0
    BY <1>1, <2>1
  <2>3. CASE k <= m
    <3>1. k \in 0 .. m
      BY <1>1, <2>3
    <3> QED BY <1>2, <1>3, <2>2, <3>1 DEF Brings, m
  <2>4. CASE ~(k <= m)
    <3>1. k - m \in 0 .. n /\ k = m + (k - m)
      BY <1>1, <2>4
    <3> QED BY <1>5, <2>1, <3>1
  <2> QED BY <2>3, <2>4
<1>12. Brings(r, c, pid, h[n], t, more, b, f)
  BY <1>1, <1>8, <1>9, <1>10, <1>11 DEF Brings
<1>13. /\ b \in 0 .. Len(r) /\ t \in 0 .. Len(more) /\ f \in [0 .. Len(r) -> Nat]
  BY <1>1, <1>2, <1>3 DEF Longer
<1>14. LinkBy(r, route, c, pid, fd, h[n], t, more, b, f)
  BY <1>7, <1>12, <1>13 DEF LinkBy
<1> QED BY <1>14 DEF Link, r, n

(* A client that has been sent nothing may enter at any length of the log.  *)
LEMMA LinkEnters ==
  ASSUME NEW q \in Seq(BCMsg), NEW route, NEW c, NEW pid, NEW fd,
         NEW log \in Seq(FrameInfo), Link(q, route, c, pid, fd, 0, log),
         NEW u \in 0 .. Len(log)
  PROVE  \E b, g : LinkBy(q, route, c, pid, fd, 0, u, log, b, g)
<1>1. PICK b, t, g : LinkBy(q, route, c, pid, fd, 0, t, log, b, g)
  BY DEF Link
<1>2. /\ b \in 0 .. Len(q) /\ g \in [0 .. Len(q) -> Nat] /\ Len(q) \in Nat
      /\ RoutedFrom(q, route, pid, fd, b) /\ Brings(q, c, pid, 0, t, log, b, g)
  BY <1>1 DEF LinkBy
<1>3. \A k \in 0 .. Len(q) : g[k] = 0
  BY <1>2 DEF Brings
<1>4. ClientAt(c, g[b], u, log)
  BY <1>2, <1>3 DEF Brings, ClientAt
<1>5. ASSUME NEW k \in b + 1 .. Len(q)
      PROVE  Carries(q[k], pid, g[k - 1], g[k], u, log)
  <2>1. Carries(q[k], pid, g[k - 1], g[k], t, log)
    BY <1>2 DEF Brings
  <2>2. k - 1 \in 0 .. Len(q) /\ k \in 0 .. Len(q)
    BY <1>2
  <2>3. g[k - 1] = 0 /\ g[k] = 0
    BY <1>3, <2>2
  <2>4. \A d : ~Delivers(d, 0, 0, t, log)
    BY DEF Delivers
  <2> QED BY <2>1, <2>3, <2>4 DEF Carries
<1>6. Brings(q, c, pid, 0, u, log, b, g)
  BY <1>2, <1>4, <1>5 DEF Brings
<1> QED BY <1>2, <1>6 DEF LinkBy

(* A player object is created for a connection that nothing has been sent   *)
(* to.                                                                      *)
LEMMA LinkStarts ==
  ASSUME NEW q \in Seq(BCMsg), NEW route, NEW c, NEW pid \in Pids, NEW fd \in Fds,
         NEW log \in Seq(FrameInfo), c = NewClient, route # fd,
         \A k \in 1 .. Len(q) : q[k] # Register(pid, fd)
  PROVE  Link(Append(q, Register(pid, fd)), route, c, pid, fd, 0, log)
<1> DEFINE m == Register(pid, fd)
           r == Append(q, m)
           b == Len(q) + 1
           g == [k \in 0 .. b |-> 0]
<1>1. m \in BCMsg
  BY RouteTypes
<1> HIDE DEF m
<1>2. /\ r \in Seq(BCMsg) /\ Len(r) = b /\ b \in Nat /\ b # 0 /\ r[b] = m
      /\ \A k \in 1 .. Len(q) : r[k] = q[k]
  BY <1>1
<1>3. b - 1 = Len(q) /\ Len(q) \in Nat
  OBVIOUS
<1> HIDE DEF r, b
<1>4. g \in [0 .. b -> Nat] /\ \A k \in 0 .. b : g[k] = 0
  OBVIOUS
<1> HIDE DEF g
<1>5. b \in 0 .. b /\ (\A k : k \notin b + 1 .. b) /\ g[b] = 0
  BY <1>2, <1>4
<1>6. RoutedFrom(r, route, pid, fd, b)
  BY <1>2, <1>3, <1>5 DEF RoutedFrom, m
<1>7. 0 \in 0 .. Len(log)
  OBVIOUS
<1>8. Brings(r, c, pid, 0, 0, log, b, g)
  BY <1>2, <1>4, <1>5 DEF Brings, ClientAt
<1>9. LinkBy(r, route, c, pid, fd, 0, 0, log, b, g)
  BY <1>2, <1>4, <1>5, <1>6, <1>7, <1>8 DEF LinkBy
<1> QED BY <1>9 DEF Link, r, m

(* The broadcast service takes a message: it sets the route, or delivers a  *)
(* package to the connection of the route.                                  *)
LEMMA LinkTaken ==
  ASSUME NEW q \in Seq(BCMsg), q # <<>>, NEW route, NEW c \in Client,
         NEW pid \in Pids, NEW fd \in Fds, NEW e, NEW log \in Seq(FrameInfo),
         Link(q, route, c, pid, fd, e, log),
         NEW turn, turn = IF IsRoute(Head(q), pid) THEN Says(Head(q)) ELSE route,
         NEW next, next = IF Head(q).cmd = "send" /\ pid \in Head(q).uuids /\ route = fd
                          THEN _dispatch_request(c, Head(q).data) ELSE c
  PROVE  Link(Tail(q), turn, next, pid, fd, e, log)
<1>1. PICK b, t, g : LinkBy(q, route, c, pid, fd, e, t, log, b, g)
  BY DEF Link
<1> DEFINE m == Head(q)
           r == Tail(q)
           n == Len(q)
           a == IF b = 0 THEN 0 ELSE b - 1
           f == [k \in 0 .. n - 1 |-> g[k + 1]]
<1>2. /\ b \in 0 .. n /\ t \in 0 .. Len(log) /\ g \in [0 .. n -> Nat]
      /\ RoutedFrom(q, route, pid, fd, b) /\ Brings(q, c, pid, e, t, log, b, g)
  BY <1>1 DEF LinkBy
<1>3. /\ n \in Nat /\ n >= 1 /\ r \in Seq(BCMsg) /\ Len(r) = n - 1
      /\ m = q[1] /\ m \in BCMsg
      /\ \A k \in 1 .. n - 1 : r[k] = q[k + 1]
  OBVIOUS
<1> HIDE DEF m, r, n
<1>4. f \in [0 .. n - 1 -> Nat] /\ \A k \in 0 .. n - 1 : f[k] = g[k + 1]
  <2>1. \A k \in 0 .. n - 1 : k + 1 \in 0 .. n
    BY <1>3
  <2> QED BY <1>2, <2>1
<1>5. /\ a \in 0 .. n - 1
      /\ \A k \in a + 1 .. n - 1 : k + 1 \in b + 1 .. n /\ k \in 1 .. n - 1
                                   /\ k - 1 \in 0 .. n - 1 /\ k \in 0 .. n - 1
  BY <1>2, <1>3
<1> HIDE DEF a, f
<1>6. ASSUME NEW k \in a + 1 .. n - 1
      PROVE  r[k] = q[k + 1] /\ f[k - 1] = g[(k + 1) - 1] /\ f[k] = g[k + 1]
  <2>1. (k - 1) + 1 = (k + 1) - 1
    BY <1>3
  <2> QED BY <1>3, <1>4, <1>5, <2>1
<1>7. ASSUME NEW k \in a + 1 .. n - 1
      PROVE  ~IsRoute(r[k], pid) /\ Carries(r[k], pid, f[k - 1], f[k], t, log)
  <2>1. ~IsRoute(q[k + 1], pid)
    BY <1>2, <1>5 DEF RoutedFrom, n
  <2>2. Carries(q[k + 1], pid, g[(k + 1) - 1], g[k + 1], t, log)
    BY <1>2, <1>5 DEF Brings, n
  <2> QED BY <1>6, <2>1, <2>2
<1>8. f[n - 1] = e /\ (e = 0 => \A k \in 0 .. n - 1 : f[k] = 0)
  <2>1. n - 1 \in 0 .. n - 1 /\ (n - 1) + 1 = n
    BY <1>3
  <2>2. g[n] = e
    BY <1>2 DEF Brings, n
  <2>3. \A k \in 0 .. n - 1 : k + 1 \in 0 .. n
    BY <1>3
  <2>4. e = 0 => \A k \in 0 .. n - 1 : g[k + 1] = 0
    BY <1>2, <2>3 DEF Brings, n
  <2> QED BY <1>4, <2>1, <2>2, <2>4
<1>9. m.cmd = "register_fd" => m = Register(m.uuid, m.fd) /\ m.fd \in Fds
  BY <1>3 DEF BCMsg, Register
<1>10. RoutedFrom(r, turn, pid, fd, a) /\ ClientAt(next, f[a], t, log)
  <2>1. turn = (IF IsRoute(m, pid) THEN Says(m) ELSE route)
    BY DEF m
  <2>2. next = IF m.cmd = "send" /\ pid \in m.uuids /\ route = fd
               THEN _dispatch_request(c, m.data) ELSE c
    BY DEF m
  <2>3. CASE b = 0
    <3>1. a = 0 /\ 1 \in b + 1 .. n /\ f[0] = g[1] /\ route = fd
      BY <1>2, <1>3, <1>4, <2>3 DEF a, RoutedFrom
    <3>2. ~IsRoute(m, pid) /\ Carries(m, pid, g[0], g[1], t, log)
      BY <1>2, <1>3, <3>1 DEF RoutedFrom, Brings, n
    <3>3. ClientAt(c, g[0], t, log) /\ g[0] \in Nat /\ g[1] \in Nat /\ t \in Nat
      BY <1>2, <1>3, <2>3 DEF Brings
    <3>4. ClientAt(next, g[1], t, log)
      <4>1. CASE m.cmd = "send" /\ pid \in m.uuids
        <5>1. Delivers(m.data, g[0], g[1], t, log) /\ m.data \in Package
          BY <1>3, <3>2, <4>1, BCHead DEF Carries
        <5>2. t <= Len(log)
          BY <1>2
        <5>3. next = _dispatch_request(c, m.data)
          BY <2>2, <3>1, <4>1
        <5> HIDE DEF m
        <5> QED BY <3>3, <5>1, <5>2, <5>3, Delivered
      <4>2. CASE ~(m.cmd = "send" /\ pid \in m.uuids)
        BY <2>2, <3>2, <3>3, <4>2 DEF Carries
      <4> QED BY <4>1, <4>2
    <3>5. RoutedFrom(r, turn, pid, fd, a)
      BY <1>3, <1>7, <2>1, <3>1, <3>2 DEF RoutedFrom
    <3> QED BY <3>1, <3>4, <3>5
  <2>4. CASE b # 0
    <3>1. /\ a = b - 1 /\ f[a] = g[b] /\ route # fd /\ q[b] = Register(pid, fd)
          /\ \A k \in 1 .. b - 1 : q[k] # Register(pid, fd)
      <4>1. a = b - 1 /\ a + 1 = b
        BY <1>2, <1>3, <2>4 DEF a
      <4> QED BY <1>2, <1>4, <1>5, <2>4, <4>1 DEF RoutedFrom
    <3>2. ClientAt(next, f[a], t, log)
      BY <1>2, <2>2, <3>1 DEF Brings
    <3>3. CASE b = 1
      <4>1. m = Register(pid, fd) /\ a = 0
        BY <1>3, <3>1, <3>3
      <4>2. turn = fd
        BY <2>1, <4>1 DEF IsRoute, Says, Register
      <4> QED BY <1>3, <1>7, <3>2, <4>1, <4>2 DEF RoutedFrom
    <3>4. CASE b # 1
      <4>1. a # 0 /\ a \in 1 .. n - 1 /\ a + 1 = b /\ 1 \in 1 .. b - 1
        BY <1>2, <1>3, <2>4, <3>1, <3>4
      <4>2. m # Register(pid, fd) /\ r[a] = Register(pid, fd)
        BY <1>3, <3>1, <4>1
      <4>3. turn # fd
        <5>1. nil \notin Fds
          BY FrameSyncAssumption DEF Fds
        <5> QED BY <1>9, <2>1, <3>1, <4>2, <5>1 DEF IsRoute, Says
      <4>4. \A k \in 1 .. a - 1 : k \in 1 .. n - 1 /\ k + 1 \in 1 .. b - 1
        BY <1>2, <1>3, <4>1
      <4>5. \A k \in 1 .. a - 1 : r[k] # Register(pid, fd)
        BY <1>3, <3>1, <4>4
      <4> QED BY <1>3, <1>7, <3>2, <4>1, <4>2, <4>3, <4>5 DEF RoutedFrom
    <3> QED BY <3>3, <3>4
  <2> QED BY <2>3, <2>4
<1>11. Brings(r, next, pid, e, t, log, a, f)
  BY <1>3, <1>7, <1>8, <1>10 DEF Brings
<1>12. LinkBy(r, turn, next, pid, fd, e, t, log, a, f)
  BY <1>2, <1>3, <1>4, <1>5, <1>10, <1>11 DEF LinkBy
<1> QED BY <1>12 DEF Link, r

-----------------------------------------------------------------------------
(* The packages of a frame cache.                                           *)
LEMMA Cut ==
  ASSUME NEW num \in Nat, NEW p \in Nat, p > 0, NEW cnt, cnt = (num + p - 1) \div p
  PROVE  /\ cnt \in Nat /\ num <= cnt * p
         /\ \A k \in 1 .. cnt : (k - 1) * p \in Nat /\ k * p \in Nat
                                /\ (k - 1) * p < num /\ k * p = (k - 1) * p + p
<1> DEFINE a == num + p - 1
<1>1. a \in Nat /\ cnt \in Nat
  OBVIOUS
<1>2. cnt * p <= a /\ a < cnt * p + p
  OBVIOUS
<1>3. ASSUME NEW k \in 1 .. cnt
      PROVE  /\ (k - 1) * p \in Nat /\ k * p \in Nat
             /\ (k - 1) * p < num /\ k * p = (k - 1) * p + p
  <2>1. k * p <= cnt * p
    BY <1>1
  <2>2. (k - 1) * p \in Nat /\ k * p \in Nat /\ k * p = (k - 1) * p + p
    BY <1>1
  <2> QED BY <1>1, <1>2, <2>1, <2>2
<1>4. cnt * p \in Nat
  BY <1>1
<1> QED BY <1>1, <1>2, <1>3, <1>4

(* The pieces, cnt in number, are the log in order: piece k ends at upto[k].*)
Covers(pieces, cnt, upto, log) ==
  /\ cnt \in Nat /\ upto \in [0 .. cnt -> 0 .. Len(log)]
  /\ Len(pieces) = cnt
  /\ upto[0] = 0 /\ upto[cnt] = Len(log)
  /\ \A k \in 1 .. cnt :
       /\ pieces[k] \in Seq(FrameInfo)
       /\ upto[k - 1] < upto[k]
       /\ Len(pieces[k]) = upto[k] - upto[k - 1]
       /\ \A i \in 1 .. upto[k] - upto[k - 1] : pieces[k][i] = log[upto[k - 1] + i]

LEMMA PieceFacts ==
  ASSUME GameTypeOK
  PROVE  \E cnt, upto : Covers(CachePieces, cnt, upto, m_FrameCacheQueue)
<1> DEFINE num == Len(m_FrameCacheQueue)
           last(k) == IF k * Piece < num THEN k * Piece ELSE num
           cnt == (num + Piece - 1) \div Piece
           piece(k) == SubSeq(m_FrameCacheQueue, (k - 1) * Piece + 1, last(k))
           upto == [k \in 0 .. cnt |-> last(k)]
<1>1. /\ num \in Nat /\ m_FrameCacheQueue \in Seq(FrameInfo)
      /\ Piece \in Nat /\ Piece > 0
  BY SceneAssumption DEF GameTypeOK
<1>2. CachePieces = [k \in 1 .. cnt |-> piece(k)]
  BY DEF CachePieces
<1>3. /\ cnt \in Nat /\ num <= cnt * Piece
      /\ \A k \in 1 .. cnt : (k - 1) * Piece \in Nat /\ k * Piece \in Nat
           /\ (k - 1) * Piece < num /\ k * Piece = (k - 1) * Piece + Piece
  BY <1>1, Cut
<1> HIDE DEF cnt
<1>4. \A k \in 0 .. cnt : k * Piece \in Nat
  BY <1>1, <1>3
<1>5. upto \in [0 .. cnt -> 0 .. num]
  <2>1. \A k \in 0 .. cnt : last(k) \in 0 .. num
    BY <1>1, <1>4
  <2> HIDE DEF last
  <2> QED BY <2>1
<1>6. upto[0] = 0 /\ upto[cnt] = num
  <2>1. 0 \in 0 .. cnt /\ cnt \in 0 .. cnt
    BY <1>3
  <2>2. last(0) = 0 /\ last(cnt) = num
    BY <1>1, <1>3, <1>4, <2>1
  <2> HIDE DEF last
  <2> QED BY <2>1, <2>2
<1>7. ASSUME NEW k \in 1 .. cnt
      PROVE  /\ CachePieces[k] \in Seq(FrameInfo)
             /\ upto[k - 1] < upto[k]
             /\ Len(CachePieces[k]) = upto[k] - upto[k - 1]
             /\ \A i \in 1 .. upto[k] - upto[k - 1] :
                  CachePieces[k][i] = m_FrameCacheQueue[upto[k - 1] + i]
  <2>1. k \in 0 .. cnt /\ k - 1 \in 0 .. cnt
    BY <1>3
  <2>2. /\ (k - 1) * Piece \in Nat /\ k * Piece \in Nat
        /\ (k - 1) * Piece < num /\ k * Piece = (k - 1) * Piece + Piece
    BY <1>3
  <2>3. last(k - 1) = (k - 1) * Piece
    BY <2>2
  <2>4. last(k) \in Nat /\ (k - 1) * Piece < last(k) /\ last(k) <= num
    BY <1>1, <2>2
  <2>5. upto[k - 1] = (k - 1) * Piece /\ upto[k] = last(k)
    <3> HIDE DEF last
    <3> QED BY <2>1, <2>3
  <2>6. CachePieces[k] = SubSeq(m_FrameCacheQueue, (k - 1) * Piece + 1, last(k))
    BY <1>2
  <2> HIDE DEF upto
  <2>7. PICK lo, hi :
          /\ lo \in Nat /\ hi \in Nat /\ lo < hi /\ hi <= num
          /\ lo = upto[k - 1] /\ hi = upto[k]
    BY <2>2, <2>4, <2>5
  <2>10. CachePieces[k] = SubSeq(m_FrameCacheQueue, lo + 1, hi)
    BY <2>5, <2>6, <2>7
  <2> HIDE DEF num, last
  <2>8. \A i \in lo + 1 .. hi : m_FrameCacheQueue[i] \in FrameInfo
    <3>1. \A i \in lo + 1 .. hi : i \in 1 .. num
      BY <1>1, <2>7
    <3> QED BY <1>1, <3>1 DEF num
  <2>9. /\ SubSeq(m_FrameCacheQueue, lo + 1, hi) \in Seq(FrameInfo)
        /\ Len(SubSeq(m_FrameCacheQueue, lo + 1, hi)) = hi - lo
        /\ \A i \in 1 .. hi - lo :
             SubSeq(m_FrameCacheQueue, lo + 1, hi)[i] = m_FrameCacheQueue[lo + i]
    <3> DEFINE m == lo + 1
    <3>1. /\ m \in Int /\ hi \in Int /\ m <= hi /\ hi - m + 1 = hi - lo
          /\ \A i \in 1 .. hi - lo : m + i - 1 = lo + i
      BY <2>7
    <3> HIDE DEF m
    <3>2. /\ SubSeq(m_FrameCacheQueue, m, hi) \in Seq(FrameInfo)
          /\ Len(SubSeq(m_FrameCacheQueue, m, hi)) = hi - m + 1
          /\ \A i \in 1 .. hi - m + 1 :
               SubSeq(m_FrameCacheQueue, m, hi)[i] = m_FrameCacheQueue[m + i - 1]
      BY <2>8, <3>1, SubSeqProperties DEF m
    <3>3. /\ SubSeq(m_FrameCacheQueue, m, hi) \in Seq(FrameInfo)
          /\ Len(SubSeq(m_FrameCacheQueue, m, hi)) = hi - lo
          /\ \A i \in 1 .. hi - lo :
               SubSeq(m_FrameCacheQueue, m, hi)[i] = m_FrameCacheQueue[lo + i]
      BY <3>1, <3>2
    <3> QED BY <3>3 DEF m
  <2> QED BY <2>7, <2>10, <2>9
<1> HIDE DEF upto
<1>8. Len(CachePieces) = cnt
  <2> HIDE DEF piece
  <2> QED BY <1>2, <1>3
<1>9. Covers(CachePieces, cnt, upto, m_FrameCacheQueue)
  BY <1>3, <1>5, <1>6, <1>7, <1>8 DEF Covers
<1> QED BY <1>9

(* add_player sends the player the length of the log and then all of it.    *)
LEMMA EntersLog ==
  ASSUME GameTypeOK, bcq \in Seq(BCMsg), NEW pid \in Pids, add_player(pid)
  PROVE  \E s \in Seq(BCMsg) : \E h \in [0 .. Len(s) -> Nat] :
           /\ bcq' = bcq \o s
           /\ h[0] = 0 /\ h[Len(s)] = Len(m_FrameCacheQueue) + 1
           /\ \A k \in 1 .. Len(s) :
                /\ s[k].cmd = "send" /\ s[k].uuids = {pid}
                /\ Delivers(s[k].data, h[k - 1], h[k], Len(m_FrameCacheQueue),
                            m_FrameCacheQueue)
<1> DEFINE log == m_FrameCacheQueue
           num == Len(log)
           pieces == CachePieces
           e(k) == SendTo({pid}, FrameCacheData(pieces[k]))
           first == SendTo({pid}, LoginSuc(num))
<1>1. num \in Nat /\ log \in Seq(FrameInfo)
  BY DEF GameTypeOK
<1>2. PICK cnt, upto : Covers(pieces, cnt, upto, log)
  BY PieceFacts
<1>12. /\ cnt \in Nat /\ upto \in [0 .. cnt -> 0 .. num]
      /\ Len(pieces) = cnt /\ upto[0] = 0 /\ upto[cnt] = num
      /\ \A k \in 1 .. cnt :
           /\ pieces[k] \in Seq(FrameInfo) /\ upto[k - 1] < upto[k]
           /\ Len(pieces[k]) = upto[k] - upto[k - 1]
           /\ \A i \in 1 .. upto[k] - upto[k - 1] :
                pieces[k][i] = log[upto[k - 1] + i]
  BY <1>2 DEF Covers
<1> DEFINE cache == [k \in 1 .. cnt |-> e(k)]
           h == [k \in 0 .. cnt + 1 |-> IF k = 0 THEN 0 ELSE upto[k - 1] + 1]
<1>3. bcq' = Append(bcq, first) \o cache
  BY <1>12 DEF add_player
<1> HIDE DEF pieces, num
<1>4. /\ first \in BCMsg /\ first.cmd = "send" /\ first.uuids = {pid}
      /\ first.data.proto = "gs2c_loginsuc" /\ first.data.frame_cache_num = num
  <2>1. [frame_number |-> 0, ctrl_data |-> <<>>] \in FrameInfo /\ <<>> \in Seq(FrameInfo)
    BY DEF FrameInfo
  <2>2. first \in BCMsg
    BY <1>1, <2>1, PackageTypes
  <2> QED BY <2>2 DEF SendTo, LoginSuc
<1>5. \A k \in 1 .. cnt :
        /\ e(k) \in BCMsg /\ e(k).cmd = "send" /\ e(k).uuids = {pid}
        /\ e(k).data.proto = "gs2c_frame_cache_data"
        /\ e(k).data.frame_cache = pieces[k]
  <2>1. [frame_number |-> 0, ctrl_data |-> <<>>] \in FrameInfo
    BY DEF FrameInfo
  <2>2. \A k \in 1 .. cnt : e(k) \in BCMsg
    BY <1>12, <2>1, PackageTypes
  <2> QED BY <2>2 DEF SendTo, FrameCacheData
<1> HIDE DEF first, e
<1>6. cache \in Seq(BCMsg) /\ Len(cache) = cnt /\ \A k \in 1 .. cnt : cache[k] = e(k)
  BY <1>12, <1>5
<1> HIDE DEF cache
<1> DEFINE s == <<first>> \o cache
<1>7. s \in Seq(BCMsg) /\ bcq' = bcq \o s
  BY <1>3, <1>4, <1>6
<1>8. /\ Len(s) = cnt + 1 /\ s[1] = first
      /\ \A k \in 1 .. cnt : s[k + 1] = e(k)
  BY <1>4, <1>6
<1> HIDE DEF s
<1>9. /\ h \in [0 .. cnt + 1 -> Nat] /\ h[0] = 0
      /\ \A k \in 1 .. cnt + 1 : h[k] = upto[k - 1] + 1
  <2>1. \A k \in 0 .. cnt + 1 : k # 0 => k - 1 \in 0 .. cnt
    BY <1>12
  <2> QED BY <1>1, <1>12, <2>1
<1> HIDE DEF h
<1>10. h[1] = 1 /\ h[cnt + 1] = num + 1
  <2>1. 1 \in 1 .. cnt + 1 /\ cnt + 1 \in 1 .. cnt + 1 /\ (cnt + 1) - 1 = cnt
    BY <1>12
  <2> QED BY <1>12, <1>9, <2>1
<1>11. ASSUME NEW k \in 1 .. cnt + 1
       PROVE  /\ s[k].cmd = "send" /\ s[k].uuids = {pid}
              /\ Delivers(s[k].data, h[k - 1], h[k], num, log)
  <2>1. CASE k = 1
    BY <1>4, <1>8, <1>9, <1>10, <2>1 DEF Delivers
  <2>2. CASE k # 1
    <3>1. PICK j \in 1 .. cnt : k = j + 1 /\ k - 1 = j /\ j \in 1 .. cnt + 1
      <4>1. k - 1 \in 1 .. cnt /\ k = (k - 1) + 1 /\ k - 1 \in 1 .. cnt + 1
        BY <1>12, <2>2
      <4> QED BY <4>1
    <3>2. /\ upto[j - 1] \in Nat /\ upto[j] \in Nat
          /\ upto[j] <= num /\ upto[j - 1] < upto[j]
      <4>1. j \in 0 .. cnt /\ j - 1 \in 0 .. cnt
        BY <1>12
      <4> QED BY <1>1, <1>12, <4>1
    <3> DEFINE x == upto[j - 1]
               y == upto[j]
    <3>8. x \in Nat /\ y \in Nat /\ y <= num /\ x < y
      BY <3>2
    <3>3. s[k] = e(j) /\ h[k - 1] = x + 1 /\ h[k] = y + 1
      BY <1>8, <1>9, <3>1
    <3>4. /\ Len(pieces[j]) = y - x
          /\ \A i \in 1 .. y - x : pieces[j][i] = log[x + i]
      BY <1>12
    <3> HIDE DEF x, y
    <3>5. (y + 1) - (x + 1) = y - x /\ \A i \in 1 .. y - x : (x + 1) - 1 + i = x + i
      BY <3>8
    <3>6. 1 <= x + 1 /\ x + 1 < y + 1 /\ y + 1 <= num + 1
      BY <1>1, <3>8
    <3>7. Delivers(e(j).data, x + 1, y + 1, num, log)
      BY <1>5, <3>4, <3>5, <3>6 DEF Delivers
    <3> QED BY <1>5, <3>3, <3>7
  <2> QED BY <2>1, <2>2
<1> QED BY <1>7, <1>8, <1>9, <1>10, <1>11 DEF num

-----------------------------------------------------------------------------
(* A connection is owned by the pid whose player object it was created for, *)
(* while GAMEGATE has the two together.                                     *)
Owned(pid, fd) == fd \in conlist /\ m_Pid[fd] = pid /\ playerlist[pid] = fd

(* What the game has sent to pid, once the mailbox is worked off.           *)
Progress(pid) == IF pid \in m_Players THEN Len(m_FrameCacheQueue) + 1 ELSE 0

Registered(pid, fd) ==
  fd_map[pid] = fd \/ \E k \in 1 .. Len(bcq) : bcq[k] = Register(pid, fd)

(* Routes, old and new, lead to connections that are closed or that their   *)
(* pid owns.                                                                *)
RouteInv ==
  \A pid \in Pids, fd \in Fds :
    Registered(pid, fd) => fd <= nfd /\ (fd \in conlist => Owned(pid, fd))

LinkInv ==
  \A pid \in Pids, fd \in Fds :
    Owned(pid, fd) => Link(bcq, fd_map[pid], client[fd], pid, fd,
                           Progress(pid), m_FrameCacheQueue)

NobodyInv ==
  \A fd \in Fds : (\A pid \in Pids : ~Owned(pid, fd)) => client[fd] = NewClient

(* What opens an FSM is sent to one player at a time.                       *)
SendInv ==
  \A k \in 1 .. Len(bcq) :
    bcq[k].cmd = "send" /\ bcq[k].data.proto # "gs2c_frame_data"
      => \E pid \in Pids : bcq[k].uuids = {pid}

LockInv == RouteInv /\ LinkInv /\ NobodyInv /\ SendInv

LEMMA OwnedStage ==
  ASSUME TypeOK, NEW pid \in Pids, NEW fd \in Fds, Stage(pid), Owned(pid, fd)
  PROVE  OutOfGame(pid) \/ GoingIn(pid)
<1>1. fd \in Connected(pid) /\ m_Pid[fd] = pid /\ nil \notin Pids
  BY GateFacts DEF Owned, Connected
<1> QED BY <1>1, LoggedInOnly DEF Starting, Calling, EnteringScene, Playing

(* What a step of GAMEGATE does to the connections that pids own: it opens  *)
(* one that nobody owns yet, closes one, or sends its pid to an agent.      *)
LEMMA OwnedGate ==
  ASSUME TypeOK, ServedInv, Allowed = {}, Gate, NEW fd \in Fds
  PROVE  /\ fd <= nfd => fd <= nfd' /\ (fd \in conlist' => fd \in conlist)
         /\ \/ fd \notin conlist' /\ client'[fd] = NewClient
            \/ /\ client'[fd] = client[fd]
               /\ \A pid \in Pids : Owned(pid, fd)' <=> Owned(pid, fd)
         /\ UNCHANGED <<bcq, fd_map, playerlist, m_Players, m_FrameCacheQueue>>
<1>1. /\ nfd \in Nat /\ conlist \subseteq 1 .. nfd /\ nil \notin Pids
      /\ m_Pid \in [Fds -> Pids \cup {nil}] /\ fd \in Nat
  BY GateFacts
<1>2. nil \notin Fds /\ client \in [Fds -> Client]
  BY FrameSyncAssumption DEF Fds, TypeOK
<1>3. GateInv /\ \A p \in Pids : Stage(p)
  BY DEF ServedInv
<1>4. ASSUME NEW p \in Pids, NewConnection(p)
      PROVE  /\ nfd' = nfd + 1 /\ conlist' = conlist \cup {nfd + 1}
             /\ m_Pid' = m_Pid /\ client' = client
             /\ UNCHANGED <<bcq, fd_map, playerlist, m_Players, m_FrameCacheQueue>>
  BY <1>4 DEF NewConnection, gameVars, agentVars
<1>5. CASE \E p \in Pids : NewConnection(p)
  <2>1. fd \notin conlist => \A pid \in Pids : m_Pid[fd] # pid
    BY <1>1, <1>3 DEF GateInv
  <2>2. fd <= nfd => fd # nfd + 1
    BY <1>1
  <2>3. \A pid \in Pids : Owned(pid, fd)' <=> Owned(pid, fd)
    BY <1>4, <1>5, <2>1 DEF Owned
  <2> QED BY <1>1, <1>4, <1>5, <2>2, <2>3
<1>6. ASSUME NEW x \in Fds, NEW p \in Pids, loginsuc(x, p)
      PROVE  /\ m_Pid[x] = nil /\ x \in conlist /\ playerlist[p] = nil
             /\ m_Pid' = [m_Pid EXCEPT ![x] = p]
             /\ UNCHANGED <<nfd, conlist, client, bcq, fd_map, playerlist,
                            m_Players, m_FrameCacheQueue>>
  <2>1. /\ <<x, p>> \in logins /\ x \in conlist /\ m_Pid[x] = nil
    BY <1>3, <1>6 DEF loginsuc, GateInv
  <2>2. x \in Connected(p)
    BY <2>1 DEF Connected
  <2>3. LogsIn(p, x)
    BY <1>1, <1>3, <2>1, <2>2, LogsInOnly
  <2> QED BY <1>6, <2>1, <2>3 DEF loginsuc, LogsIn, Absent, gameVars, agentVars
<1>7. CASE \E x \in Fds, p \in Pids : loginsuc(x, p)
  <2>1. PICK x \in Fds, p \in Pids : loginsuc(x, p)
    BY <1>7
  <2>2. /\ m_Pid'[x] = p /\ m_Pid[x] = nil /\ playerlist[p] = nil
        /\ \A z \in Fds : z # x => m_Pid'[z] = m_Pid[z]
        /\ UNCHANGED <<nfd, conlist, client, bcq, fd_map, playerlist,
                       m_Players, m_FrameCacheQueue>>
    <3>1. /\ m_Pid[x] = nil /\ playerlist[p] = nil
          /\ m_Pid' = [m_Pid EXCEPT ![x] = p]
          /\ UNCHANGED <<nfd, conlist, client, bcq, fd_map, playerlist,
                         m_Players, m_FrameCacheQueue>>
      BY <1>6, <2>1
    <3> QED BY <1>1, <3>1
  <2>3. CASE fd = x
    <3>1. \A z \in Pids : ~Owned(z, fd) /\ ~Owned(z, fd)'
      BY <1>1, <1>2, <2>2, <2>3 DEF Owned
    <3> QED BY <2>2, <3>1
  <2>4. CASE fd # x
    <3>1. \A z \in Pids : Owned(z, fd)' <=> Owned(z, fd)
      BY <2>2, <2>4 DEF Owned
    <3> QED BY <2>2, <3>1
  <2> QED BY <2>3, <2>4
<1>8. ASSUME NEW x \in Fds, DelConnection(x)
      PROVE  /\ conlist' = conlist \ {x} /\ m_Pid' = [m_Pid EXCEPT ![x] = nil]
             /\ client' = [client EXCEPT ![x] = NewClient]
             /\ UNCHANGED <<nfd, bcq, fd_map, playerlist, m_Players,
                            m_FrameCacheQueue>>
  BY <1>8 DEF DelConnection, gameVars, agentVars
<1>9. CASE \E x \in Fds : DelConnection(x)
  <2>1. PICK x \in Fds : DelConnection(x)
    BY <1>9
  <2>2. /\ conlist' = conlist \ {x} /\ client'[x] = NewClient
        /\ \A z \in Fds : z # x => m_Pid'[z] = m_Pid[z] /\ client'[z] = client[z]
        /\ UNCHANGED <<nfd, bcq, fd_map, playerlist, m_Players,
                       m_FrameCacheQueue>>
    BY <1>1, <1>2, <1>8, <2>1
  <2>3. CASE fd = x
    BY <2>2, <2>3 DEF Owned
  <2>4. CASE fd # x
    <3>1. \A z \in Pids : Owned(z, fd)' <=> Owned(z, fd)
      BY <2>2, <2>4 DEF Owned
    <3> QED BY <2>2, <2>4, <3>1
  <2> QED BY <2>3, <2>4
<1>10. CASE \E x \in Fds, action \in Controls : touch_key(x, action)
  <2>1. UNCHANGED <<nfd, conlist, m_Pid, client, bcq, fd_map, playerlist,
                    m_Players, m_FrameCacheQueue>>
    BY <1>10 DEF touch_key, gateVars, gameVars, agentVars
  <2>2. \A z \in Pids : Owned(z, fd)' <=> Owned(z, fd)
    BY <2>1 DEF Owned
  <2> QED BY <2>1, <2>2
<1> QED BY <1>5, <1>7, <1>9, <1>10 DEF Gate

LEMMA LockUnchanged ==
  ASSUME LockInv,
         UNCHANGED <<conlist, m_Pid, nfd, playerlist, bcq, fd_map, client,
                     m_Players, m_FrameCacheQueue>>
  PROVE  LockInv'
<1>1. \A pid \in Pids, fd \in Fds : /\ Owned(pid, fd)' <=> Owned(pid, fd)
                                    /\ Registered(pid, fd)' <=> Registered(pid, fd)
                                    /\ Progress(pid)' = Progress(pid)
  BY DEF Owned, Registered, Progress
<1>2. RouteInv' /\ NobodyInv' /\ SendInv'
  BY <1>1 DEF LockInv, RouteInv, NobodyInv, SendInv
<1>3. LinkInv'
  BY <1>1 DEF LockInv, LinkInv
<1> QED BY <1>2, <1>3 DEF LockInv

LEMMA LockGate ==
  ASSUME TypeOK, ServedInv, Allowed = {}, LockInv, Gate
  PROVE  LockInv'
<1>1. /\ UNCHANGED <<bcq, fd_map, playerlist, m_Players, m_FrameCacheQueue>>
      /\ \A pid \in Pids, fd \in Fds : /\ Registered(pid, fd)' <=> Registered(pid, fd)
                                       /\ Progress(pid)' = Progress(pid)
  <2>1. 1 \in Fds
    BY FrameSyncAssumption DEF Fds
  <2>2. UNCHANGED <<bcq, fd_map, playerlist, m_Players, m_FrameCacheQueue>>
    BY <2>1, OwnedGate
  <2> QED BY <2>2 DEF Registered, Progress
<1>2. SendInv'
  BY <1>1 DEF LockInv, SendInv
<1>3. ASSUME NEW pid \in Pids, NEW fd \in Fds, Registered(pid, fd)'
      PROVE  fd <= nfd' /\ (fd \in conlist' => Owned(pid, fd)')
  <2>1. fd <= nfd /\ (fd \in conlist => Owned(pid, fd))
    BY <1>1, <1>3 DEF LockInv, RouteInv
  <2> QED BY <2>1, OwnedGate
<1>4. ASSUME NEW pid \in Pids, NEW fd \in Fds, Owned(pid, fd)'
      PROVE  Link(bcq', fd_map'[pid], client'[fd], pid, fd, Progress(pid)',
                  m_FrameCacheQueue')
  <2>1. client'[fd] = client[fd] /\ Owned(pid, fd)
    <3>1. fd \in conlist'
      BY <1>4 DEF Owned
    <3> QED BY <1>4, <3>1, OwnedGate
  <2>2. Link(bcq, fd_map[pid], client[fd], pid, fd, Progress(pid), m_FrameCacheQueue)
    BY <2>1 DEF LockInv, LinkInv
  <2> QED BY <1>1, <2>1, <2>2
<1>5. ASSUME NEW fd \in Fds, \A pid \in Pids : ~Owned(pid, fd)'
      PROVE  client'[fd] = NewClient
  BY <1>5, OwnedGate DEF LockInv, NobodyInv
<1>6. RouteInv'
  BY <1>3 DEF RouteInv
<1>7. LinkInv'
  BY <1>4 DEF LinkInv
<1>8. NobodyInv'
  BY <1>5 DEF NobodyInv
<1> QED BY <1>2, <1>6, <1>7, <1>8 DEF LockInv

(* The game sends: no route and no owner changes.                           *)
LEMMA LockSends ==
  ASSUME TypeOK, LockInv, UNCHANGED <<conlist, m_Pid, nfd, playerlist, fd_map, client>>,
         NEW s \in Seq(BCMsg), bcq' = bcq \o s,
         \A k \in 1 .. Len(s) :
           /\ s[k].cmd = "send"
           /\ s[k].data.proto # "gs2c_frame_data" => \E pid \in Pids : s[k].uuids = {pid},
         \A pid \in Pids, fd \in Fds :
           Owned(pid, fd) => Link(bcq', fd_map[pid], client[fd], pid, fd,
                                  Progress(pid)', m_FrameCacheQueue')
  PROVE  LockInv'
<1>1. \A pid \in Pids, fd \in Fds : Owned(pid, fd)' <=> Owned(pid, fd)
  BY DEF Owned
<1>2. /\ \A k \in 1 .. Len(bcq') : \/ k \in 1 .. Len(bcq) /\ bcq'[k] = bcq[k]
                                   \/ \E i \in 1 .. Len(s) : bcq'[k] = s[i]
  <2>1. bcq \in Seq(BCMsg)
    BY DEF TypeOK
  <2> SUFFICES ASSUME NEW k \in 1 .. Len(bcq')
               PROVE  \/ k \in 1 .. Len(bcq) /\ bcq'[k] = bcq[k]
                      \/ \E i \in 1 .. Len(s) : bcq'[k] = s[i]
    OBVIOUS
  <2>2. CASE k <= Len(bcq)
    BY <2>1, <2>2
  <2>3. CASE ~(k <= Len(bcq))
    <3>1. k - Len(bcq) \in 1 .. Len(s) /\ bcq'[k] = s[k - Len(bcq)]
      BY <2>1, <2>3, ConcatProperties
    <3> QED BY <3>1
  <2> QED BY <2>2, <2>3
<1>3. \A pid \in Pids, fd \in Fds : Registered(pid, fd)' => Registered(pid, fd)
  BY <1>2 DEF Registered, Register
<1>4. RouteInv' /\ NobodyInv'
  BY <1>1, <1>3 DEF LockInv, RouteInv, NobodyInv
<1>5. SendInv'
  <2> SUFFICES ASSUME NEW k \in 1 .. Len(bcq'),
                      bcq'[k].cmd = "send" /\ bcq'[k].data.proto # "gs2c_frame_data"
               PROVE  \E pid \in Pids : bcq'[k].uuids = {pid}
    BY DEF SendInv
  <2>1. CASE k \in 1 .. Len(bcq) /\ bcq'[k] = bcq[k]
    BY <2>1 DEF LockInv, SendInv
  <2>2. CASE \E i \in 1 .. Len(s) : bcq'[k] = s[i]
    BY <2>2
  <2> QED BY <1>2, <2>1, <2>2
<1>6. LinkInv'
  BY <1>1 DEF LinkInv
<1> QED BY <1>4, <1>5, <1>6 DEF LockInv

-----------------------------------------------------------------------------
(* The agents: the route of a pid is set when its player object is created  *)
(* and cleared when it is gone.                                             *)
LEMMA LinkOther ==
  ASSUME NEW q \in Seq(BCMsg), NEW m \in BCMsg, m.cmd # "send", NEW route, NEW c,
         NEW pid, ~IsRoute(m, pid), NEW fd, NEW e \in Nat, NEW log \in Seq(FrameInfo),
         Link(q, route, c, pid, fd, e, log)
  PROVE  Link(Append(q, m), route, c, pid, fd, e, log)
<1>1. PICK b, t, g : LinkBy(q, route, c, pid, fd, e, t, log, b, g)
  BY DEF Link
<1> DEFINE s == <<m>>
           h == [k \in 0 .. 1 |-> e]
<1>2. /\ s \in Seq(BCMsg) /\ Len(s) = 1 /\ \A k \in 1 .. Len(s) : k = 1 /\ s[k] = m
      /\ Append(q, m) = q \o s
  OBVIOUS
<1>3. h \in [0 .. Len(s) -> Nat] /\ h[0] = e /\ h[1] = e
  BY <1>2
<1> HIDE DEF s, h
<1>4. \A k \in 1 .. Len(s) : /\ ~IsRoute(s[k], pid)
                             /\ Carries(s[k], pid, h[k - 1], h[k], t, log)
  BY <1>2, <1>3 DEF Carries
<1>5. h[Len(s)] = 0 => \A k \in 0 .. Len(s) : h[k] = 0
  <2>1. \A k \in 0 .. Len(s) : k = 0 \/ k = 1
    BY <1>2
  <2> QED BY <1>2, <1>3, <2>1
<1>6. Longer(log, log)
  BY DEF Longer
<1>7. Link(q \o s, route, c, pid, fd, h[Len(s)], log)
  BY <1>1, <1>2, <1>3, <1>4, <1>5, <1>6, LinkSent
<1> QED BY <1>2, <1>3, <1>7

LEMMA LockStart ==
  ASSUME TypeOK, ServedInv, LockInv, NEW a \in Agents, start(a)
  PROVE  LockInv'
<1> DEFINE m == Head(agentq[a])
           log == m_FrameCacheQueue
<1>1. /\ agentq[a] # <<>> /\ agentq' = [agentq EXCEPT ![a] = Tail(@)]
      /\ m.cmd = "start" /\ playerlist' = [playerlist EXCEPT ![m.pid] = m.fd]
      /\ bcq' = Append(bcq, Register(m.pid, m.fd))
      /\ UNCHANGED <<conlist, m_Pid, nfd, fd_map, client, m_Players, m_FrameCacheQueue>>
  BY DEF start, Receives, login, gameVars, gateVars
<1>2. m \in AgentMsg /\ m.pid \in Pids
  BY <1>1, Taken, AgentHead
<1>3. PICK p \in Pids, x \in Fds : Starting(p, x) /\ m = Start(p, x)
  <2>1. m \in Duty(m.pid)
    BY <1>1, <1>2 DEF Duty
  <2>2. m # Msg("kick", m.pid) /\ \A fd : m # Entering(m.pid, fd)
    BY <1>1 DEF Msg, Entering
  <2>3. Stage(m.pid) /\ HomeInv
    BY <1>2 DEF ServedInv
  <2> HIDE DEF m
  <2> QED BY <1>1, <1>2, <2>1, <2>2, <2>3, DutyIs DEF m
<1> HIDE DEF m
<1>4. /\ playerlist \in [Pids -> Fds \cup {nil}] /\ bcq \in Seq(BCMsg)
      /\ log \in Seq(FrameInfo) /\ m_Players \subseteq Pids
      /\ nil \notin Fds /\ nil \notin Pids
  <2>1. nil \notin Fds
    BY FrameSyncAssumption DEF Fds
  <2> QED BY <2>1, GateFacts DEF TypeOK, GameTypeOK
<1>5. /\ playerlist[p] = nil /\ x \in conlist /\ m_Pid[x] = p /\ p \notin m_Players
      /\ x <= nfd
  <2>1. x \in conlist /\ m_Pid[x] = p
    BY <1>3, <1>4 DEF Starting, LoggedIn, Connected
  <2>2. x <= nfd
    BY <2>1, GateFacts
  <2> QED BY <1>3, <2>1, <2>2 DEF Starting, Absent, OutOfGame
<1>6. /\ playerlist'[p] = x /\ bcq' = Append(bcq, Register(p, x))
      /\ \A z \in Pids : z # p => playerlist'[z] = playerlist[z]
  BY <1>1, <1>3, <1>4 DEF Start
<1> DEFINE r == Register(p, x)
<1>7. /\ r \in BCMsg /\ r.cmd = "register_fd" /\ r.uuid = p
  BY RouteTypes DEF Register
<1>8. \A z \in Pids, fd \in Fds : r = Register(z, fd) => z = p /\ fd = x
  BY DEF Register
<1> HIDE DEF r
<1>9. /\ \A k \in 1 .. Len(bcq') : \/ k \in 1 .. Len(bcq) /\ bcq'[k] = bcq[k]
                                   \/ bcq'[k] = r
  BY <1>4, <1>6, <1>7 DEF r
<1>10. ~Registered(p, x)
  BY <1>4, <1>5 DEF LockInv, RouteInv, Owned
<1>11. /\ \A z \in Pids, fd \in Fds : z # p => (Owned(z, fd)' <=> Owned(z, fd))
       /\ \A fd \in Fds : ~Owned(p, fd) /\ (Owned(p, fd)' <=> fd = x)
  BY <1>1, <1>4, <1>5, <1>6 DEF Owned
<1>12. ASSUME NEW z \in Pids, NEW fd \in Fds, Registered(z, fd)'
       PROVE  fd <= nfd' /\ (fd \in conlist' => Owned(z, fd)')
  <2>1. CASE Registered(z, fd)
    <3>1. fd <= nfd /\ (fd \in conlist => Owned(z, fd))
      BY <2>1 DEF LockInv, RouteInv
    <3> QED BY <1>1, <1>11, <3>1
  <2>2. CASE ~Registered(z, fd)
    <3>1. z = p /\ fd = x
      BY <1>1, <1>8, <1>9, <1>12, <2>2 DEF Registered
    <3> QED BY <1>1, <1>5, <1>11, <3>1
  <2> QED BY <2>1, <2>2
<1>13. ASSUME NEW z \in Pids, NEW fd \in Fds, Owned(z, fd)'
       PROVE  Link(bcq', fd_map'[z], client'[fd], z, fd, Progress(z)', log')
  <2>1. Progress(z)' = Progress(z) /\ Progress(z) \in Nat
    BY <1>1, <1>4 DEF Progress
  <2>2. CASE z = p
    <3>1. fd = x /\ Progress(p) = 0
      BY <1>5, <1>11, <1>13, <2>2 DEF Progress
    <3>2. client[x] = NewClient
      <4>1. \A u \in Pids : ~Owned(u, x)
        BY <1>4, <1>5 DEF Owned
      <4> QED BY <4>1 DEF LockInv, NobodyInv
    <3>3. fd_map[p] # x /\ \A k \in 1 .. Len(bcq) : bcq[k] # Register(p, x)
      BY <1>10 DEF Registered
    <3>4. Link(Append(bcq, Register(p, x)), fd_map[p], client[x], p, x, 0, log)
      BY <1>4, <3>2, <3>3, LinkStarts
    <3> QED BY <1>1, <1>6, <2>1, <2>2, <3>1, <3>4
  <2>3. CASE z # p
    <3>1. Link(bcq, fd_map[z], client[fd], z, fd, Progress(z), log)
      BY <1>11, <1>13, <2>3 DEF LockInv, LinkInv
    <3>2. r.cmd # "send" /\ ~IsRoute(r, z)
      BY <1>7, <2>3 DEF IsRoute
    <3>3. Link(Append(bcq, r), fd_map[z], client[fd], z, fd, Progress(z), log)
      BY <1>4, <1>7, <2>1, <3>1, <3>2, LinkOther
    <3> QED BY <1>1, <1>6, <2>1, <3>3 DEF r
  <2> QED BY <2>2, <2>3
<1>14. ASSUME NEW fd \in Fds, \A z \in Pids : ~Owned(z, fd)'
       PROVE  client'[fd] = NewClient
  BY <1>1, <1>11, <1>14 DEF LockInv, NobodyInv
<1>15. SendInv'
  BY <1>7, <1>9 DEF LockInv, SendInv
<1>16. RouteInv'
  BY <1>12 DEF RouteInv
<1>17. LinkInv'
  BY <1>13 DEF LinkInv
<1>18. NobodyInv'
  BY <1>14 DEF NobodyInv
<1> QED BY <1>15, <1>16, <1>17, <1>18 DEF LockInv

LEMMA LockKick ==
  ASSUME TypeOK, ServedInv, LockInv, NEW a \in Agents, kick(a)
  PROVE  LockInv'
<1> DEFINE m == Head(agentq[a])
           log == m_FrameCacheQueue
<1>1. /\ agentq[a] # <<>> /\ agentq' = [agentq EXCEPT ![a] = Tail(@)]
      /\ m.cmd = "kick"
      /\ UNCHANGED <<conlist, m_Pid, nfd, fd_map, client, m_Players, m_FrameCacheQueue>>
  BY DEF kick, Receives, gameVars, gateVars
<1>2. m \in AgentMsg /\ m.pid \in Pids
  BY <1>1, Taken, AgentHead
<1>3. PICK p \in Pids : p = m.pid /\ Kicked(p)
  <2>1. m \in Duty(m.pid)
    BY <1>1, <1>2 DEF Duty
  <2>2. \A fd : m # Start(m.pid, fd) /\ m # Entering(m.pid, fd)
    BY <1>1 DEF Start, Entering
  <2>3. Stage(m.pid) /\ HomeInv
    BY <1>2 DEF ServedInv
  <2> HIDE DEF m
  <2> QED BY <1>1, <1>2, <2>1, <2>2, <2>3, DutyIs DEF m
<1>4. /\ playerlist' = [playerlist EXCEPT ![p] = nil]
      /\ bcq' = Append(bcq, Unregister(p))
  BY <1>3 DEF kick, quit, Kicked
<1> HIDE DEF m
<1>5. /\ playerlist \in [Pids -> Fds \cup {nil}] /\ bcq \in Seq(BCMsg)
      /\ log \in Seq(FrameInfo)
  BY DEF TypeOK, GameTypeOK
<1> DEFINE r == Unregister(p)
<1>6. /\ r \in BCMsg /\ r.cmd = "unregister_fd" /\ r.uuid = p
  BY DEF Unregister, BCMsg
<1>7. \A z \in Pids, fd \in Fds : r # Register(z, fd)
  BY <1>6 DEF Register
<1> HIDE DEF r
<1>8. \A k \in 1 .. Len(bcq') : \/ k \in 1 .. Len(bcq) /\ bcq'[k] = bcq[k]
                                \/ bcq'[k] = r
  BY <1>4, <1>5, <1>6 DEF r
<1>9. /\ \A fd \in Fds : ~Owned(p, fd)
      /\ \A z \in Pids, fd \in Fds : Owned(z, fd)' <=> Owned(z, fd)
  <2>1. \A fd \in Fds : ~(fd \in conlist /\ m_Pid[fd] = p)
    BY <1>3 DEF Kicked, Unconnected, Connected
  <2> QED BY <1>1, <1>4, <1>5, <2>1 DEF Owned
<1>10. ASSUME NEW z \in Pids, NEW fd \in Fds, Owned(z, fd)'
       PROVE  Link(bcq', fd_map'[z], client'[fd], z, fd, Progress(z)', log')
  <2>1. Progress(z)' = Progress(z) /\ Progress(z) \in Nat
    BY <1>1, <1>5 DEF Progress
  <2>2. Owned(z, fd) /\ z # p
    BY <1>9, <1>10
  <2>3. Link(bcq, fd_map[z], client[fd], z, fd, Progress(z), log)
    BY <2>2 DEF LockInv, LinkInv
  <2>4. r.cmd # "send" /\ ~IsRoute(r, z)
    BY <1>6, <2>2 DEF IsRoute
  <2>5. Link(Append(bcq, r), fd_map[z], client[fd], z, fd, Progress(z), log)
    BY <1>5, <1>6, <2>1, <2>3, <2>4, LinkOther
  <2> QED BY <1>1, <1>4, <2>1, <2>5 DEF r
<1>11. \A z \in Pids, fd \in Fds : Registered(z, fd)' => Registered(z, fd)
  BY <1>1, <1>7, <1>8 DEF Registered
<1>12. RouteInv' /\ NobodyInv'
  BY <1>1, <1>9, <1>11 DEF LockInv, RouteInv, NobodyInv
<1>13. SendInv'
  BY <1>6, <1>8 DEF LockInv, SendInv
<1>14. LinkInv'
  BY <1>10 DEF LinkInv
<1> QED BY <1>12, <1>13, <1>14 DEF LockInv

-----------------------------------------------------------------------------
(* The scene: who owns a connection enters once, and is not on the way out. *)
LEMMA OwnerEnters ==
  ASSUME TypeOK, NEW pid \in Pids, NEW fd \in Fds, Stage(pid), Owned(pid, fd),
         sceneq # <<>>, Head(sceneq) \in Moves(pid)
  PROVE  Head(sceneq) = Enter(pid) /\ pid \notin m_Players
<1>1. sceneq \in Seq(SceneMsg)
  BY DEF TypeOK
<1>2. ~Moving(pid, <<>>)
  BY <1>1, DutyOnly DEF Moving
<1>3. Moving(pid, <<Enter(pid)>>) /\ pid \notin m_Players
  BY <1>2, OwnedStage DEF OutOfGame, GoingIn
<1> QED BY <1>1, <1>3, DutyOnly DEF Moving

LEMMA LockEnter ==
  ASSUME TypeOK, ServedInv, LockInv, scene_enter_player
  PROVE  LockInv'
<1> DEFINE m == Head(sceneq)
           p == m.pid
           log == m_FrameCacheQueue
<1>1. /\ sceneq # <<>> /\ m.cmd = "enter_player" /\ add_player(p)
      /\ m_Players' = m_Players \cup {p} /\ m_FrameCacheQueue' = m_FrameCacheQueue
      /\ UNCHANGED <<conlist, m_Pid, nfd, playerlist, fd_map, client>>
  BY DEF scene_enter_player, Receives, add_player, outsideScene, gateVars, agentVars
<1>2. /\ sceneq \in Seq(SceneMsg) /\ bcq \in Seq(BCMsg) /\ GameTypeOK
      /\ log \in Seq(FrameInfo) /\ Len(log) \in Nat
  BY DEF TypeOK, GameTypeOK
<1>3. m \in SceneMsg /\ p \in Pids /\ m \in Moves(p)
  BY <1>1, <1>2, TailType, SceneHead DEF Moves
<1> HIDE DEF p, m
<1>4. PICK s \in Seq(BCMsg) : \E h \in [0 .. Len(s) -> Nat] :
        /\ bcq' = bcq \o s
        /\ h[0] = 0 /\ h[Len(s)] = Len(log) + 1
        /\ \A k \in 1 .. Len(s) :
             /\ s[k].cmd = "send" /\ s[k].uuids = {p}
             /\ Delivers(s[k].data, h[k - 1], h[k], Len(log), log)
  BY <1>1, <1>2, <1>3, EntersLog
<1>5. PICK h \in [0 .. Len(s) -> Nat] :
        /\ bcq' = bcq \o s
        /\ h[0] = 0 /\ h[Len(s)] = Len(log) + 1
        /\ \A k \in 1 .. Len(s) :
             /\ s[k].cmd = "send" /\ s[k].uuids = {p}
             /\ Delivers(s[k].data, h[k - 1], h[k], Len(log), log)
  BY <1>4
<1>6. \A k \in 1 .. Len(s) : \A z : ~IsRoute(s[k], z)
  BY <1>5 DEF IsRoute
<1>7. Longer(log, log)
  BY <1>2 DEF Longer
<1>8. ASSUME NEW z \in Pids, NEW fd \in Fds, Owned(z, fd)
      PROVE  Link(bcq', fd_map[z], client[fd], z, fd, Progress(z)', log')
  <2>1. Link(bcq, fd_map[z], client[fd], z, fd, Progress(z), log)
    BY <1>8 DEF LockInv, LinkInv
  <2>2. CASE z = p
    <3>1. z \notin m_Players
      BY <1>1, <1>3, <1>8, <2>2, OwnerEnters DEF ServedInv, m
    <3>2. Progress(z) = 0 /\ Progress(z)' = Len(log) + 1
      BY <1>1, <2>2, <3>1 DEF Progress
    <3>3. Len(log) \in 0 .. Len(log)
      BY <1>2
    <3>4. Link(bcq, fd_map[z], client[fd], z, fd, 0, log)
      BY <2>1, <3>2
    <3>5. PICK b, g : LinkBy(bcq, fd_map[z], client[fd], z, fd, 0, Len(log), log, b, g)
      BY <1>2, <3>3, <3>4, LinkEnters
    <3>6. \A k \in 1 .. Len(s) : Carries(s[k], z, h[k - 1], h[k], Len(log), log)
      BY <1>5, <2>2 DEF Carries
    <3>7. h[Len(s)] # 0
      BY <1>2, <1>5
    <3>8. Link(bcq \o s, fd_map[z], client[fd], z, fd, h[Len(s)], log)
      BY <1>2, <1>5, <1>6, <1>7, <3>5, <3>6, <3>7, LinkSent
    <3> QED BY <1>1, <1>5, <3>2, <3>8
  <2>3. CASE z # p
    <3>1. Progress(z)' = Progress(z) /\ Progress(z) \in Nat
      BY <1>1, <1>2, <2>3 DEF Progress
    <3>2. PICK b, t, g :
            LinkBy(bcq, fd_map[z], client[fd], z, fd, Progress(z), t, log, b, g)
      BY <2>1 DEF Link
    <3> DEFINE f == [k \in 0 .. Len(s) |-> Progress(z)]
    <3>3. /\ f \in [0 .. Len(s) -> Nat] /\ f[0] = Progress(z)
          /\ f[Len(s)] = Progress(z) /\ \A k \in 0 .. Len(s) : f[k] = Progress(z)
      BY <3>1
    <3> HIDE DEF f
    <3>4. \A k \in 1 .. Len(s) : Carries(s[k], z, f[k - 1], f[k], t, log)
      <4>1. \A k \in 1 .. Len(s) : k \in 0 .. Len(s) /\ k - 1 \in 0 .. Len(s)
        OBVIOUS
      <4> QED BY <1>5, <2>3, <3>3, <4>1 DEF Carries
    <3>5. f[Len(s)] = 0 => \A k \in 0 .. Len(s) : f[k] = 0
      BY <3>3
    <3>6. Link(bcq \o s, fd_map[z], client[fd], z, fd, f[Len(s)], log)
      BY <1>2, <1>6, <1>7, <3>2, <3>3, <3>4, <3>5, LinkSent
    <3> QED BY <1>1, <1>5, <3>1, <3>3, <3>6
  <2> QED BY <2>2, <2>3
<1>9. \A k \in 1 .. Len(s) :
        /\ s[k].cmd = "send"
        /\ s[k].data.proto # "gs2c_frame_data" => \E z \in Pids : s[k].uuids = {z}
  BY <1>3, <1>5
<1> QED BY <1>1, <1>5, <1>8, <1>9, LockSends

LEMMA LockLeave ==
  ASSUME TypeOK, ServedInv, LockInv, scene_leave_player
  PROVE  LockInv'
<1> DEFINE m == Head(sceneq)
           p == m.pid
<1>1. /\ sceneq # <<>> /\ m.cmd = "leave_player"
      /\ m_Players' \in {m_Players, m_Players \ {p}}
      /\ UNCHANGED <<conlist, m_Pid, nfd, playerlist, bcq, fd_map, client,
                     m_FrameCacheQueue>>
  BY DEF scene_leave_player, Receives, del_player, outsideScene, gateVars, agentVars
<1>2. m \in Moves(p) /\ \A z : m # Enter(z)
  <2>1. m \in SceneMsg
    BY <1>1, TailType DEF TypeOK
  <2> QED BY <1>1, <2>1 DEF Moves, Enter, Msg
<1>3. /\ \A z \in Pids, fd \in Fds : /\ Owned(z, fd)' <=> Owned(z, fd)
                                     /\ Registered(z, fd)' <=> Registered(z, fd)
      /\ \A z : z # p => Progress(z)' = Progress(z)
  BY <1>1 DEF Owned, Registered, Progress
<1> HIDE DEF p, m
<1>4. ASSUME NEW z \in Pids, NEW fd \in Fds, Owned(z, fd)
      PROVE  Progress(z)' = Progress(z)
  <2>1. z # p
    BY <1>1, <1>2, <1>4, OwnerEnters DEF ServedInv, m
  <2> QED BY <1>3, <2>1
<1>5. LinkInv'
  BY <1>1, <1>3, <1>4 DEF LockInv, LinkInv
<1>6. RouteInv' /\ NobodyInv' /\ SendInv'
  BY <1>1, <1>3 DEF LockInv, RouteInv, NobodyInv, SendInv
<1> QED BY <1>5, <1>6 DEF LockInv

(* A tick's frame goes to everybody who has the log up to it.               *)
LEMMA LockFrame ==
  ASSUME TypeOK, LockInv, FrameSkip
  PROVE  LockInv'
<1> DEFINE log == m_FrameCacheQueue
           frame == [frame_number |-> m_CurFrameNo, ctrl_data |-> m_CtrlDataQueue]
           m == SendTo(m_Players, FrameData(frame))
           more == Append(log, frame)
           s == <<m>>
<1>1. /\ bcq' = Append(bcq, m) /\ log' = more
      /\ UNCHANGED <<conlist, m_Pid, nfd, playerlist, fd_map, client, m_Players>>
  BY DEF FrameSkip, frame_skip, outsideScene, gateVars, agentVars
<1>2. /\ bcq \in Seq(BCMsg) /\ log \in Seq(FrameInfo) /\ Len(log) \in Nat
      /\ frame \in FrameInfo /\ m_Players \in SUBSET Pids
  BY DEF TypeOK, GameTypeOK, FrameInfo
<1> HIDE DEF frame
<1>3. /\ m \in BCMsg /\ m.cmd = "send" /\ m.uuids = m_Players
      /\ m.data.proto = "gs2c_frame_data" /\ m.data.frame_data = frame
  <2>1. <<>> \in Seq(FrameInfo) /\ 0 \in Nat
    OBVIOUS
  <2>2. m \in BCMsg
    BY <1>2, <2>1, PackageTypes
  <2> QED BY <2>2 DEF SendTo, FrameData
<1> HIDE DEF m
<1>4. /\ more \in Seq(FrameInfo) /\ Len(more) = Len(log) + 1
      /\ more[Len(log) + 1] = frame /\ Longer(log, more)
  BY <1>2 DEF Longer
<1> HIDE DEF more
<1>5. /\ s \in Seq(BCMsg) /\ bcq' = bcq \o s /\ Len(s) = 1
      /\ \A k \in 1 .. Len(s) : k = 1 /\ s[k] = m
  BY <1>1, <1>2, <1>3
<1> HIDE DEF s
<1>6. ASSUME NEW z \in Pids, NEW fd \in Fds, Owned(z, fd)
      PROVE  Link(bcq', fd_map[z], client[fd], z, fd, Progress(z)', log')
  <2> DEFINE e == Progress(z)
             f == IF z \in m_Players THEN Len(log) + 2 ELSE 0
             h == [k \in 0 .. 1 |-> IF k = 0 THEN e ELSE f]
  <2>1. PICK b, t, g : LinkBy(bcq, fd_map[z], client[fd], z, fd, e, t, log, b, g)
    BY <1>6 DEF LockInv, LinkInv, Link
  <2>2. /\ e = (IF z \in m_Players THEN Len(log) + 1 ELSE 0) /\ Progress(z)' = f
        /\ e \in Nat /\ f \in Nat /\ (f = 0 => e = 0)
    BY <1>1, <1>2, <1>4 DEF Progress
  <2>3. t \in 0 .. Len(log)
    BY <2>1 DEF LinkBy
  <2>4. Carries(m, z, e, f, t, more)
    <3>1. CASE z \in m_Players
      <4>1. Delivers(m.data, e, f, t, more)
        BY <1>2, <1>3, <1>4, <2>2, <2>3, <3>1 DEF Delivers
      <4> QED BY <1>3, <3>1, <4>1 DEF Carries
    <3>2. CASE z \notin m_Players
      BY <1>3, <2>2, <3>2 DEF Carries
    <3> QED BY <3>1, <3>2
  <2> HIDE DEF e, f
  <2>5. /\ h \in [0 .. Len(s) -> Nat] /\ h[0] = e /\ h[1] = f
    BY <1>5, <2>2
  <2> HIDE DEF h
  <2>6. \A k \in 1 .. Len(s) : /\ ~IsRoute(s[k], z)
                               /\ Carries(s[k], z, h[k - 1], h[k], t, more)
    BY <1>3, <1>5, <2>4, <2>5 DEF IsRoute
  <2>7. h[Len(s)] = 0 => \A k \in 0 .. Len(s) : h[k] = 0
    <3>1. \A k \in 0 .. Len(s) : k = 0 \/ k = 1
      BY <1>5
    <3> QED BY <1>5, <2>2, <2>5, <3>1
  <2>8. Link(bcq \o s, fd_map[z], client[fd], z, fd, h[Len(s)], more)
    BY <1>2, <1>4, <1>5, <2>1, <2>5, <2>6, <2>7, LinkSent
  <2> QED BY <1>1, <1>5, <2>2, <2>5, <2>8
<1>7. \A k \in 1 .. Len(s) :
        /\ s[k].cmd = "send"
        /\ s[k].data.proto # "gs2c_frame_data" => \E z \in Pids : s[k].uuids = {z}
  BY <1>3, <1>5
<1> QED BY <1>1, <1>5, <1>6, <1>7, LockSends

-----------------------------------------------------------------------------
(* The broadcast service.                                                   *)
LEMMA RoutesTo ==
  ASSUME TypeOK, Broadcast
  PROVE  /\ bcq # <<>> /\ bcq' = Tail(bcq)
         /\ Head(bcq) = bcq[1] /\ Head(bcq) \in BCMsg /\ 1 \in 1 .. Len(bcq)
         /\ \A pid \in Pids : fd_map'[pid] = IF IsRoute(Head(bcq), pid)
                                             THEN Says(Head(bcq)) ELSE fd_map[pid]
         /\ \A fd \in Fds :
              client'[fd] = IF /\ Head(bcq).cmd = "send" /\ fd \in conlist
                               /\ \E uuid \in Head(bcq).uuids : fd_map[uuid] = fd
                            THEN _dispatch_request(client[fd], Head(bcq).data)
                            ELSE client[fd]
         /\ UNCHANGED <<conlist, m_Pid, nfd, playerlist, m_Players, m_FrameCacheQueue>>
<1>1. bcq # <<>> /\ bcq' = Tail(bcq)
  BY DEF Broadcast, register_fd, unregister_fd, send_to_list, Receives
<1> DEFINE m == Head(bcq)
<1>2. /\ m \in BCMsg /\ fd_map \in [Pids -> Fds \cup {nil}]
      /\ m = bcq[1] /\ 1 \in 1 .. Len(bcq)
  BY <1>1 DEF TypeOK
<1>3. \/ m.cmd = "register_fd" /\ fd_map' = [fd_map EXCEPT ![m.uuid] = m.fd]
      \/ m.cmd = "unregister_fd" /\ fd_map' = [fd_map EXCEPT ![m.uuid] = nil]
      \/ m.cmd = "send" /\ fd_map' = fd_map
  BY DEF Broadcast, register_fd, unregister_fd, send_to_list, Receives
<1>4. m.cmd \in {"register_fd", "unregister_fd"} => m.uuid \in Pids
  BY <1>2, BCHead
<1>5. \A fd \in Fds :
        client'[fd] = IF /\ m.cmd = "send" /\ fd \in conlist
                         /\ \E uuid \in m.uuids : fd_map[uuid] = fd
                      THEN _dispatch_request(client[fd], m.data) ELSE client[fd]
  <2>1. CASE register_fd \/ unregister_fd
    BY <2>1 DEF register_fd, unregister_fd, Receives
  <2>2. CASE send_to_list
    <3>1. m.cmd = "send"
      BY <2>2 DEF send_to_list, Receives
    <3>2. client' = [fd \in Fds |->
                       IF fd \in conlist /\ \E uuid \in m.uuids : fd_map[uuid] = fd
                       THEN _dispatch_request(client[fd], m.data) ELSE client[fd]]
      BY <2>2 DEF send_to_list
    <3> HIDE DEF m
    <3> QED BY <3>1, <3>2
  <2> QED BY <2>1, <2>2 DEF Broadcast
<1>6. UNCHANGED <<conlist, m_Pid, nfd, playerlist, m_Players, m_FrameCacheQueue>>
  BY DEF Broadcast, register_fd, unregister_fd, send_to_list, outsideBC, gateVars,
         gameVars, agentVars
<1> HIDE DEF m
<1>7. \A pid \in Pids : fd_map'[pid] = IF IsRoute(m, pid) THEN Says(m)
                                       ELSE fd_map[pid]
  BY <1>2, <1>3, <1>4 DEF IsRoute, Says
<1> QED BY <1>1, <1>2, <1>5, <1>6, <1>7 DEF m

(* A package gets to the connection of a player only if the player owns it. *)
LEMMA OwnerServed ==
  ASSUME TypeOK, RouteInv, NEW fd \in Fds, fd \in conlist, NEW uuids \in SUBSET Pids,
         NEW uuid \in uuids, fd_map[uuid] = fd
  PROVE  /\ Owned(uuid, fd)
         /\ \A pid \in Pids : Owned(pid, fd) => pid = uuid
BY DEF RouteInv, Registered, Owned

LEMMA LockBroadcast ==
  ASSUME TypeOK, LockInv, Broadcast
  PROVE  LockInv'
<1> DEFINE m == Head(bcq)
           log == m_FrameCacheQueue
<1>1. /\ bcq \in Seq(BCMsg) /\ log \in Seq(FrameInfo) /\ client \in [Fds -> Client]
      /\ nil \notin Fds
  BY FrameSyncAssumption DEF TypeOK, GameTypeOK, Fds
<1>2. /\ bcq # <<>> /\ bcq' = Tail(bcq) /\ m = bcq[1] /\ m \in BCMsg
      /\ 1 \in 1 .. Len(bcq)
      /\ \A pid \in Pids : fd_map'[pid] = IF IsRoute(m, pid) THEN Says(m)
                                          ELSE fd_map[pid]
      /\ \A fd \in Fds :
           client'[fd] = IF /\ m.cmd = "send" /\ fd \in conlist
                            /\ \E uuid \in m.uuids : fd_map[uuid] = fd
                         THEN _dispatch_request(client[fd], m.data) ELSE client[fd]
      /\ UNCHANGED <<conlist, m_Pid, nfd, playerlist, m_Players, m_FrameCacheQueue>>
  BY RoutesTo
<1>3. \A k \in 1 .. Len(bcq') : k + 1 \in 1 .. Len(bcq) /\ bcq'[k] = bcq[k + 1]
  BY <1>1, <1>2
<1>4. m.cmd = "send" => m.uuids \in SUBSET Pids
  BY <1>2, BCHead
<1>5. /\ \A pid \in Pids, fd \in Fds : Owned(pid, fd)' <=> Owned(pid, fd)
      /\ \A pid : Progress(pid)' = Progress(pid)
  BY <1>2 DEF Owned, Progress
<1>6. m.cmd = "register_fd" => m = Register(m.uuid, m.fd)
  BY <1>2 DEF BCMsg, Register
<1> HIDE DEF m
<1>7. ASSUME NEW pid \in Pids, NEW fd \in Fds, Registered(pid, fd)'
      PROVE  Registered(pid, fd)
  <2>1. CASE fd_map'[pid] = fd
    <3>1. CASE IsRoute(m, pid)
      <4>1. Says(m) = fd
        BY <1>2, <2>1, <3>1
      <4>2. bcq[1] = Register(pid, fd)
        BY <1>1, <1>2, <1>6, <3>1, <4>1 DEF IsRoute, Says
      <4> QED BY <1>2, <4>2 DEF Registered
    <3>2. CASE ~IsRoute(m, pid)
      BY <1>2, <2>1, <3>2 DEF Registered
    <3> QED BY <3>1, <3>2
  <2>2. CASE fd_map'[pid] # fd
    <3>1. PICK k \in 1 .. Len(bcq') : bcq'[k] = Register(pid, fd)
      BY <1>7, <2>2 DEF Registered, Register
    <3>2. k + 1 \in 1 .. Len(bcq) /\ bcq[k + 1] = Register(pid, fd)
      BY <1>3, <3>1
    <3> QED BY <3>2 DEF Registered
  <2> QED BY <2>1, <2>2
<1>8. ASSUME NEW pid \in Pids, NEW fd \in Fds, Owned(pid, fd)'
      PROVE  Link(bcq', fd_map'[pid], client'[fd], pid, fd, Progress(pid)', log')
  <2>1. Owned(pid, fd) /\ fd \in conlist
    BY <1>5, <1>8 DEF Owned
  <2>2. Link(bcq, fd_map[pid], client[fd], pid, fd, Progress(pid), log)
    BY <2>1 DEF LockInv, LinkInv
  <2>3. m.cmd = "send" => ((\E uuid \in m.uuids : fd_map[uuid] = fd)
                             <=> (pid \in m.uuids /\ fd_map[pid] = fd))
    BY <1>4, <2>1, OwnerServed DEF LockInv
  <2>4. client'[fd] = IF m.cmd = "send" /\ pid \in m.uuids /\ fd_map[pid] = fd
                      THEN _dispatch_request(client[fd], m.data) ELSE client[fd]
    BY <1>2, <2>1, <2>3
  <2>5. fd_map'[pid] = IF IsRoute(m, pid) THEN Says(m) ELSE fd_map[pid]
    BY <1>2
  <2>6. client[fd] \in Client
    BY <1>1
  <2>7. Link(Tail(bcq), fd_map'[pid], client'[fd], pid, fd, Progress(pid), log)
    BY <1>1, <1>2, <2>2, <2>4, <2>5, <2>6, LinkTaken DEF m
  <2> QED BY <1>2, <1>5, <2>7
<1>9. ASSUME NEW fd \in Fds, \A pid \in Pids : ~Owned(pid, fd)'
      PROVE  client'[fd] = NewClient
  <2>1. ~(m.cmd = "send" /\ fd \in conlist /\ \E uuid \in m.uuids : fd_map[uuid] = fd)
    BY <1>4, <1>5, <1>9, OwnerServed DEF LockInv
  <2>2. client'[fd] = client[fd]
    BY <1>2, <2>1
  <2> QED BY <1>5, <1>9, <2>2 DEF LockInv, NobodyInv
<1>10. SendInv'
  BY <1>3 DEF LockInv, SendInv
<1>11. RouteInv'
  BY <1>2, <1>5, <1>7 DEF LockInv, RouteInv
<1>12. LinkInv'
  BY <1>8 DEF LinkInv
<1>13. NobodyInv'
  BY <1>9 DEF NobodyInv
<1> QED BY <1>10, <1>11, <1>12, <1>13 DEF LockInv

-----------------------------------------------------------------------------
(* The clients.                                                             *)
LEMMA QueueRuns ==
  ASSUME NEW S, NEW a \in Seq(S), NEW q \in Seq(S), q # <<>>
  PROVE  Append(a, Head(q)) \o Tail(q) = a \o q
<1> DEFINE m == Len(a)
           n == Len(q)
           u == Append(a, Head(q))
           v == Tail(q)
           r == u \o v
           s == a \o q
<1>1. /\ n \in Nat /\ n >= 1 /\ m \in Nat /\ Head(q) = q[1] /\ Head(q) \in S
      /\ v \in Seq(S) /\ Len(v) = n - 1 /\ \A k \in 1 .. n - 1 : v[k] = q[k + 1]
  OBVIOUS
<1>2. /\ u \in Seq(S) /\ Len(u) = m + 1 /\ u[m + 1] = q[1]
      /\ \A k \in 1 .. m : u[k] = a[k]
  BY <1>1
<1> HIDE DEF u, v, m, n
<1>3. /\ r \in Seq(S) /\ s \in Seq(S) /\ Len(r) = m + n /\ Len(s) = m + n
  <2>1. s \in Seq(S) /\ Len(s) = m + n
    BY DEF m, n
  <2>2. u \in Seq(S) /\ v \in Seq(S) /\ Len(u) = m + 1 /\ Len(v) = n - 1
    BY <1>1, <1>2
  <2>3. r \in Seq(S) /\ Len(r) = Len(u) + Len(v)
    BY <2>2, ConcatProperties
  <2> QED BY <1>1, <2>1, <2>2, <2>3
<1>4. ASSUME NEW i \in 1 .. m + n PROVE r[i] = s[i]
  <2>1. /\ i <= m + 1 => r[i] = u[i]
        /\ ~(i <= m + 1) => r[i] = v[i - (m + 1)]
    BY <1>1, <1>2, <1>3, <1>4, ConcatProperties
  <2>2. /\ i <= m => s[i] = a[i]
        /\ ~(i <= m) => s[i] = q[i - m]
    <3>1. Len(a) = m /\ i \in 1 .. Len(a) + Len(q)
      BY <1>3, <1>4 DEF m, n
    <3> QED BY <3>1, ConcatProperties
  <2> HIDE DEF r, s
  <2>3. CASE i <= m
    BY <1>1, <1>2, <2>1, <2>2, <2>3
  <2>4. CASE i = m + 1
    BY <1>1, <1>2, <2>1, <2>2, <2>4
  <2>5. CASE i > m + 1
    <3>1. i - (m + 1) \in 1 .. n - 1 /\ (i - (m + 1)) + 1 = i - m
      BY <1>1, <2>5
    <3>2. v[i - (m + 1)] = q[i - m]
      BY <1>1, <3>1
    <3>3. ~(i <= m) /\ ~(i <= m + 1)
      BY <1>1, <2>5
    <3> QED BY <2>1, <2>2, <3>2, <3>3
  <2> QED BY <1>1, <2>3, <2>4, <2>5
<1> HIDE DEF r, s
<1>5. r = s
  BY <1>3, <1>4, SeqEqual
<1> QED BY <1>5 DEF r, s, u, v

(* A client that executes a frame has received what it had.                 *)
Executes(c) == [c EXCEPT !.executed = Append(@, Head(c.m_FrameQueue)),
                         !.m_FrameQueue = Tail(@)]

LEMMA ClientRuns ==
  ASSUME NEW c \in Client, c.seededAt # nil, c.m_FrameQueue # <<>>,
         NEW x \in Nat, NEW t, NEW log, ClientAt(c, x, t, log)
  PROVE  ClientAt(Executes(c), x, t, log)
<1> DEFINE r == Executes(c)
<1>1. x # 0
  BY DEF ClientAt, NewClient
<1>2. /\ c.executed \in Seq(FrameInfo) /\ c.m_FrameQueue \in Seq(FrameInfo)
      /\ r.executed = Append(c.executed, Head(c.m_FrameQueue))
      /\ r.m_FrameQueue = Tail(c.m_FrameQueue)
      /\ r.m_FsmInitData = c.m_FsmInitData /\ r.seededAt = c.seededAt
  BY DEF Client, Executes
<1> HIDE DEF r
<1>3. Received(r) = Received(c)
  BY <1>2, QueueRuns DEF Received
<1>4. ~(x <= t)
  BY <1>1 DEF ClientAt
<1>5. ClientAt(r, x, t, log)
  BY <1>1, <1>2, <1>3, <1>4 DEF ClientAt
<1> QED BY <1>5 DEF r

LEMMA LockClient ==
  ASSUME TypeOK, LockInv, NEW x \in Fds, update_logic(x)
  PROVE  LockInv'
<1> DEFINE log == m_FrameCacheQueue
<1>1. /\ UNCHANGED <<conlist, m_Pid, nfd, playerlist, bcq, fd_map, m_Players,
                     m_FrameCacheQueue>>
      /\ client[x].seededAt # nil /\ client[x].m_FrameQueue # <<>>
  BY DEF update_logic, FSM_OPEN, gameVars, gateVars, agentVars
<1>2. client \in [Fds -> Client] /\ bcq \in Seq(BCMsg)
  BY DEF TypeOK
<1>3. PICK r : r = Executes(client[x])
  OBVIOUS
<1>4. client'[x] = r /\ \A fd \in Fds : fd # x => client'[fd] = client[fd]
  BY <1>2, <1>3 DEF update_logic, Executes, Client
<1>5. \A pid \in Pids, fd \in Fds : /\ Owned(pid, fd)' <=> Owned(pid, fd)
                                    /\ Registered(pid, fd)' <=> Registered(pid, fd)
                                    /\ Progress(pid)' = Progress(pid)
  BY <1>1 DEF Owned, Registered, Progress
<1>6. ASSUME NEW pid \in Pids, NEW fd \in Fds, Owned(pid, fd)
      PROVE  Link(bcq, fd_map[pid], client'[fd], pid, fd, Progress(pid), log)
  <2>1. Link(bcq, fd_map[pid], client[fd], pid, fd, Progress(pid), log)
    BY <1>6 DEF LockInv, LinkInv
  <2>2. CASE fd # x
    BY <1>4, <2>1, <2>2
  <2>3. CASE fd = x
    <3>1. PICK b, t, g :
            LinkBy(bcq, fd_map[pid], client[x], pid, x, Progress(pid), t, log, b, g)
      BY <2>1, <2>3 DEF Link
    <3>2. g[b] \in Nat /\ ClientAt(client[x], g[b], t, log)
      BY <1>2, <3>1 DEF LinkBy, Brings
    <3>3. ClientAt(r, g[b], t, log)
      <4>1. client[x] \in Client
        BY <1>2
      <4> QED BY <1>1, <1>3, <3>2, <4>1, ClientRuns
    <3>4. LinkBy(bcq, fd_map[pid], r, pid, x, Progress(pid), t, log, b, g)
      BY <3>1, <3>3 DEF LinkBy, Brings
    <3> QED BY <1>4, <2>3, <3>4 DEF Link
  <2> QED BY <2>2, <2>3
<1>7. ASSUME NEW fd \in Fds, \A pid \in Pids : ~Owned(pid, fd)
      PROVE  client'[fd] = NewClient
  <2>1. client[fd] = NewClient
    BY <1>7 DEF LockInv, NobodyInv
  <2>2. fd # x
    BY <1>1, <2>1 DEF NewClient
  <2> QED BY <1>4, <2>1, <2>2
<1>8. LinkInv'
  BY <1>1, <1>5, <1>6 DEF LinkInv
<1>9. NobodyInv'
  BY <1>5, <1>7 DEF NobodyInv
<1>10. RouteInv' /\ SendInv'
  BY <1>1, <1>5 DEF LockInv, RouteInv, SendInv
<1> QED BY <1>8, <1>9, <1>10 DEF LockInv

-----------------------------------------------------------------------------
LEMMA LockStep ==
  ASSUME TypeOK, ServedInv, Allowed = {}, LockInv, [Next]_vars
  PROVE  LockInv'
<1>1. ASSUME NEW a \in Agents, enterwar(a) \/ Analysis(a) PROVE LockInv'
  <2>1. UNCHANGED <<conlist, m_Pid, nfd, playerlist, bcq, fd_map, client,
                    m_Players, m_FrameCacheQueue>>
    BY <1>1 DEF enterwar, Analysis, gateVars, agentVars, gameVars
  <2> QED BY <2>1, LockUnchanged
<1>2. ASSUME mgr_enter_player \/ scene_sync_ctrl \/ UNCHANGED vars PROVE LockInv'
  <2>1. UNCHANGED <<conlist, m_Pid, nfd, playerlist, bcq, fd_map, client,
                    m_Players, m_FrameCacheQueue>>
    BY <1>2 DEF mgr_enter_player, scene_sync_ctrl, sync_ctrl, outsideScene, vars,
       gateVars, agentVars, gameVars
  <2> QED BY <2>1, LockUnchanged
<1>3. ASSUME NEW a \in Agents, Agent(a) PROVE LockInv'
  BY <1>1, <1>3, LockStart, LockKick DEF Agent
<1>4. ASSUME SceneService PROVE LockInv'
  BY <1>2, <1>4, LockEnter, LockLeave DEF SceneService
<1> QED BY <1>2, <1>3, <1>4, LockGate, LockFrame, LockBroadcast, LockClient DEF Next

LEMMA LockInit == Init => LockInv
<1> SUFFICES ASSUME Init PROVE LockInv
  OBVIOUS
<1>1. PICK p \in Pids :
        /\ m_Pid = [fd \in Fds |-> IF fd = 1 THEN p ELSE nil]
        /\ playerlist = [x \in Pids |-> IF x = p THEN 1 ELSE nil]
        /\ bcq = <<Register(p, 1)>>
  BY DEF Init
<1>2. /\ conlist = {1} /\ nfd = 1 /\ fd_map = [x \in Pids |-> nil]
      /\ client = [fd \in Fds |-> NewClient] /\ m_Players = {}
      /\ m_FrameCacheQueue = <<>>
  BY DEF Init, GameInit
<1>3. 1 \in Fds /\ nil \notin Fds /\ nil \notin Pids
  <2>1. 1 \in Fds /\ nil \notin Fds
    BY FrameSyncAssumption DEF Fds
  <2> QED BY <2>1, SceneAssumption, FrameSyncAssumption
<1> DEFINE r == Register(p, 1)
<1>4. r \in BCMsg /\ r.cmd = "register_fd"
  BY <1>3, RouteTypes DEF Register
<1>5. \A z \in Pids, fd \in Fds : r = Register(z, fd) => z = p /\ fd = 1
  BY DEF Register
<1> HIDE DEF r
<1>6. /\ bcq = Append(<<>>, r) /\ <<>> \in Seq(BCMsg) /\ Len(<<>>) = 0
      /\ \A k \in 1 .. Len(bcq) : bcq[k] = r
  BY <1>1 DEF r
<1>7. \A z \in Pids, fd \in Fds : Owned(z, fd) <=> z = p /\ fd = 1
  BY <1>1, <1>2, <1>3 DEF Owned
<1>8. ASSUME NEW z \in Pids, NEW fd \in Fds, Registered(z, fd)
      PROVE  z = p /\ fd = 1
  BY <1>2, <1>3, <1>5, <1>6, <1>8 DEF Registered
<1>9. RouteInv
  BY <1>2, <1>7, <1>8 DEF RouteInv
<1>10. LinkInv
  <2>1. client[1] = NewClient /\ fd_map[p] # 1 /\ Progress(p) = 0
    BY <1>2, <1>3 DEF Progress
  <2>2. m_FrameCacheQueue \in Seq(FrameInfo)
    BY <1>2
  <2>3. Link(Append(<<>>, Register(p, 1)), fd_map[p], client[1], p, 1, 0,
             m_FrameCacheQueue)
    <3>1. \A k \in 1 .. Len(<<>>) : <<>>[k] # Register(p, 1)
      OBVIOUS
    <3> QED BY <1>3, <1>6, <2>1, <2>2, <3>1, LinkStarts
  <2>4. Link(bcq, fd_map[p], client[1], p, 1, Progress(p), m_FrameCacheQueue)
    BY <1>6, <2>1, <2>3 DEF r
  <2> QED BY <1>7, <2>4 DEF LinkInv
<1>11. NobodyInv
  BY <1>2 DEF NobodyInv
<1>12. SendInv
  BY <1>4, <1>6 DEF SendInv
<1> QED BY <1>9, <1>10, <1>11, <1>12 DEF LockInv

(* The client of every connection has been brought somewhere.               *)
LEMMA ClientIsAt ==
  ASSUME TypeOK, LockInv, NEW fd \in Fds
  PROVE  \E x \in Nat, t \in Nat : ClientAt(client[fd], x, t, m_FrameCacheQueue)
<1>1. bcq \in Seq(BCMsg) /\ m_FrameCacheQueue \in Seq(FrameInfo)
  BY DEF TypeOK, GameTypeOK
<1>2. CASE \A pid \in Pids : ~Owned(pid, fd)
  <2>1. ClientAt(client[fd], 0, 0, m_FrameCacheQueue)
    BY <1>2 DEF LockInv, NobodyInv, ClientAt
  <2> QED BY <2>1
<1>3. ASSUME NEW pid \in Pids, Owned(pid, fd)
      PROVE  \E x \in Nat, t \in Nat :
               ClientAt(client[fd], x, t, m_FrameCacheQueue)
  <2>1. PICK b, t, g : LinkBy(bcq, fd_map[pid], client[fd], pid, fd, Progress(pid),
                              t, m_FrameCacheQueue, b, g)
    BY <1>3 DEF LockInv, LinkInv, Link
  <2>2. /\ g[b] \in Nat /\ t \in Nat
        /\ ClientAt(client[fd], g[b], t, m_FrameCacheQueue)
    BY <1>1, <2>1 DEF LinkBy, Brings
  <2> QED BY <2>2
<1> QED BY <1>2, <1>3

LEMMA AtIsPrefix ==
  ASSUME NEW c \in Client, NEW x \in Nat, NEW t \in Nat, NEW log \in Seq(FrameInfo),
         ClientAt(c, x, t, log)
  PROVE  c.seededAt \in {nil, 0} /\ IsPrefix(Received(c), log)
<1>1. CASE x = 0
  <2>1. c = NewClient
    BY <1>1 DEF ClientAt
  <2>2. c.seededAt = nil /\ Received(c) = <<>>
    BY <2>1 DEF NewClient, Received
  <2>3. IsPrefix(<<>>, log)
    BY DEF IsPrefix
  <2> QED BY <2>2, <2>3
<1>2. CASE x # 0
  <2> DEFINE r == Received(c)
  <2>1. /\ Len(r) \in Nat /\ Len(r) <= Len(log) /\ r \in Seq(FrameInfo)
        /\ \A i \in 1 .. Len(r) : r[i] = log[i]
    BY <1>2, ClientFacts DEF ClientAt
  <2> HIDE DEF r
  <2> DEFINE a == SubSeq(r, 1, Len(r))
             b == SubSeq(log, 1, Len(r))
  <2>2. a = b
    <3>1. /\ a \in Seq(FrameInfo) /\ b \in Seq(FrameInfo)
          /\ Len(a) = Len(r) /\ Len(b) = Len(r)
      BY <2>1
    <3>2. ASSUME NEW i \in 1 .. Len(r) PROVE a[i] = b[i]
      BY <2>1
    <3> HIDE DEF a, b
    <3> QED BY <3>1, <3>2, SeqEqual
  <2>3. IsPrefix(r, log)
    BY <2>1, <2>2 DEF IsPrefix
  <2> QED BY <1>2, <2>3 DEF r, ClientAt
<1> QED BY <1>1, <1>2

LEMMA LockImplies ==
  ASSUME TypeOK, LockInv
  PROVE  LockstepPrefix
<1>1. conlist \subseteq Fds /\ client \in [Fds -> Client]
  BY GateFacts DEF TypeOK
<1>2. ASSUME NEW fd \in conlist
      PROVE  /\ client[fd].seededAt \in {nil, 0}
             /\ IsPrefix(Received(client[fd]), m_FrameCacheQueue)
  <2>1. PICK x \in Nat, t \in Nat : ClientAt(client[fd], x, t, m_FrameCacheQueue)
    BY <1>1, ClientIsAt
  <2>2. client[fd] \in Client /\ m_FrameCacheQueue \in Seq(FrameInfo)
    BY <1>1 DEF TypeOK, GameTypeOK
  <2> QED BY <2>1, <2>2, AtIsPrefix
<1> QED BY <1>2 DEF LockstepPrefix

THEOREM LockInvariance ==
  ASSUME Allowed = {}
  PROVE  Spec => []LockInv
<1>1. IInv /\ ServedInv /\ LockInv /\ [Next]_vars => LockInv'
  BY LockStep DEF IInv
<1> QED BY <1>1, LockInit, ServedInvariance, Invariance, PTL DEF Spec

(* For any number of players, logins and frames: as long as clients log in  *)
(* one at a time and leave after they have entered, what a client has of    *)
(* the game is a beginning of FrameMgr's log, whatever mixture of cache     *)
(* packages and frames of the broadcast it came in and however logins of    *)
(* one pid cross, and SetRndSeed is called before the first frame is run.   *)
THEOREM ClientsInLockstep ==
  ASSUME Allowed = {}
  PROVE  Spec => []LockstepPrefix
<1>1. IInv /\ LockInv => LockstepPrefix
  BY LockImplies DEF IInv
<1> QED BY <1>1, LockInvariance, Invariance, PTL

-----------------------------------------------------------------------------
(* No frame is lost: w, what a client has and what the messages so far have *)
(* for it, is the log up to where they have brought it.                     *)
UpTo(w, x, log) ==
  IF x = 0 THEN w = <<>>
  ELSE /\ x - 1 <= Len(log) /\ Len(w) = x - 1
       /\ \A i \in 1 .. x - 1 : w[i] = log[i]

(* The frames that message m has for pid.                                   *)
FramesFor(pid, m) ==
  IF m.cmd = "send" /\ pid \in m.uuids THEN Frames(m.data) ELSE <<>>

LEMMA FramesTyped ==
  ASSUME NEW pid, NEW m \in BCMsg
  PROVE  FramesFor(pid, m) \in Seq(FrameInfo)
<1>1. CASE m.cmd = "send" /\ pid \in m.uuids
  <2>1. m.data \in Package
    BY <1>1 DEF BCMsg
  <2>2. PICK d \in Package : d = m.data
    BY <2>1
  <2>3. CASE d.proto = "gs2c_loginsuc"
    <3>1. Frames(d) = <<>>
      BY <2>3 DEF Frames
    <3> QED
      BY <1>1, <2>2, <3>1 DEF FramesFor
  <2>4. CASE d.proto = "gs2c_frame_cache_data"
    <3>1. Frames(d) = d.frame_cache /\ d.frame_cache \in Seq(FrameInfo)
      BY <2>4 DEF Frames, Package
    <3> QED
      BY <1>1, <2>2, <3>1 DEF FramesFor
  <2>5. CASE d.proto = "gs2c_frame_data"
    <3>1. Frames(d) = <<d.frame_data>> /\ d.frame_data \in FrameInfo
      BY <2>5 DEF Frames, Package
    <3> QED
      BY <1>1, <2>2, <3>1 DEF FramesFor
  <2> QED
    BY <2>3, <2>4, <2>5 DEF Package
<1>2. CASE ~(m.cmd = "send" /\ pid \in m.uuids)
  <2>1. FramesFor(pid, m) = <<>>
    BY <1>2 DEF FramesFor
  <2> QED
    BY <2>1
<1> QED
  BY <1>1, <1>2

LEMMA UpToLonger ==
  ASSUME NEW w \in Seq(FrameInfo), NEW p \in Seq(FrameInfo), NEW x \in Nat \ {0},
         NEW n \in Nat, Len(p) = n, NEW log \in Seq(FrameInfo), UpTo(w, x, log),
         x - 1 + n <= Len(log), \A i \in 1 .. n : p[i] = log[x - 1 + i]
  PROVE  UpTo(w \o p, x + n, log)
<1>1. Len(w) = x - 1 /\ \A i \in 1 .. x - 1 : w[i] = log[i]
  BY DEF UpTo
<1>2. PICK v \in Seq(FrameInfo) :
        /\ Len(v) = x - 1 + n
        /\ \A i \in 1 .. x - 1 : v[i] = w[i]
        /\ \A i \in 1 .. n : v[x - 1 + i] = p[i]
        /\ v = w \o p
  <2>1. PICK v : v = w \o p
    OBVIOUS
  <2>2. v \in Seq(FrameInfo) /\ Len(v) = Len(w) + Len(p)
    BY <2>1, ConcatProperties
  <2>3. \A j \in 1 .. Len(w) + Len(p) :
          v[j] = IF j <= Len(w) THEN w[j] ELSE p[j - Len(w)]
    BY <2>1, ConcatProperties
  <2>4. ASSUME NEW i \in 1 .. n
        PROVE  v[x - 1 + i] = p[i]
    <3>1. PICK j \in 1 .. Len(w) + Len(p) : j = x - 1 + i
      BY <1>1
    <3>2. ~(j <= Len(w)) /\ j - Len(w) = i
      BY <1>1, <3>1
    <3> QED
      BY <2>3, <3>1, <3>2
  <2>5. \A i \in 1 .. x - 1 : v[i] = w[i]
    BY <1>1, <2>3
  <2> QED
    BY <1>1, <2>1, <2>2, <2>4, <2>5
<1>3. ASSUME NEW i \in 1 .. x - 1 + n
      PROVE  v[i] = log[i]
  <2>1. CASE i \in 1 .. x - 1
    BY <1>1, <1>2, <2>1
  <2>2. CASE i \notin 1 .. x - 1
    <3>1. PICK j \in 1 .. n : i = x - 1 + j
      <4>1. i - (x - 1) \in 1 .. n /\ i = x - 1 + (i - (x - 1))
        BY <2>2
      <4> QED
        BY <4>1
    <3> QED
      BY <1>2, <3>1
  <2> QED
    BY <2>1, <2>2
<1>4. x + n # 0 /\ x + n - 1 = x - 1 + n
  OBVIOUS
<1>5. UpTo(v, x + n, log)
  BY <1>2, <1>3, <1>4 DEF UpTo
<1> QED
  BY <1>2, <1>5

LEMMA UpToCarries ==
  ASSUME NEW w \in Seq(FrameInfo), NEW pid, NEW m \in BCMsg, NEW x \in Nat, NEW y \in Nat,
         NEW log \in Seq(FrameInfo), NEW t \in 0 .. Len(log),
         UpTo(w, x, log), Carries(m, pid, x, y, t, log)
  PROVE  UpTo(w \o FramesFor(pid, m), y, log)
<1>1. CASE m.cmd = "send" /\ pid \in m.uuids
  <2>1. PICK d \in Package : d = m.data
    BY <1>1 DEF BCMsg
  <2>2. Delivers(d, x, y, t, log) /\ FramesFor(pid, m) = Frames(d)
    BY <1>1, <2>1 DEF Carries, FramesFor
  <2>3. CASE d.proto = "gs2c_loginsuc"
    <3>1. x = 0 /\ y = 1 /\ Frames(d) = <<>>
      BY <2>2, <2>3 DEF Delivers, Frames
    <3>2. w \o <<>> = <<>>
      BY <3>1 DEF UpTo
    <3>3. UpTo(<<>>, 1, log)
      BY DEF UpTo
    <3> QED
      BY <2>2, <3>1, <3>2, <3>3
  <2>4. CASE d.proto = "gs2c_frame_cache_data"
    <3>1. /\ 1 <= x /\ x < y /\ y <= t + 1 /\ Frames(d) = d.frame_cache
          /\ Len(d.frame_cache) = y - x
          /\ \A i \in 1 .. y - x : d.frame_cache[i] = log[x - 1 + i]
      BY <2>2, <2>4 DEF Delivers, Frames
    <3>2. PICK n \in Nat : n = y - x
      BY <3>1
    <3>3. d.frame_cache \in Seq(FrameInfo)
      BY <2>4 DEF Package
    <3>4. x \in Nat \ {0} /\ x - 1 + n <= Len(log) /\ x + n = y
      BY <3>1, <3>2
    <3>5. UpTo(w \o d.frame_cache, x + n, log)
      BY <3>1, <3>2, <3>3, <3>4, UpToLonger
    <3> QED
      BY <2>2, <3>1, <3>4, <3>5
  <2>5. CASE d.proto = "gs2c_frame_data"
    <3>1. /\ t < x /\ y = x + 1 /\ Frames(d) = <<d.frame_data>>
          /\ x <= Len(log) /\ d.frame_data = log[x]
      BY <2>2, <2>5 DEF Delivers, Frames
    <3>2. PICK p \in Seq(FrameInfo) : p = <<d.frame_data>> /\ Len(p) = 1 /\ p[1] = log[x]
      <4>1. PICK a \in FrameInfo : a = d.frame_data
        BY <2>5 DEF Package
      <4>2. <<a>> \in Seq(FrameInfo) /\ Len(<<a>>) = 1 /\ <<a>>[1] = a
        OBVIOUS
      <4> QED
        BY <3>1, <4>1, <4>2
    <3>3. x \in Nat \ {0} /\ x - 1 + 1 = x
      BY <3>1
    <3>4. \A i \in 1 .. 1 : p[i] = log[x - 1 + i]
      BY <3>2, <3>3
    <3>5. UpTo(w \o p, x + 1, log)
      BY <3>1, <3>2, <3>3, <3>4, UpToLonger
    <3> QED
      BY <2>2, <3>1, <3>2, <3>5
  <2> QED
    BY <2>2, <2>3, <2>4, <2>5 DEF Delivers
<1>2. CASE ~(m.cmd = "send" /\ pid \in m.uuids)
  <2>1. y = x /\ FramesFor(pid, m) = <<>>
    BY <1>2 DEF Carries, FramesFor
  <2>2. w \o <<>> = w
    OBVIOUS
  <2> QED
    BY <2>1, <2>2
<1> QED
  BY <1>1, <1>2

(* s has what each message of q after b has for pid.                        *)
Shows(s, q, pid, b) ==
  \A i \in 1 .. Len(q) : s[i] = IF i <= b THEN <<>> ELSE FramesFor(pid, q[i])

LEMMA FramesJoined ==
  ASSUME NEW q \in Seq(BCMsg), NEW route, NEW c \in Client, NEW pid, NEW fd,
         NEW e \in Nat, NEW log \in Seq(FrameInfo), NEW b, NEW t, NEW g,
         LinkBy(q, route, c, pid, fd, e, t, log, b, g),
         NEW s \in Seq(Seq(FrameInfo)), Len(s) = Len(q),
         Shows(s, q, pid, b)
  PROVE  UpTo(Received(c) \o FlattenSeq(s), e, log)
<1>1. PICK n \in Nat : n = Len(q)
  OBVIOUS
<1>2. PICK w \in Seq(FrameInfo) : w = Received(c)
  BY ClientFacts
<1>3. /\ b \in 0 .. n /\ t \in 0 .. Len(log) /\ g \in [0 .. n -> Nat]
      /\ ClientAt(c, g[b], t, log) /\ g[n] = e
      /\ \A k \in b + 1 .. n : Carries(q[k], pid, g[k - 1], g[k], t, log)
  BY <1>1 DEF LinkBy, Brings
<1>4. w \o <<>> = w /\ <<>> \in Seq(FrameInfo)
  OBVIOUS
<1>5. UpTo(w \o <<>>, g[b], log)
  <2>1. PICK x \in Nat : x = g[b]
    BY <1>3
  <2>2. CASE x = 0
    <3>1. c = NewClient
      BY <1>3, <2>1, <2>2 DEF ClientAt
    <3>2. w = <<>>
      BY <1>2, <3>1 DEF NewClient, Received
    <3> QED
      BY <1>4, <2>1, <2>2, <3>2 DEF UpTo
  <2>3. CASE x # 0
    <3>1. /\ x <= Len(log) + 1 /\ Len(w) = x - 1
          /\ \A i \in 1 .. x - 1 : w[i] = log[i]
      BY <1>2, <1>3, <2>1, <2>3 DEF ClientAt
    <3>2. UpTo(w, x, log)
      BY <2>3, <3>1 DEF UpTo
    <3> QED
      BY <1>4, <2>1, <3>2
  <2> QED
    BY <2>2, <2>3
<1>6. CASE n = 0
  <2>1. s = <<>> /\ b = 0
    BY <1>1, <1>3, <1>6
  <2>2. FlattenSeq(s) = <<>>
    BY <2>1, FlattenEmpty
  <2> QED
    BY <1>2, <1>3, <1>5, <1>6, <2>1, <2>2
<1>7. CASE n # 0
  <2>1. PICK f : Joins(f, s) /\ FlattenSeq(s) = f[n]
    <3>1. s # <<>>
      BY <1>1, <1>7
    <3> QED
      BY <1>1, <3>1, FlattenJoins
  <2>2. \A i \in 1 .. n : f[i] = IF i = 1 THEN s[i] ELSE f[i - 1] \o s[i]
    BY <1>1, <2>1, JoinsValue
  <2> DEFINE F(k) == IF k = 0 THEN <<>> ELSE f[k]
             Good(k) == /\ F(k) \in Seq(FrameInfo)
                        /\ k <= b => F(k) = <<>>
                        /\ b <= k => UpTo(w \o F(k), g[k], log)
             T == {k \in Nat : k \in 0 .. n => Good(k)}
  <2>3. 0 \in T
    <3>1. F(0) = <<>>
      OBVIOUS
    <3> HIDE DEF F
    <3>2. b <= 0 => b = 0
      BY <1>3
    <3>3. Good(0)
      BY <1>4, <1>5, <3>1, <3>2
    <3> QED
      BY <3>3
  <2>4. ASSUME NEW k \in Nat, k \in T
        PROVE  k + 1 \in T
    <3> HIDE DEF F, Good
    <3> SUFFICES ASSUME NEW j \in Nat, j = k + 1, j \in 0 .. n
                 PROVE  Good(j)
      <4>1. k + 1 \in Nat
        OBVIOUS
      <4> QED
        BY <4>1, Zenon
    <3>1. Good(k)
      <4>1. k \in 0 .. n
        OBVIOUS
      <4> QED
        BY <2>4, <4>1, Zenon
    <3>2. j \in 1 .. n /\ j = k + 1 /\ j - 1 = k
      OBVIOUS
    <3> HIDE DEF T
    <3> USE DEF F, Good
    <3>3. PICK r \in Seq(FrameInfo) :
            r = s[j] /\ r = IF j <= b THEN <<>> ELSE FramesFor(pid, q[j])
      <4>1. s[j] \in Seq(FrameInfo)
        BY <1>1
      <4> QED
        BY <1>1, <4>1 DEF Shows
    <3>4. PICK a \in Seq(FrameInfo) : a = F(k)
      BY <3>1
    <3>5. F(j) = a \o r
      <4>1. f[j] = IF j = 1 THEN s[j] ELSE f[j - 1] \o s[j]
        BY <2>2, <3>2, Zenon
      <4>2. F(j) = f[j] /\ (j = 1 => a = <<>>) /\ (j # 1 => a = f[k])
        BY <3>2, <3>4
      <4>3. CASE j = 1
        <5>1. a = <<>> /\ F(j) = r
          BY <3>3, <4>1, <4>2, <4>3, Zenon
        <5>2. <<>> \o r = r
          OBVIOUS
        <5> QED
          BY <5>1, <5>2, Zenon
      <4>4. CASE j # 1
        <5>1. f[j] = f[j - 1] \o s[j]
          BY <4>1, <4>4, Zenon
        <5> QED
          BY <3>2, <3>3, <4>2, <4>4, <5>1, Zenon
      <4> QED
        BY <4>3, <4>4, Zenon
    <3> HIDE DEF F
    <3>6. a \o r \in Seq(FrameInfo)
      BY ConcatProperties, Zenon
    <3>7. CASE j <= b
      <4>1. a = <<>> /\ r = <<>>
        BY <1>3, <3>1, <3>2, <3>3, <3>4, <3>7
      <4>2. <<>> \o <<>> = <<>>
        OBVIOUS
      <4>3. F(j) = <<>>
        BY <3>5, <4>1, <4>2
      <4>4. b <= j => UpTo(w \o F(j), g[j], log)
        <5>1. b <= j => j = b
          BY <1>3, <3>7
        <5> QED
          BY <1>5, <4>3, <5>1
      <4> QED
        BY <3>2, <3>5, <3>6, <4>3, <4>4
    <3>8. CASE ~(j <= b)
      <4>1. /\ UpTo(w \o a, g[k], log) /\ r = FramesFor(pid, q[j])
            /\ Carries(q[j], pid, g[k], g[j], t, log)
        <5>1. b <= k /\ j \in b + 1 .. n
          BY <1>3, <3>2, <3>8
        <5>2. UpTo(w \o a, g[k], log)
          BY <3>1, <3>4, <5>1, Zenon
        <5>3. Carries(q[j], pid, g[j - 1], g[j], t, log)
          BY <1>3, <5>1, Zenon
        <5>4. r = FramesFor(pid, q[j])
          BY <3>3, <3>8, Zenon
        <5> QED
          BY <3>2, <5>2, <5>3, <5>4, Zenon
      <4>2. g[k] \in Nat /\ g[j] \in Nat /\ q[j] \in BCMsg
        <5>1. k \in 0 .. n
          BY <3>2
        <5>2. q[j] \in BCMsg
          BY <1>1, <3>2
        <5> QED
          BY <1>3, <5>1, <5>2
      <4>3. UpTo((w \o a) \o r, g[j], log)
        <5>1. PICK v \in Seq(FrameInfo) : v = w \o a
          BY ConcatProperties, Zenon
        <5>2. UpTo(v \o FramesFor(pid, q[j]), g[j], log)
          BY <1>3, <4>1, <4>2, <5>1, UpToCarries
        <5> QED
          BY <4>1, <5>1, <5>2, Zenon
      <4>4. (w \o a) \o r = w \o (a \o r)
        OBVIOUS
      <4>5. UpTo(w \o F(j), g[j], log)
        BY <3>5, <4>3, <4>4, Zenon
      <4> QED
        BY <3>2, <3>5, <3>6, <3>8, <4>5
    <3> QED
      BY <3>7, <3>8
  <2>5. n \in T
    <3> HIDE DEF T
    <3> QED
      BY <2>3, <2>4, AllNumbers
  <2>6. UpTo(w \o f[n], g[n], log)
    BY <1>3, <1>7, <2>5
  <2> QED
    BY <1>2, <1>3, <2>1, <2>6
<1> QED
  BY <1>6, <1>7

(* A player who is in the game is owned by the connection it is logged in   *)
(* with.                                                                    *)
LEMMA PlayerOwned ==
  ASSUME TypeOK, ServedInv, NEW fd \in conlist, m_Pid[fd] \in m_Players
  PROVE  Owned(m_Pid[fd], fd)
<1> DEFINE pid == m_Pid[fd]
<1>1. pid \in Pids /\ fd \in Fds /\ nil \notin Pids
  BY GateFacts DEF TypeOK, GameTypeOK
<1>2. fd \in Connected(pid) /\ Stage(pid)
  BY <1>1 DEF Connected, ServedInv
<1>3. \/ Starting(pid, fd) \/ Calling(pid, fd) \/ EnteringScene(pid, fd)
      \/ Playing(pid, fd)
  BY <1>1, <1>2, LoggedInOnly
<1>4. playerlist[pid] = fd
  BY <1>3 DEF Starting, Calling, EnteringScene, Playing, OutOfGame
<1> QED
  BY <1>4 DEF Owned

LEMMA LostNone ==
  ASSUME TypeOK, ServedInv, LockInv
  PROVE  NoFrameLost
<1> SUFFICES ASSUME NEW fd \in conlist, m_Pid[fd] \in m_Players
             PROVE  Received(client[fd]) \o InTransit(m_Pid[fd], fd) = m_FrameCacheQueue
  BY DEF NoFrameLost
<1>1. PICK pid \in Pids : pid = m_Pid[fd]
  BY DEF TypeOK, GameTypeOK
<1>2. /\ fd \in Fds /\ client[fd] \in Client /\ bcq \in Seq(BCMsg)
      /\ m_FrameCacheQueue \in Seq(FrameInfo)
  BY GateFacts DEF TypeOK, GameTypeOK
<1>3. Owned(pid, fd)
  BY <1>1, PlayerOwned
<1>4. PICK n \in Nat : n = Len(m_FrameCacheQueue) /\ Progress(pid) = n + 1
  BY <1>1, <1>2 DEF Progress
<1>5. PICK b, t, g : LinkBy(bcq, fd_map[pid], client[fd], pid, fd, n + 1, t,
                            m_FrameCacheQueue, b, g)
  BY <1>2, <1>3, <1>4 DEF LockInv, LinkInv, Link
<1>6. /\ b \in 0 .. Len(bcq)
      /\ b # 0 => bcq[b] = Register(pid, fd)
      /\ \A k \in b + 1 .. Len(bcq) : ~IsRoute(bcq[k], pid)
  BY <1>5 DEF LinkBy, RoutedFrom
<1> DEFINE After(i) == \A j \in i + 1 .. Len(bcq) : bcq[j] # Register(pid, fd)
           item(i) == IF bcq[i].cmd = "send" /\ pid \in bcq[i].uuids /\ After(i)
                      THEN Frames(bcq[i].data) ELSE <<>>
<1>7. ASSUME NEW i \in 1 .. Len(bcq)
      PROVE  item(i) = IF i <= b THEN <<>> ELSE FramesFor(pid, bcq[i])
  <2>1. CASE i < b
    <3>1. ~After(i)
      <4>1. b \in i + 1 .. Len(bcq) /\ bcq[b] = Register(pid, fd)
        BY <1>2, <1>6, <2>1
      <4> QED
        BY <4>1
    <3> HIDE DEF After
    <3> QED
      BY <1>2, <1>6, <2>1, <3>1
  <2>2. CASE i = b
    <3>1. bcq[i].cmd # "send"
      BY <1>6, <2>2 DEF Register
    <3> HIDE DEF After
    <3> QED
      BY <1>2, <1>6, <2>2, <3>1
  <2>3. CASE i > b
    <3>1. After(i)
      <4> SUFFICES ASSUME NEW j \in i + 1 .. Len(bcq)
                   PROVE  bcq[j] # Register(pid, fd)
        OBVIOUS
      <4>1. j \in b + 1 .. Len(bcq)
        BY <1>2, <1>6, <2>3
      <4> QED
        BY <1>6, <4>1 DEF IsRoute, Register
    <3> HIDE DEF After
    <3> QED
      BY <1>2, <1>6, <2>3, <3>1 DEF FramesFor
  <2> QED
    BY <1>2, <1>6, <2>1, <2>2, <2>3
<1>8. PICK s : s = [i \in 1 .. Len(bcq) |-> item(i)]
  OBVIOUS
<1>9. InTransit(pid, fd) = FlattenSeq(s)
  BY <1>8 DEF InTransit
<1> HIDE DEF item
<1>10. Shows(s, bcq, pid, b)
  BY <1>7, <1>8 DEF Shows
<1>11. s \in Seq(Seq(FrameInfo)) /\ Len(s) = Len(bcq)
  <2>1. ASSUME NEW i \in 1 .. Len(bcq)
        PROVE  item(i) \in Seq(FrameInfo)
    <3>1. FramesFor(pid, bcq[i]) \in Seq(FrameInfo) /\ <<>> \in Seq(FrameInfo)
      BY <1>2, FramesTyped
    <3> QED
      BY <1>7, <3>1, Zenon
  <2>2. PICK S : S = Seq(FrameInfo)
    OBVIOUS
  <2>3. Len(bcq) \in Nat
    BY <1>2
  <2>4. s \in Seq(S) /\ Len(s) = Len(bcq)
    BY <1>8, <2>1, <2>2, <2>3
  <2> QED
    BY <2>2, <2>4
<1>12. UpTo(Received(client[fd]) \o FlattenSeq(s), n + 1, m_FrameCacheQueue)
  <2>1. n + 1 \in Nat
    OBVIOUS
  <2> QED
    BY <1>2, <1>5, <1>10, <1>11, <2>1, FramesJoined, Zenon
<1>13. PICK w \in Seq(FrameInfo) : w = Received(client[fd]) \o FlattenSeq(s)
  <2>1. FlattenSeq(s) \in Seq(FrameInfo) /\ Received(client[fd]) \in Seq(FrameInfo)
    BY <1>2, <1>11, FlattenTyped, ClientFacts
  <2> QED
    BY <2>1, ConcatProperties
<1>14. Len(w) = n /\ \A i \in 1 .. n : w[i] = m_FrameCacheQueue[i]
  <2>1. n + 1 # 0 /\ n + 1 - 1 = n
    OBVIOUS
  <2> QED
    BY <1>12, <1>13, <2>1 DEF UpTo
<1>15. w = m_FrameCacheQueue
  BY <1>2, <1>4, <1>14, SeqEqual
<1> QED
  BY <1>1, <1>9, <1>13, <1>15

(* For any number of players, logins and frames: as long as clients log in  *)
(* one at a time and leave after they have entered, the frames a player's   *)
(* client has and those on their way to it through the broadcast service    *)
(* are the whole log, from the moment the scene has added the player.       *)
THEOREM FramesArrive ==
  ASSUME Allowed = {}
  PROVE  Spec => []NoFrameLost
<1>1. IInv /\ ServedInv /\ LockInv => NoFrameLost
  BY LostNone DEF IInv
<1> QED
  BY <1>1, Invariance, ServedInvariance, LockInvariance, PTL

-----------------------------------------------------------------------------
(* No control is lost: what the gate gets goes from the agent's mailbox     *)
(* to that of the scene and into a frame.  Messages about pid that its      *)
(* controls must not overtake, or be overtaken by:                          *)
Keys(pid) == {m \in AgentMsg : m.cmd = "Unpack" /\ m.pid = pid}
Arrivals(pid) == {m \in AgentMsg : m.cmd = "entering" /\ m.pid = pid}
Kicks(pid) == {m \in AgentMsg : m.cmd = "kick" /\ m.pid = pid}
Presses(pid) == {m \in SceneMsg : m.cmd = "sync_ctrl" /\ m.pid = pid}
Leavings(pid) == {m \in SceneMsg : m.cmd = "leave_player" /\ m.pid = pid}

HasKeys(pid) == \E m \in Range(agentq[get_user_agent(pid)]) : m \in Keys(pid)
HasPresses(pid) == \E m \in Range(sceneq) : m \in Presses(pid)

(* A control on its way is that of a player of the game; it is with the     *)
(* agent after the answer that lets the player in and before the kick, and  *)
(* with the scene before the player leaves.                                 *)
KeysInv(pid) ==
  /\ HasKeys(pid) \/ HasPresses(pid) => pid \in m_Players
  /\ Ordered(agentq[get_user_agent(pid)], Keys(pid), Arrivals(pid), Kicks(pid),
             pid \in m_SceneAgent)
  /\ Ordered(sceneq, Presses(pid), {}, Leavings(pid), TRUE)

InputsInv == \A pid \in Pids : KeysInv(pid) /\ ControlsOf(pid) = inputs[pid]

(* The control of pid that is in c, and the one that is in m.               *)
InFrame(pid, c) ==
  IF c.pid = pid /\ c.action \in Controls THEN <<c.action>> ELSE <<>>

InMail(pid, m) ==
  IF m.cmd \in {"sync_ctrl", "Unpack"} /\ m.pid = pid THEN <<m.action>> ELSE <<>>

Posts(pid, A) == \A m \in A : InMail(pid, m) \in Seq(Controls)

LEMMA PostsTyped ==
  ASSUME NEW pid
  PROVE  Posts(pid, AgentMsg) /\ Posts(pid, SceneMsg)
<1>1. ASSUME NEW m \in AgentMsg \cup SceneMsg
      PROVE  InMail(pid, m) \in Seq(Controls)
  <2>1. CASE m.cmd \in {"sync_ctrl", "Unpack"}
    <3>1. PICK a \in Controls : a = m.action
      BY <2>1 DEF AgentMsg, SceneMsg
    <3>2. <<a>> \in Seq(Controls) /\ <<>> \in Seq(Controls)
      OBVIOUS
    <3> QED
      BY <3>1, <3>2, Zenon DEF InMail
  <2>2. CASE m.cmd \notin {"sync_ctrl", "Unpack"}
    BY <2>2 DEF InMail
  <2> QED
    BY <2>1, <2>2
<1> QED
  BY <1>1 DEF Posts

LEMMA PostedIs ==
  ASSUME NEW A, NEW pid, Posts(pid, A)
  PROVE  \E f \in [A -> Seq(Controls)] :
           /\ \A m \in A : f[m] = InMail(pid, m)
           /\ \A q \in Seq(A) : Posted(pid, q) = FlattenSeq(Each(q, f))
<1> DEFINE f == [m \in A |-> InMail(pid, m)]
<1>1. f \in [A -> Seq(Controls)] /\ \A m \in A : f[m] = InMail(pid, m)
  BY DEF Posts
<1>2. ASSUME NEW q \in Seq(A)
      PROVE  Posted(pid, q) = FlattenSeq(Each(q, f))
  <2>1. \A k \in 1 .. Len(q) : q[k] \in A
    OBVIOUS
  <2>2. \A k \in 1 .. Len(q) : f[q[k]] = InMail(pid, q[k])
    BY <1>1, <2>1, Zenon
  <2> HIDE DEF f
  <2>3. Each(q, f) = [k \in 1 .. Len(q) |-> InMail(pid, q[k])]
    BY <2>2 DEF Each
  <2> QED
    BY <2>3 DEF Posted, InMail
<1> HIDE DEF f
<1> QED
  BY <1>1, <1>2

LEMMA PostedTyped ==
  ASSUME NEW A, NEW pid, Posts(pid, A), NEW q \in Seq(A)
  PROVE  Posted(pid, q) \in Seq(Controls)
<1>1. PICK f \in [A -> Seq(Controls)] :
        /\ \A n \in A : f[n] = InMail(pid, n)
        /\ \A r \in Seq(A) : Posted(pid, r) = FlattenSeq(Each(r, f))
  BY PostedIs
<1>2. FlattenSeq(Each(q, f)) \in Seq(Controls)
  BY EachTyped, Zenon
<1> QED
  BY <1>1, <1>2, Zenon

LEMMA PostedAppend ==
  ASSUME NEW A, NEW pid, Posts(pid, A), NEW q \in Seq(A), NEW m \in A
  PROVE  /\ Posted(pid, q) \in Seq(Controls) /\ InMail(pid, m) \in Seq(Controls)
         /\ Posted(pid, Append(q, m)) = Posted(pid, q) \o InMail(pid, m)
<1>1. PICK f \in [A -> Seq(Controls)] :
        /\ \A n \in A : f[n] = InMail(pid, n)
        /\ \A r \in Seq(A) : Posted(pid, r) = FlattenSeq(Each(r, f))
  BY PostedIs
<1>2. Append(q, m) \in Seq(A)
  OBVIOUS
<1>3. FlattenSeq(Each(q, f)) \in Seq(Controls)
  BY EachTyped, Zenon
<1>4. FlattenSeq(Each(Append(q, m), f)) = FlattenSeq(Each(q, f)) \o f[m]
  BY EachAppend, Zenon
<1>5. f[m] = InMail(pid, m) /\ InMail(pid, m) \in Seq(Controls)
  BY <1>1, Zenon DEF Posts
<1> QED
  BY <1>1, <1>2, <1>3, <1>4, <1>5, Zenon

LEMMA PostedTail ==
  ASSUME NEW A, NEW pid, Posts(pid, A), NEW q \in Seq(A), q # <<>>
  PROVE  /\ Posted(pid, Tail(q)) \in Seq(Controls)
         /\ InMail(pid, Head(q)) \in Seq(Controls)
         /\ Posted(pid, q) = InMail(pid, Head(q)) \o Posted(pid, Tail(q))
<1>1. PICK f \in [A -> Seq(Controls)] :
        /\ \A n \in A : f[n] = InMail(pid, n)
        /\ \A r \in Seq(A) : Posted(pid, r) = FlattenSeq(Each(r, f))
  BY PostedIs
<1>2. PICK r \in Seq(A), h \in A : r = Tail(q) /\ h = Head(q)
  <2>1. Tail(q) \in Seq(A) /\ Head(q) \in A
    OBVIOUS
  <2> QED
    BY <2>1
<1>3. FlattenSeq(Each(r, f)) \in Seq(Controls)
  BY EachTyped, Zenon
<1>4. FlattenSeq(Each(q, f)) = f[h] \o FlattenSeq(Each(r, f))
  BY <1>2, EachTail, Zenon
<1>5. f[h] = InMail(pid, h) /\ InMail(pid, h) \in Seq(Controls)
  BY <1>1, Zenon DEF Posts
<1> QED
  BY <1>1, <1>2, <1>3, <1>4, <1>5, Zenon

LEMMA PostedInsert ==
  ASSUME NEW A, NEW pid, Posts(pid, A), NEW q \in Seq(A), NEW m \in A,
         InMail(pid, m) = <<>>, NEW k \in 1 .. Len(q) + 1,
         InsertAt(q, k, m) \in Seq(A)
  PROVE  Posted(pid, InsertAt(q, k, m)) = Posted(pid, q)
<1>1. PICK f \in [A -> Seq(Controls)] :
        /\ \A n \in A : f[n] = InMail(pid, n)
        /\ \A r \in Seq(A) : Posted(pid, r) = FlattenSeq(Each(r, f))
  BY PostedIs
<1>2. f[m] = <<>>
  BY <1>1, Zenon
<1>3. FlattenSeq(Each(InsertAt(q, k, m), f)) = FlattenSeq(Each(q, f))
  BY <1>2, EachInsert, Zenon
<1> QED
  BY <1>1, <1>3, Zenon

-----------------------------------------------------------------------------
(* The controls in frames.                                                  *)
LEMMA StreamTyped ==
  ASSUME GameTypeOK
  PROVE  /\ Stream \in Seq(CtrlInfo)
         /\ [i \in 1 .. Len(m_FrameCacheQueue) |-> m_FrameCacheQueue[i].ctrl_data]
              \in Seq(Seq(CtrlInfo))
<1>1. m_FrameCacheQueue \in Seq(FrameInfo) /\ m_CtrlDataQueue \in Seq(CtrlInfo)
  BY DEF GameTypeOK
<1>2. ASSUME NEW i \in 1 .. Len(m_FrameCacheQueue)
      PROVE  m_FrameCacheQueue[i].ctrl_data \in Seq(CtrlInfo)
  <2>1. m_FrameCacheQueue[i] \in FrameInfo
    BY <1>1
  <2>2. PICK f \in FrameInfo : f = m_FrameCacheQueue[i]
    BY <2>1, Zenon
  <2>3. f.ctrl_data \in Seq(CtrlInfo)
    BY DEF FrameInfo
  <2> QED
    BY <2>2, <2>3
<1>3. PICK C : C = Seq(CtrlInfo)
  OBVIOUS
<1>4. Len(m_FrameCacheQueue) \in Nat
  BY <1>1
<1>5. PICK s : s = [i \in 1 .. Len(m_FrameCacheQueue) |-> m_FrameCacheQueue[i].ctrl_data]
  OBVIOUS
<1>6. s \in Seq(C)
  BY <1>2, <1>3, <1>4, <1>5
<1>7. s \in Seq(Seq(CtrlInfo))
  BY <1>3, <1>6, Zenon
<1>8. FlattenSeq(s) \in Seq(CtrlInfo)
  BY <1>7, FlattenTyped, Zenon
<1>9. FlattenSeq(s) \o m_CtrlDataQueue \in Seq(CtrlInfo)
  BY <1>1, <1>8, ConcatProperties, Zenon
<1> QED
  BY <1>5, <1>7, <1>9, Zenon DEF Stream

LEMMA StreamPushed ==
  ASSUME GameTypeOK, NEW c \in CtrlInfo, m_FrameCacheQueue' = m_FrameCacheQueue,
         m_CtrlDataQueue' = Append(m_CtrlDataQueue, c)
  PROVE  Stream' = Append(Stream, c)
<1>1. PICK s \in Seq(Seq(CtrlInfo)) :
        s = [i \in 1 .. Len(m_FrameCacheQueue) |-> m_FrameCacheQueue[i].ctrl_data]
  BY StreamTyped, Zenon
<1>2. PICK a \in Seq(CtrlInfo) : a = FlattenSeq(s)
  BY FlattenTyped, Zenon
<1>3. PICK q \in Seq(CtrlInfo) : q = m_CtrlDataQueue
  BY DEF GameTypeOK
<1>4. Stream = a \o q /\ Stream' = a \o Append(q, c)
  BY <1>1, <1>2, <1>3 DEF Stream
<1>5. a \o Append(q, c) = Append(a \o q, c)
  BY ConcatAppend
<1> QED
  BY <1>4, <1>5

LEMMA StreamSkipped ==
  ASSUME GameTypeOK, GameTypeOK', NEW x,
         m_FrameCacheQueue' = Append(m_FrameCacheQueue, x),
         x \in FrameInfo, x.ctrl_data = m_CtrlDataQueue, m_CtrlDataQueue' = <<>>
  PROVE  Stream' = Stream
<1>1. PICK q \in Seq(CtrlInfo) : q = m_CtrlDataQueue
  BY DEF GameTypeOK
<1>2. PICK s \in Seq(Seq(CtrlInfo)) :
        s = [i \in 1 .. Len(m_FrameCacheQueue) |-> m_FrameCacheQueue[i].ctrl_data]
  BY StreamTyped, Zenon
<1>3. PICK n \in Nat : n = Len(m_FrameCacheQueue)
  BY DEF GameTypeOK
<1>4. PICK t : t = [i \in 1 .. Len(m_FrameCacheQueue)' |->
                      (m_FrameCacheQueue[i].ctrl_data)']
  OBVIOUS
<1>5. PICK m : m = m_FrameCacheQueue'
  OBVIOUS
<1>6. /\ Len(m) = n + 1 /\ m[n + 1] = x
      /\ \A i \in 1 .. n : m[i] = m_FrameCacheQueue[i]
  BY <1>3, <1>5 DEF GameTypeOK
<1>7. t = [i \in 1 .. n + 1 |-> m[i].ctrl_data]
  BY <1>4, <1>5, <1>6
<1>8. t = Append(s, q)
  <2>1. PICK C : C = Seq(CtrlInfo)
    OBVIOUS
  <2>2. PICK u : u = Append(s, q)
    OBVIOUS
  <2>3. s \in Seq(C) /\ q \in C /\ Len(s) = n
    BY <1>2, <1>3, <2>1
  <2>4. /\ u \in Seq(C) /\ Len(u) = n + 1 /\ u[n + 1] = q
        /\ \A i \in 1 .. n : u[i] = s[i]
    BY <2>2, <2>3
  <2>5. \A i \in 1 .. n : s[i] = m_FrameCacheQueue[i].ctrl_data
    BY <1>2, <1>3
  <2>6. ASSUME NEW i \in 1 .. n + 1
        PROVE  u[i] = m[i].ctrl_data
    <3>1. CASE i = n + 1
      BY <1>1, <1>6, <2>4, <3>1
    <3>2. CASE i # n + 1
      <4>1. i \in 1 .. n
        BY <3>2
      <4> QED
        BY <1>6, <2>4, <2>5, <4>1
    <3> QED
      BY <3>1, <3>2
  <2>7. u = [i \in 1 .. n + 1 |-> m[i].ctrl_data]
    BY <2>4, <2>6
  <2> QED
    BY <1>7, <2>2, <2>7
<1>9. FlattenSeq(t) = FlattenSeq(s) \o q
  BY <1>8, FlattenAppend, Zenon
<1>10. PICK z \in Seq(CtrlInfo) : z = FlattenSeq(s) \o q
  BY FlattenTyped, ConcatProperties, Zenon
<1>11. z \o <<>> = z
  OBVIOUS
<1>12. Stream = z
  BY <1>1, <1>2, <1>10 DEF Stream
<1>13. Stream' = FlattenSeq(t) \o <<>>
  BY <1>4 DEF Stream
<1> QED
  BY <1>9, <1>10, <1>11, <1>12, <1>13, Zenon

(* What is in the frames for pid, by a function on controls.                *)
LEMMA FramedIs ==
  ASSUME NEW pid
  PROVE  \E f \in [CtrlInfo -> Seq(Controls)] :
           /\ \A c \in CtrlInfo : f[c] = InFrame(pid, c)
           /\ Stream \in Seq(CtrlInfo) => Framed(pid) = FlattenSeq(Each(Stream, f))
           /\ Stream' \in Seq(CtrlInfo) =>
                Framed(pid)' = FlattenSeq(Each(Stream', f))
<1>1. ASSUME NEW c \in CtrlInfo
      PROVE  InFrame(pid, c) \in Seq(Controls)
  <2>1. CASE c.action \in Controls
    <3>1. <<c.action>> \in Seq(Controls) /\ <<>> \in Seq(Controls)
      BY <2>1
    <3> QED
      BY <3>1, Zenon DEF InFrame
  <2>2. CASE c.action \notin Controls
    BY <2>2 DEF InFrame
  <2> QED
    BY <2>1, <2>2
<1> DEFINE f == [c \in CtrlInfo |-> InFrame(pid, c)]
<1>2. f \in [CtrlInfo -> Seq(Controls)] /\ \A c \in CtrlInfo : f[c] = InFrame(pid, c)
  BY <1>1
<1>3. ASSUME NEW q \in Seq(CtrlInfo)
      PROVE  Each(q, f) = [k \in 1 .. Len(q) |->
               IF q[k].pid = pid /\ q[k].action \in Controls
               THEN <<q[k].action>> ELSE <<>>]
  <2>1. \A k \in 1 .. Len(q) : q[k] \in CtrlInfo
    OBVIOUS
  <2>2. \A k \in 1 .. Len(q) : f[q[k]] = InFrame(pid, q[k])
    BY <1>2, <2>1, Zenon
  <2> HIDE DEF f
  <2>3. Each(q, f) = [k \in 1 .. Len(q) |-> InFrame(pid, q[k])]
    BY <2>2 DEF Each
  <2> QED
    BY <2>3 DEF InFrame
<1> HIDE DEF f
<1>4. Stream \in Seq(CtrlInfo) => Framed(pid) = FlattenSeq(Each(Stream, f))
  BY <1>3 DEF Framed
<1>5. Stream' \in Seq(CtrlInfo) => Framed(pid)' = FlattenSeq(Each(Stream', f))
  <2> SUFFICES ASSUME Stream' \in Seq(CtrlInfo)
               PROVE  Framed(pid)' = FlattenSeq(Each(Stream', f))
    OBVIOUS
  <2>1. PICK q \in Seq(CtrlInfo) : q = Stream'
    OBVIOUS
  <2>2. Framed(pid)' = FlattenSeq([k \in 1 .. Len(q) |->
               IF q[k].pid = pid /\ q[k].action \in Controls
               THEN <<q[k].action>> ELSE <<>>])
    BY <2>1 DEF Framed
  <2> QED
    BY <1>3, <2>1, <2>2
<1> QED
  BY <1>2, <1>4, <1>5, Zenon

LEMMA FramedPushed ==
  ASSUME NEW pid, Stream \in Seq(CtrlInfo), NEW c \in CtrlInfo,
         Stream' = Append(Stream, c)
  PROVE  /\ Framed(pid) \in Seq(Controls) /\ InFrame(pid, c) \in Seq(Controls)
         /\ Framed(pid)' = Framed(pid) \o InFrame(pid, c)
<1>1. PICK f \in [CtrlInfo -> Seq(Controls)] :
        /\ \A d \in CtrlInfo : f[d] = InFrame(pid, d)
        /\ Stream \in Seq(CtrlInfo) => Framed(pid) = FlattenSeq(Each(Stream, f))
        /\ Stream' \in Seq(CtrlInfo) => Framed(pid)' = FlattenSeq(Each(Stream', f))
  BY FramedIs, Zenon
<1>2. PICK q \in Seq(CtrlInfo) : q = Stream
  OBVIOUS
<1>3. Append(q, c) \in Seq(CtrlInfo)
  OBVIOUS
<1>4. /\ Framed(pid) = FlattenSeq(Each(q, f))
      /\ Framed(pid)' = FlattenSeq(Each(Append(q, c), f))
  BY <1>1, <1>2, <1>3, Zenon
<1>5. FlattenSeq(Each(q, f)) \in Seq(Controls)
  BY EachTyped, Zenon
<1>6. FlattenSeq(Each(Append(q, c), f)) = FlattenSeq(Each(q, f)) \o f[c]
  BY EachAppend, Zenon
<1>7. f[c] = InFrame(pid, c) /\ f[c] \in Seq(Controls)
  BY <1>1
<1> QED
  BY <1>4, <1>5, <1>6, <1>7, Zenon

LEMMA FramedSame ==
  ASSUME NEW pid, Stream' = Stream
  PROVE  Framed(pid)' = Framed(pid)
BY DEF Framed

LEMMA FramedTyped ==
  ASSUME NEW pid, Stream \in Seq(CtrlInfo)
  PROVE  Framed(pid) \in Seq(Controls)
<1>1. PICK f \in [CtrlInfo -> Seq(Controls)] :
        /\ \A d \in CtrlInfo : f[d] = InFrame(pid, d)
        /\ Stream \in Seq(CtrlInfo) => Framed(pid) = FlattenSeq(Each(Stream, f))
        /\ Stream' \in Seq(CtrlInfo) => Framed(pid)' = FlattenSeq(Each(Stream', f))
  BY FramedIs, Zenon
<1>2. PICK q \in Seq(CtrlInfo) : q = Stream
  OBVIOUS
<1>3. FlattenSeq(Each(q, f)) \in Seq(Controls)
  BY EachTyped, Zenon
<1> QED
  BY <1>1, <1>2, <1>3

-----------------------------------------------------------------------------
(* The order of what is in the mailboxes.                                   *)
Mail(pid) == agentq[get_user_agent(pid)]

KeysOrdered(pid) ==
  Ordered(Mail(pid), Keys(pid), Arrivals(pid), Kicks(pid), pid \in m_SceneAgent)

PressesOrdered(pid) == Ordered(sceneq, Presses(pid), {}, Leavings(pid), TRUE)

LEMMA KeysInvIs ==
  ASSUME NEW pid
  PROVE  /\ KeysInv(pid) <=> /\ HasKeys(pid) \/ HasPresses(pid) => pid \in m_Players
                             /\ KeysOrdered(pid) /\ PressesOrdered(pid)
         /\ KeysInv(pid)' <=> /\ HasKeys(pid)' \/ HasPresses(pid)' => pid \in m_Players'
                              /\ KeysOrdered(pid)' /\ PressesOrdered(pid)'
BY DEF KeysInv, KeysOrdered, PressesOrdered, Mail

LEMMA MailType ==
  ASSUME TypeOK, NEW pid \in Pids
  PROVE  Mail(pid) \in Seq(AgentMsg) /\ get_user_agent(pid) \in Agents
BY AgentOfPid DEF TypeOK, Mail

(* None of T follows one of D.                                              *)
LEMMA OrderedEnds ==
  ASSUME NEW S, NEW q \in Seq(S), q # <<>>, NEW T, NEW E, NEW D, NEW c,
         Ordered(q, T, E, D, c), Head(q) \in D, Head(q) \notin T
  PROVE  \A m \in Range(q) : m \notin T
<1>1. 1 \in DOMAIN q /\ q[1] = Head(q)
  OBVIOUS
<1>2. ASSUME NEW i \in DOMAIN q, q[i] \in T
      PROVE  FALSE
  <2>1. 1 < i
    BY <1>1, <1>2
  <2> QED
    BY <1>1, <1>2, <2>1 DEF Ordered
<1> QED
  BY <1>2 DEF Range

LEMMA OrderedNone ==
  ASSUME NEW q, NEW T, NEW E, NEW D, NEW c, \A m \in Range(q) : m \notin T
  PROVE  Ordered(q, T, E, D, c)
BY DEF Ordered, Range

LEMMA OrderedSooner ==
  ASSUME NEW q, NEW T, NEW E, NEW D, NEW c, NEW d, Ordered(q, T, E, D, c), c => d
  PROVE  Ordered(q, T, E, D, d)
BY DEF Ordered

(* An agent is sent a message: one of a user comes after the player is let  *)
(* in and before it is told to go.                                          *)
LEMMA KeysSent ==
  ASSUME TypeOK, NEW pid \in Pids, KeysOrdered(pid), NEW p \in Pids,
         NEW m \in AgentMsg, m.pid = p, agentq' = SendAgent(agentq, p, m),
         m_SceneAgent' = m_SceneAgent,
         m \in Keys(pid) =>
           /\ pid \in m_SceneAgent \/ \E e \in Range(Mail(pid)) : e \in Arrivals(pid)
           /\ \A d \in Range(Mail(pid)) : d \notin Kicks(pid)
  PROVE  /\ KeysOrdered(pid)'
         /\ HasKeys(pid)' => HasKeys(pid) \/ m \in Keys(pid)
         /\ Posted(pid, Mail(pid)') = Posted(pid, Mail(pid)) \o InMail(pid, m)
<1> DEFINE u == get_user_agent(pid)
<1>1. PICK q \in Seq(AgentMsg) : q = Mail(pid)
  BY MailType
<1>2. PICK r : r = Mail(pid)'
  OBVIOUS
<1>3. u \in Agents /\ q = agentq[u] /\ r = agentq'[u]
  BY <1>1, <1>2, MailType DEF Mail
<1>4. \/ r = Append(q, m)
      \/ r = q /\ m \notin Keys(pid) /\ InMail(pid, m) = <<>>
  <2>1. CASE p = pid
    BY <1>3, <2>1, Sent
  <2>2. CASE p # pid
    <3>1. m \notin Keys(pid) /\ InMail(pid, m) = <<>>
      BY <2>2 DEF Keys, InMail
    <3> QED
      BY <1>3, <3>1, Sent
  <2> QED
    BY <2>1, <2>2
<1>5. Ordered(q, Keys(pid), Arrivals(pid), Kicks(pid), pid \in m_SceneAgent)
  BY <1>1 DEF KeysOrdered
<1>6. CASE r = Append(q, m)
  <2>1. Ordered(r, Keys(pid), Arrivals(pid), Kicks(pid), pid \in m_SceneAgent)
    <3> DEFINE T == Keys(pid)
               E == Arrivals(pid)
               D == Kicks(pid)
               c == pid \in m_SceneAgent
    <3>1. /\ Ordered(q, T, E, D, c)
          /\ m \in T => /\ c \/ \E e \in Range(q) : e \in E
                        /\ \A d \in Range(q) : d \notin D
      BY <1>1, <1>5
    <3> HIDE DEF T, E, D, c
    <3>2. Ordered(Append(q, m), T, E, D, c)
      BY <3>1, OrderedAppend
    <3> QED
      BY <1>6, <3>2 DEF T, E, D, c
  <2>2. Range(r) = Range(q) \cup {m}
    BY <1>6, AppendFacts
  <2>3. Posted(pid, r) = Posted(pid, q) \o InMail(pid, m)
    BY <1>6, PostedAppend, PostsTyped, Zenon
  <2>4. Ordered(Mail(pid)', Keys(pid), Arrivals(pid), Kicks(pid), pid \in m_SceneAgent')
    BY <1>2, <2>1
  <2>5. KeysOrdered(pid)'
    BY <2>4 DEF KeysOrdered, Keys, Arrivals, Kicks
  <2>6. HasKeys(pid)' => HasKeys(pid) \/ m \in Keys(pid)
    BY <1>1, <1>2, <2>2 DEF HasKeys, Mail, Keys
  <2> QED
    BY <1>1, <1>2, <2>3, <2>5, <2>6
<1>7. CASE r = q /\ m \notin Keys(pid) /\ InMail(pid, m) = <<>>
  <2>1. KeysOrdered(pid)' /\ (HasKeys(pid)' => HasKeys(pid))
    <3>1. Mail(pid)' = Mail(pid)
      BY <1>1, <1>2, <1>7
    <3> QED
      BY <3>1 DEF KeysOrdered, HasKeys, Mail, Keys, Arrivals, Kicks
  <2>2. PICK z \in Seq(Controls) : z = Posted(pid, q)
    BY PostedTyped, PostsTyped
  <2>3. z \o <<>> = z
    OBVIOUS
  <2> QED
    BY <1>1, <1>2, <1>7, <2>1, <2>2, <2>3
<1> QED
  BY <1>4, <1>6, <1>7

(* An agent takes a message.                                                *)
LEMMA KeysTaken ==
  ASSUME TypeOK, HomeInv, NEW pid \in Pids, KeysOrdered(pid), NEW a \in Agents,
         agentq[a] # <<>>, agentq' = [agentq EXCEPT ![a] = Tail(@)],
         \/ Head(agentq[a]) \in Kicks(pid)
         \/ pid \in m_SceneAgent \/ Head(agentq[a]) \in Arrivals(pid)
              => pid \in m_SceneAgent'
  PROVE  /\ KeysOrdered(pid)'
         /\ HasKeys(pid)' => HasKeys(pid)
         /\ Head(agentq[a]) \in Kicks(pid) => ~HasKeys(pid)
         /\ InMail(pid, Head(agentq[a])) \in Seq(Controls)
         /\ Posted(pid, Mail(pid)) =
              InMail(pid, Head(agentq[a])) \o Posted(pid, Mail(pid)')
<1> DEFINE u == get_user_agent(pid)
<1>1. PICK q \in Seq(AgentMsg) : q = Mail(pid)
  BY MailType
<1>2. PICK r : r = Mail(pid)'
  OBVIOUS
<1>3. u \in Agents /\ q = agentq[u] /\ r = agentq'[u]
  BY <1>1, <1>2, MailType DEF Mail
<1>4. PICK m \in AgentMsg : m = Head(agentq[a])
  BY Taken
<1>5. Ordered(q, Keys(pid), Arrivals(pid), Kicks(pid), pid \in m_SceneAgent)
  BY <1>1 DEF KeysOrdered
<1>6. KeysOrdered(pid)' <=>
        Ordered(r, Keys(pid), Arrivals(pid), Kicks(pid), pid \in m_SceneAgent')
  BY <1>2 DEF KeysOrdered, Keys, Arrivals, Kicks
<1>7. InMail(pid, m) \in Seq(Controls)
  BY PostsTyped DEF Posts
<1>8. CASE a = u
  <2>1. q # <<>> /\ r = Tail(q) /\ m = Head(q)
    BY <1>3, <1>4, <1>8 DEF TypeOK
  <2>2. Range(r) \subseteq Range(q)
    BY <2>1, TailFacts
  <2>3. HasKeys(pid)' => HasKeys(pid)
    BY <1>1, <1>2, <2>2 DEF HasKeys, Mail, Keys
  <2>4. Posted(pid, q) = InMail(pid, m) \o Posted(pid, r)
    BY <2>1, PostedTail, PostsTyped, Zenon
  <2>5. ASSUME m \in Kicks(pid)
        PROVE  \A n \in Range(q) : n \notin Keys(pid)
    <3>1. m \notin Keys(pid)
      BY <2>5 DEF Kicks, Keys
    <3> QED
      BY <1>5, <2>1, <2>5, <3>1, OrderedEnds
  <2>6. m \in Kicks(pid) => ~HasKeys(pid)
    BY <1>1, <2>5 DEF HasKeys, Mail
  <2>7. Ordered(r, Keys(pid), Arrivals(pid), Kicks(pid), pid \in m_SceneAgent')
    <3>1. CASE m \in Kicks(pid)
      BY <2>2, <2>5, <3>1, OrderedNone
    <3>2. CASE pid \in m_SceneAgent \/ m \in Arrivals(pid) => pid \in m_SceneAgent'
      <4> DEFINE T == Keys(pid)
                 E == Arrivals(pid)
                 D == Kicks(pid)
                 c == pid \in m_SceneAgent
                 d == pid \in m_SceneAgent'
      <4>1. Ordered(q, T, E, D, c) /\ (c \/ Head(q) \in E => d)
        BY <1>5, <2>1, <3>2
      <4> HIDE DEF T, E, D, c, d
      <4>2. Ordered(Tail(q), T, E, D, d)
        BY <2>1, <4>1, OrderedTail
      <4> QED
        BY <2>1, <4>2 DEF T, E, D, d
    <3> QED
      BY <1>4, <3>1, <3>2
  <2> QED
    BY <1>1, <1>2, <1>4, <1>6, <1>7, <2>3, <2>4, <2>6, <2>7
<1>9. CASE a # u
  <2>1. r = q /\ m.pid # pid
    <3>1. r = q
      BY <1>3, <1>9, Taken
    <3>2. m \in Range(agentq[a])
      BY <1>4, Taken
    <3>3. get_user_agent(m.pid) = a
      BY <3>2 DEF HomeInv
    <3> QED
      BY <1>9, <3>1, <3>3
  <2>2. m \notin Kicks(pid) /\ InMail(pid, m) = <<>>
    BY <2>1 DEF Kicks, InMail
  <2>3. KeysOrdered(pid)'
    <3>1. pid \in m_SceneAgent => pid \in m_SceneAgent'
      BY <1>4, <2>2
    <3> DEFINE T == Keys(pid)
               E == Arrivals(pid)
               D == Kicks(pid)
               c == pid \in m_SceneAgent
               d == pid \in m_SceneAgent'
    <3>2. Ordered(q, T, E, D, c) /\ (c => d)
      BY <1>5, <3>1
    <3> HIDE DEF T, E, D, c, d
    <3>3. Ordered(q, T, E, D, d)
      BY <3>2, OrderedSooner
    <3> QED
      BY <1>6, <2>1, <3>3 DEF T, E, D, d
  <2>4. HasKeys(pid)' => HasKeys(pid)
    BY <1>1, <1>2, <2>1 DEF HasKeys, Mail, Keys
  <2>5. PICK z \in Seq(Controls) : z = Posted(pid, q)
    BY PostedTyped, PostsTyped
  <2>6. <<>> \o z = z
    OBVIOUS
  <2> QED
    BY <1>1, <1>2, <1>4, <1>7, <2>1, <2>2, <2>3, <2>4, <2>5, <2>6
<1> QED
  BY <1>8, <1>9

(* An answer gets in anywhere.                                              *)
LEMMA KeysAnswered ==
  ASSUME TypeOK, NEW pid \in Pids, KeysOrdered(pid), NEW a \in Agents,
         NEW m \in AgentMsg, m.cmd = "entering",
         NEW mailbox \in Answer(agentq[a], m),
         agentq' = [agentq EXCEPT ![a] = mailbox], m_SceneAgent' = m_SceneAgent
  PROVE  /\ KeysOrdered(pid)'
         /\ HasKeys(pid)' => HasKeys(pid)
         /\ Posted(pid, Mail(pid)') = Posted(pid, Mail(pid))
<1> DEFINE u == get_user_agent(pid)
<1>1. PICK q \in Seq(AgentMsg) : q = Mail(pid)
  BY MailType
<1>2. PICK r : r = Mail(pid)'
  OBVIOUS
<1>3. u \in Agents /\ q = agentq[u] /\ r = agentq'[u]
  BY <1>1, <1>2, MailType DEF Mail
<1>4. m \notin Keys(pid) /\ m \notin Kicks(pid) /\ InMail(pid, m) = <<>>
  BY DEF Keys, Kicks, InMail
<1>5. Ordered(q, Keys(pid), Arrivals(pid), Kicks(pid), pid \in m_SceneAgent)
  BY <1>1 DEF KeysOrdered
<1>6. KeysOrdered(pid)' <=>
        Ordered(r, Keys(pid), Arrivals(pid), Kicks(pid), pid \in m_SceneAgent)
  BY <1>2 DEF KeysOrdered, Keys, Arrivals, Kicks
<1>7. CASE a = u
  <2>1. PICK k \in 1 .. Len(q) + 1 : r = InsertAt(q, k, m) /\ GotIn(q, m, r, k)
    <3>1. \E k \in 1 .. Len(agentq[a]) + 1 :
            agentq'[a] = InsertAt(agentq[a], k, m) /\ GotIn(agentq[a], m, agentq'[a], k)
      BY Answered
    <3> QED
      BY <1>3, <1>7, <3>1
  <2>2. k \in Nat /\ r \in Seq(AgentMsg) /\ Range(r) = Range(q) \cup {m}
    BY <2>1, InsertFacts
  <2>3. Ordered(r, Keys(pid), Arrivals(pid), Kicks(pid), pid \in m_SceneAgent)
    BY <1>4, <1>5, <2>1, <2>2, OrderedInsert
  <2>4. HasKeys(pid)' => HasKeys(pid)
    BY <1>1, <1>2, <1>4, <2>2 DEF HasKeys, Mail, Keys
  <2>5. Posted(pid, r) = Posted(pid, q)
    BY <1>4, <2>1, <2>2, PostedInsert, PostsTyped, Zenon
  <2> QED
    BY <1>1, <1>2, <1>6, <2>3, <2>4, <2>5
<1>8. CASE a # u
  <2>1. r = q
    BY <1>3, <1>8, Answered
  <2>2. HasKeys(pid)' => HasKeys(pid)
    BY <1>1, <1>2, <2>1 DEF HasKeys, Mail, Keys
  <2> QED
    BY <1>1, <1>2, <1>5, <1>6, <2>1, <2>2
<1> QED
  BY <1>7, <1>8

LEMMA KeysUnchanged ==
  ASSUME NEW pid \in Pids, KeysOrdered(pid), agentq' = agentq,
         m_SceneAgent' = m_SceneAgent
  PROVE  /\ KeysOrdered(pid)'
         /\ HasKeys(pid)' => HasKeys(pid)
         /\ Posted(pid, Mail(pid)') = Posted(pid, Mail(pid))
BY DEF KeysOrdered, HasKeys, Mail, Keys, Arrivals, Kicks

(* The scene is sent a message, and takes one.                              *)
LEMMA PressesSent ==
  ASSUME TypeOK, NEW pid \in Pids, PressesOrdered(pid), NEW m \in SceneMsg,
         sceneq' = Append(sceneq, m),
         m \in Presses(pid) => \A d \in Range(sceneq) : d \notin Leavings(pid)
  PROVE  /\ PressesOrdered(pid)'
         /\ HasPresses(pid)' => HasPresses(pid) \/ m \in Presses(pid)
         /\ Posted(pid, sceneq') = Posted(pid, sceneq) \o InMail(pid, m)
<1>1. PICK q \in Seq(SceneMsg) : q = sceneq
  BY DEF TypeOK
<1>2. PICK r : r = sceneq' /\ r = Append(q, m)
  BY <1>1
<1>3. Ordered(r, Presses(pid), {}, Leavings(pid), TRUE)
  <2> DEFINE T == Presses(pid)
             D == Leavings(pid)
  <2>1. Ordered(q, T, {}, D, TRUE) /\ (m \in T => \A d \in Range(q) : d \notin D)
    BY <1>1 DEF PressesOrdered
  <2> HIDE DEF T, D
  <2>2. Ordered(Append(q, m), T, {}, D, TRUE)
    BY <2>1, OrderedAppend
  <2> QED
    BY <1>2, <2>2 DEF T, D
<1>4. Range(r) = Range(q) \cup {m}
  BY <1>2, AppendFacts
<1>5. HasPresses(pid)' => HasPresses(pid) \/ m \in Presses(pid)
  BY <1>1, <1>2, <1>4 DEF HasPresses, Presses
<1>6. Posted(pid, r) = Posted(pid, q) \o InMail(pid, m)
  BY <1>2, PostedAppend, PostsTyped, Zenon
<1>7. PressesOrdered(pid)'
  BY <1>2, <1>3 DEF PressesOrdered, Presses, Leavings
<1> QED
  BY <1>1, <1>2, <1>5, <1>6, <1>7

LEMMA PressesTaken ==
  ASSUME TypeOK, NEW pid \in Pids, PressesOrdered(pid), sceneq # <<>>,
         sceneq' = Tail(sceneq)
  PROVE  /\ PressesOrdered(pid)'
         /\ HasPresses(pid)' => HasPresses(pid)
         /\ Head(sceneq) \in Leavings(pid) => ~HasPresses(pid)
         /\ Head(sceneq) \in SceneMsg
         /\ Head(sceneq) \in Presses(pid) => HasPresses(pid)
         /\ InMail(pid, Head(sceneq)) \in Seq(Controls)
         /\ Posted(pid, sceneq) = InMail(pid, Head(sceneq)) \o Posted(pid, sceneq')
<1>1. PICK q \in Seq(SceneMsg) : q = sceneq
  BY DEF TypeOK
<1>2. PICK r : r = sceneq' /\ r = Tail(q)
  BY <1>1
<1>3. q # <<>> /\ Head(q) \in SceneMsg /\ Range(r) \subseteq Range(q)
      /\ Head(q) \in Range(q)
  BY <1>1, <1>2, TailFacts
<1>4. PICK m \in SceneMsg : m = Head(q)
  BY <1>3
<1> DEFINE T == Presses(pid)
           D == Leavings(pid)
<1>5. Ordered(q, T, {}, D, TRUE)
  BY <1>1 DEF PressesOrdered
<1>6. m \in D => m \notin T
  BY DEF Presses, Leavings
<1>7. PressesOrdered(pid)' <=> Ordered(r, T, {}, D, TRUE)
  BY <1>2 DEF PressesOrdered, Presses, Leavings
<1>8. HasPresses(pid)' => HasPresses(pid)
  BY <1>1, <1>2, <1>3 DEF HasPresses, Presses
<1>9. HasPresses(pid) <=> \E n \in Range(q) : n \in T
  BY <1>1 DEF HasPresses
<1> HIDE DEF T, D
<1>10. Ordered(r, T, {}, D, TRUE)
  BY <1>2, <1>3, <1>5, OrderedTail
<1>11. m \in D => ~HasPresses(pid)
  BY <1>3, <1>4, <1>5, <1>6, <1>9, OrderedEnds
<1>12. Posted(pid, q) = InMail(pid, m) \o Posted(pid, r)
  BY <1>2, <1>3, <1>4, PostedTail, PostsTyped, Zenon
<1>13. InMail(pid, m) \in Seq(Controls)
  BY PostsTyped DEF Posts
<1>14. m \in T => HasPresses(pid)
  BY <1>3, <1>4, <1>9
<1> QED
  BY <1>1, <1>2, <1>4, <1>7, <1>8, <1>10, <1>11, <1>12, <1>13, <1>14 DEF T, D

LEMMA PressesUnchanged ==
  ASSUME NEW pid \in Pids, PressesOrdered(pid), sceneq' = sceneq
  PROVE  /\ PressesOrdered(pid)'
         /\ HasPresses(pid)' => HasPresses(pid)
         /\ Posted(pid, sceneq') = Posted(pid, sceneq)
BY DEF PressesOrdered, HasPresses, Presses, Leavings

-----------------------------------------------------------------------------
(* What a step moves on for pid: x from the scene's mailbox into the frames,*)
(* y from the agent's to the scene's, and z from its user to the agent's.   *)
Moved(pid, x, y, z) ==
  /\ x \in Seq(Controls) /\ y \in Seq(Controls) /\ z \in Seq(Controls)
  /\ Framed(pid)' = Framed(pid) \o x
  /\ x \o Posted(pid, sceneq') = Posted(pid, sceneq) \o y
  /\ y \o Posted(pid, Mail(pid)') = Posted(pid, Mail(pid)) \o z
  /\ inputs'[pid] = inputs[pid] \o z

Slides(x, d, b, y) == x \o d = b \o y

Chains(a, b, c, d, e, x, z) == ((a \o x) \o d) \o e = ((a \o b) \o c) \o z

LEMMA ChainMoved ==
  ASSUME NEW S, NEW a \in Seq(S), NEW b \in Seq(S), NEW c \in Seq(S),
         NEW d \in Seq(S), NEW e \in Seq(S),
         NEW x \in Seq(S), NEW y \in Seq(S), NEW z \in Seq(S),
         Slides(x, d, b, y), Slides(y, e, c, z)
  PROVE  Chains(a, b, c, d, e, x, z)
<1>1. PICK ab \in Seq(S) : ab = a \o b
  BY ConcatProperties, Zenon
<1>0. /\ Associates(a, x, d) /\ Associates(a, b, y)
      /\ Associates(ab, y, e) /\ Associates(ab, c, z)
  BY ConcatsAre, Zenon
<1>2. (a \o x) \o d = a \o (x \o d)
  BY <1>0, Zenon DEF Associates
<1>3. (a \o b) \o y = a \o (b \o y)
  BY <1>0, Zenon DEF Associates
<1>4. (ab \o y) \o e = ab \o (y \o e)
  BY <1>0, Zenon DEF Associates
<1>5. (ab \o c) \o z = ab \o (c \o z)
  BY <1>0, Zenon DEF Associates
<1>6. a \o (x \o d) = a \o (b \o y)
  BY Zenon DEF Slides
<1>7. ab \o (y \o e) = ab \o (c \o z)
  BY Zenon DEF Slides
<1>8. (a \o x) \o d = ab \o y
  BY <1>1, <1>2, <1>3, <1>6, Zenon
<1>9. ((a \o x) \o d) \o e = (ab \o y) \o e
  BY <1>8, Zenon
<1>10. ((a \o b) \o c) \o z = (ab \o c) \o z
  BY <1>1, Zenon
<1> QED
  BY <1>4, <1>5, <1>7, <1>9, <1>10, Zenon DEF Chains

LEMMA PartsTyped ==
  ASSUME TypeOK, NEW pid \in Pids
  PROVE  /\ Stream \in Seq(CtrlInfo) /\ Framed(pid) \in Seq(Controls)
         /\ Posted(pid, sceneq) \in Seq(Controls)
         /\ Posted(pid, Mail(pid)) \in Seq(Controls)
         /\ inputs[pid] \in Seq(Controls)
<1>1. GameTypeOK /\ sceneq \in Seq(SceneMsg) /\ inputs[pid] \in Seq(Controls)
  BY DEF TypeOK
<1>2. Stream \in Seq(CtrlInfo)
  BY <1>1, StreamTyped
<1>3. Framed(pid) \in Seq(Controls)
  BY <1>2, FramedTyped
<1>4. Posted(pid, sceneq) \in Seq(Controls)
  BY <1>1, PostedTyped, PostsTyped
<1>5. Posted(pid, Mail(pid)) \in Seq(Controls)
  BY MailType, PostedTyped, PostsTyped
<1> QED
  BY <1>1, <1>2, <1>3, <1>4, <1>5

LEMMA MovedKeeps ==
  ASSUME TypeOK, TypeOK', NEW pid \in Pids, ControlsOf(pid) = inputs[pid],
         NEW x, NEW y, NEW z, Moved(pid, x, y, z)
  PROVE  ControlsOf(pid)' = inputs'[pid]
<1>1. PICK a \in Seq(Controls), b \in Seq(Controls), c \in Seq(Controls) :
        a = Framed(pid) /\ b = Posted(pid, sceneq) /\ c = Posted(pid, Mail(pid))
  BY PartsTyped, Zenon
<1>2. sceneq' \in Seq(SceneMsg) /\ Mail(pid)' \in Seq(AgentMsg)
  <2>1. sceneq' \in Seq(SceneMsg) /\ agentq' \in [Agents -> Seq(AgentMsg)]
    BY DEF TypeOK, SceneMsg, AgentMsg, Agents, Fds
  <2>2. Mail(pid)' = agentq'[get_user_agent(pid)]
    BY DEF Mail
  <2> QED
    BY <2>1, <2>2, AgentOfPid
<1>3. PICK d \in Seq(Controls) : d = Posted(pid, sceneq')
  BY <1>2, PostedTyped, PostsTyped
<1>4. PICK e \in Seq(Controls) : e = Posted(pid, Mail(pid)')
  BY <1>2, PostedTyped, PostsTyped
<1>5. /\ x \in Seq(Controls) /\ y \in Seq(Controls) /\ z \in Seq(Controls)
      /\ Framed(pid)' = a \o x /\ x \o d = b \o y /\ y \o e = c \o z
      /\ inputs'[pid] = inputs[pid] \o z
  BY <1>1, <1>3, <1>4, Zenon DEF Moved
<1>6. ((a \o x) \o d) \o e = ((a \o b) \o c) \o z
  <2>1. Slides(x, d, b, y) /\ Slides(y, e, c, z)
    BY <1>5, Zenon DEF Slides
  <2>2. x \in Seq(Controls) /\ y \in Seq(Controls) /\ z \in Seq(Controls)
    BY <1>5, Zenon
  <2>3. /\ a \in Seq(Controls) /\ b \in Seq(Controls) /\ c \in Seq(Controls)
        /\ d \in Seq(Controls) /\ e \in Seq(Controls)
    OBVIOUS
  <2> QED
    <3>1. Chains(a, b, c, d, e, x, z)
      BY <2>1, <2>2, <2>3, ChainMoved, Zenon
    <3> QED
      BY <3>1, Zenon DEF Chains
<1>7. ControlsOf(pid) = (a \o b) \o c
  BY <1>1, Zenon DEF ControlsOf, Mail
<1>8. ControlsOf(pid)' = ((a \o x) \o d) \o e
  <2>1. Posted(pid, sceneq)' = d /\ Posted(pid, agentq[get_user_agent(pid)])' = e
    BY <1>3, <1>4 DEF Posted, Mail
  <2>2. ControlsOf(pid)' = (Framed(pid)' \o d) \o e
    BY <2>1, Zenon DEF ControlsOf
  <2> QED
    BY <1>5, <2>2, Zenon
<1> QED
  BY <1>5, <1>6, <1>7, <1>8, Zenon

(* Nothing moves.                                                           *)
LEMMA NothingOn ==
  ASSUME NEW S, NEW a \in Seq(S)
  PROVE  <<>> \in Seq(S) /\ a \o <<>> = a /\ <<>> \o a = a
OBVIOUS

LEMMA PartsTypedNext ==
  ASSUME TypeOK', NEW pid \in Pids
  PROVE  /\ Posted(pid, sceneq') \in Seq(Controls)
         /\ Posted(pid, Mail(pid)') \in Seq(Controls)
<1>1. sceneq' \in Seq(SceneMsg) /\ agentq' \in [Agents -> Seq(AgentMsg)]
  BY DEF TypeOK, SceneMsg, AgentMsg, Agents, Fds
<1>2. Mail(pid)' = agentq'[get_user_agent(pid)]
  BY DEF Mail
<1>3. Mail(pid)' \in Seq(AgentMsg)
  BY <1>1, <1>2, AgentOfPid
<1> QED
  BY <1>1, <1>3, PostedTyped, PostsTyped

(* Into the agent's mailbox, over to the scene's, out into the frames.      *)
LEMMA MovedIn ==
  ASSUME TypeOK, TypeOK', NEW pid \in Pids, NEW z \in Seq(Controls),
         Framed(pid)' = Framed(pid), sceneq' = sceneq,
         Posted(pid, Mail(pid)') = Posted(pid, Mail(pid)) \o z,
         inputs'[pid] = inputs[pid] \o z
  PROVE  Moved(pid, <<>>, <<>>, z)
<1>1. /\ <<>> \in Seq(Controls)
      /\ Framed(pid) \o <<>> = Framed(pid)
      /\ <<>> \o Posted(pid, sceneq') = Posted(pid, sceneq')
      /\ Posted(pid, sceneq) \o <<>> = Posted(pid, sceneq)
      /\ <<>> \o Posted(pid, Mail(pid)') = Posted(pid, Mail(pid)')
  BY PartsTyped, PartsTypedNext, NothingOn, Zenon
<1>2. Posted(pid, sceneq') = Posted(pid, sceneq)
  OBVIOUS
<1> QED
  BY <1>1, <1>2, Zenon DEF Moved

LEMMA MovedOver ==
  ASSUME TypeOK, TypeOK', NEW pid \in Pids, NEW y \in Seq(Controls),
         Framed(pid)' = Framed(pid),
         Posted(pid, sceneq') = Posted(pid, sceneq) \o y,
         Posted(pid, Mail(pid)) = y \o Posted(pid, Mail(pid)'),
         inputs' = inputs
  PROVE  Moved(pid, <<>>, y, <<>>)
<1>1. /\ <<>> \in Seq(Controls)
      /\ Framed(pid) \o <<>> = Framed(pid)
      /\ <<>> \o Posted(pid, sceneq') = Posted(pid, sceneq')
      /\ Posted(pid, Mail(pid)) \o <<>> = Posted(pid, Mail(pid))
      /\ inputs[pid] \o <<>> = inputs[pid]
  BY PartsTyped, PartsTypedNext, NothingOn, Zenon
<1>2. inputs'[pid] = inputs[pid]
  OBVIOUS
<1> QED
  BY <1>1, <1>2, Zenon DEF Moved

LEMMA MovedOut ==
  ASSUME TypeOK, TypeOK', NEW pid \in Pids, NEW x \in Seq(Controls),
         Framed(pid)' = Framed(pid) \o x,
         Posted(pid, sceneq) = x \o Posted(pid, sceneq'),
         agentq' = agentq, inputs' = inputs
  PROVE  Moved(pid, x, <<>>, <<>>)
<1>1. /\ <<>> \in Seq(Controls)
      /\ Posted(pid, sceneq) \o <<>> = Posted(pid, sceneq)
      /\ <<>> \o Posted(pid, Mail(pid)') = Posted(pid, Mail(pid)')
      /\ Posted(pid, Mail(pid)) \o <<>> = Posted(pid, Mail(pid))
      /\ inputs[pid] \o <<>> = inputs[pid]
  BY PartsTyped, PartsTypedNext, NothingOn, Zenon
<1>2. inputs'[pid] = inputs[pid] /\ Posted(pid, Mail(pid)') = Posted(pid, Mail(pid))
  BY DEF Mail
<1> QED
  BY <1>1, <1>2, Zenon DEF Moved

-----------------------------------------------------------------------------
(* What the stage says of a pid with controls on their way.                 *)
LEMMA KeysStage ==
  ASSUME TypeOK, NEW pid \in Pids, Stage(pid), KeysInv(pid), HasKeys(pid)
  PROVE  /\ pid \in m_Players /\ GoingIn(pid) /\ playerlist[pid] # nil
<1>1. PICK q \in Seq(AgentMsg) : q = Mail(pid)
  BY MailType
<1>2. pid \in m_Players /\ KeysOrdered(pid)
  BY KeysInvIs
<1>3. ~Away(pid)
  <2> SUFFICES ASSUME Idle(pid), pid \notin m_SceneAgent
               PROVE  FALSE
    BY DEF Away, Absent
  <2>1. \A i \in DOMAIN q : q[i] \notin Duty(pid)
    BY <1>1, HoldsNone DEF Idle, ToDo, Mail
  <2>2. PICK i \in DOMAIN q : q[i] \in Keys(pid)
    BY <1>1 DEF HasKeys, Mail, Range
  <2>3. PICK j \in DOMAIN q : q[j] \in Arrivals(pid)
    BY <1>1, <1>2, <2>2 DEF KeysOrdered, Ordered
  <2>4. q[j] \in Duty(pid)
    BY <2>3 DEF Arrivals, Duty
  <2> QED
    BY <2>1, <2>4
<1>4. \A fd \in Fds : ~LogsIn(pid, fd) /\ ~Starting(pid, fd) /\ ~Calling(pid, fd)
  BY <1>2 DEF LogsIn, Starting, Calling, OutOfGame
<1>5. Kicked(pid) \/ \E fd \in Fds : EnteringScene(pid, fd) \/ Playing(pid, fd)
  BY <1>3, <1>4 DEF Stage
<1>6. GoingIn(pid)
  BY <1>5 DEF Kicked, EnteringScene, Playing
<1>7. nil \notin Fds
  BY FrameSyncAssumption DEF Fds
<1>8. playerlist[pid] # nil
  BY <1>5, <1>7 DEF Kicked, EnteringScene, Playing
<1> QED
  BY <1>2, <1>6, <1>8

LEMMA StaysIn ==
  ASSUME TypeOK, NEW pid, pid \in m_Players, GoingIn(pid)
  PROVE  \A m \in Range(sceneq) : m \notin Leavings(pid)
<1>1. \A i \in DOMAIN sceneq : sceneq[i] \notin Moves(pid)
  BY HoldsNone DEF GoingIn, Moving
<1>2. Leavings(pid) \subseteq Moves(pid)
  BY DEF Leavings, Moves
<1> QED
  BY <1>1, <1>2 DEF Range

(* A client whose own player is in its game has executed frames, and so its *)
(* player is one of the game.                                               *)
LEMMA MainRoleRuns ==
  ASSUME NEW c, NEW pid, MainRole(c, pid)
  PROVE  c.executed # <<>>
<1> SUFFICES ASSUME c.executed = <<>>
             PROVE  FALSE
  OBVIOUS
<1>1. Len(c.executed) = 0
  OBVIOUS
<1>2. [i \in 1 .. Len(c.executed) |-> c.executed[i].ctrl_data] = <<>>
  BY <1>1
<1>3. FlattenSeq([i \in 1 .. Len(c.executed) |-> c.executed[i].ctrl_data]) = <<>>
  BY <1>2, FlattenEmpty
<1>4. PICK s : s = FlattenSeq([i \in 1 .. Len(c.executed) |-> c.executed[i].ctrl_data])
  OBVIOUS
<1>5. \E k \in 1 .. Len(s) : TRUE
  BY <1>4 DEF MainRole
<1>6. Len(s) = 0
  BY <1>3, <1>4
<1> QED
  BY <1>5, <1>6

LEMMA MainRolePlays ==
  ASSUME TypeOK, LockInv, NEW fd \in Fds, NEW pid \in Pids, m_Pid[fd] = pid,
         MainRole(client[fd], pid)
  PROVE  pid \in m_Players
<1>1. client[fd] # NewClient
  BY MainRoleRuns DEF NewClient
<1>2. PICK p \in Pids : Owned(p, fd)
  BY <1>1 DEF LockInv, NobodyInv
<1>3. Owned(pid, fd)
  BY <1>2 DEF Owned
<1>4. PICK b, t, g : LinkBy(bcq, fd_map[pid], client[fd], pid, fd, Progress(pid), t,
                            m_FrameCacheQueue, b, g)
  BY <1>3 DEF LockInv, LinkInv, Link
<1>5. b \in 0 .. Len(bcq) /\ ClientAt(client[fd], g[b], t, m_FrameCacheQueue)
      /\ (Progress(pid) = 0 => \A k \in 0 .. Len(bcq) : g[k] = 0)
  BY <1>4 DEF LinkBy, Brings
<1>6. g[b] # 0
  BY <1>1, <1>5 DEF ClientAt
<1>7. Progress(pid) # 0
  BY <1>5, <1>6
<1> QED
  BY <1>7 DEF Progress

(* Who touches a key is in the game, let in by its agent and not told to go.*)
LEMMA MayTouch ==
  ASSUME TypeOK, ServedInv, LockInv, NEW fd \in Fds, fd \in conlist,
         NEW pid \in Pids, m_Pid[fd] = pid, MainRole(client[fd], pid)
  PROVE  /\ pid \in m_Players
         /\ pid \in m_SceneAgent \/ \E e \in Range(Mail(pid)) : e \in Arrivals(pid)
         /\ \A d \in Range(Mail(pid)) : d \notin Kicks(pid)
<1>1. pid \in m_Players
  BY MainRolePlays
<1>2. nil \notin Pids /\ Stage(pid) /\ fd \in Connected(pid)
  BY GateFacts DEF ServedInv, Connected
<1>3. EnteringScene(pid, fd) \/ Playing(pid, fd)
  <2>1. ~Starting(pid, fd) /\ ~Calling(pid, fd)
    BY <1>1 DEF Starting, Calling, OutOfGame
  <2> QED
    BY <1>2, <2>1, LoggedInOnly
<1>4. PICK q \in Seq(AgentMsg) : q = Mail(pid)
  BY MailType
<1>5. Kicks(pid) \subseteq Duty(pid)
  BY DEF Kicks, Duty
<1>6. CASE Playing(pid, fd)
  <2>1. \A i \in DOMAIN q : q[i] \notin Duty(pid)
    BY <1>4, <1>6, HoldsNone DEF Playing, Idle, ToDo, Mail
  <2>2. \A d \in Range(q) : d \notin Kicks(pid)
    BY <1>5, <2>1 DEF Range
  <2> QED
    BY <1>1, <1>4, <1>6, <2>2 DEF Playing
<1>7. CASE EnteringScene(pid, fd)
  <2> DEFINE e == Entering(pid, fd)
  <2>1. e \in Arrivals(pid) /\ e \notin Kicks(pid)
    BY DEF Arrivals, Kicks, Entering, AgentMsg
  <2> HIDE DEF e
  <2>2. Holds(q, Duty(pid), <<e>>)
    BY <1>4, <1>7 DEF EnteringScene, ToDo, Mail, e
  <2>3. PICK i \in DOMAIN q : q[i] = e /\ \A j \in DOMAIN q : q[j] \in Duty(pid) => j = i
    BY <2>2, HoldsOne
  <2>4. \A d \in Range(q) : d \notin Kicks(pid)
    BY <1>5, <2>1, <2>3 DEF Range
  <2>5. e \in Range(q)
    BY <2>3 DEF Range
  <2> QED
    BY <1>1, <1>4, <2>1, <2>4, <2>5
<1> QED
  BY <1>3, <1>6, <1>7

-----------------------------------------------------------------------------
(* Every step carries the controls of pid on, or leaves them where they are.*)
Carried(pid) == KeysInv(pid)' /\ \E x, y, z : Moved(pid, x, y, z)

LEMMA FramedStays ==
  ASSUME NEW pid, UNCHANGED <<m_FrameCacheQueue, m_CtrlDataQueue>>
  PROVE  Framed(pid)' = Framed(pid)
<1>1. Stream' = Stream
  BY DEF Stream
<1> QED
  BY <1>1, FramedSame

LEMMA CarriedGate ==
  ASSUME TypeOK, TypeOK', ServedInv, LockInv, NEW pid \in Pids, KeysInv(pid), Gate
  PROVE  Carried(pid)
<1>0. HasKeys(pid) \/ HasPresses(pid) => pid \in m_Players
  BY KeysInvIs
<1>a. KeysOrdered(pid) /\ PressesOrdered(pid)
  BY KeysInvIs
<1>b. UNCHANGED <<sceneq, m_Players, m_SceneAgent, m_FrameCacheQueue, m_CtrlDataQueue>>
  BY DEF Gate, NewConnection, loginsuc, DelConnection, touch_key, gameVars, agentVars
<1>c. Framed(pid)' = Framed(pid)
  BY <1>b, FramedStays
<1>d. PressesOrdered(pid)' /\ (HasPresses(pid)' => HasPresses(pid))
  BY <1>a, <1>b, PressesUnchanged
<1>e. <<>> \in Seq(Controls) /\ inputs[pid] \o <<>> = inputs[pid]
      /\ Posted(pid, Mail(pid)) \o <<>> = Posted(pid, Mail(pid))
  BY PartsTyped, NothingOn, Zenon
<1>1. ASSUME agentq' = agentq, inputs' = inputs
      PROVE  Carried(pid)
  <2>1. /\ KeysOrdered(pid)' /\ (HasKeys(pid)' => HasKeys(pid))
        /\ Posted(pid, Mail(pid)') = Posted(pid, Mail(pid))
    BY <1>1, <1>a, <1>b, KeysUnchanged
  <2>2. KeysInv(pid)'
    BY <1>0, <1>b, <1>d, <2>1, KeysInvIs
  <2>3. /\ Posted(pid, Mail(pid)') = Posted(pid, Mail(pid)) \o <<>>
        /\ inputs'[pid] = inputs[pid] \o <<>>
    BY <1>1, <1>e, <2>1, Zenon
  <2>4. Moved(pid, <<>>, <<>>, <<>>)
    BY <1>b, <1>c, <1>e, <2>3, MovedIn, Zenon
  <2> QED
    BY <2>2, <2>4, Zenon DEF Carried
<1>2. ASSUME NEW p \in Pids, NEW m \in AgentMsg, m.pid = p,
             agentq' = SendAgent(agentq, p, m),
             m \in Keys(pid) =>
               /\ pid \in m_Players
               /\ pid \in m_SceneAgent \/ \E e \in Range(Mail(pid)) : e \in Arrivals(pid)
               /\ \A d \in Range(Mail(pid)) : d \notin Kicks(pid),
             inputs'[pid] = inputs[pid] \o InMail(pid, m)
      PROVE  Carried(pid)
  <2>1. /\ KeysOrdered(pid)'
        /\ HasKeys(pid)' => HasKeys(pid) \/ m \in Keys(pid)
        /\ Posted(pid, Mail(pid)') = Posted(pid, Mail(pid)) \o InMail(pid, m)
    BY <1>2, <1>a, <1>b, KeysSent
  <2>2. KeysInv(pid)'
    BY <1>0, <1>2, <1>b, <1>d, <2>1, KeysInvIs
  <2>3. InMail(pid, m) \in Seq(Controls)
    BY PostsTyped DEF Posts
  <2>4. Moved(pid, <<>>, <<>>, InMail(pid, m))
    BY <1>2, <1>b, <1>c, <2>1, <2>3, MovedIn, Zenon
  <2> QED
    BY <2>2, <2>4, Zenon DEF Carried
<1>3. ASSUME NEW p \in Pids, NewConnection(p)
      PROVE  Carried(pid)
  BY <1>1, <1>3 DEF NewConnection
<1>4. ASSUME NEW x \in Fds, NEW p \in Pids, loginsuc(x, p)
      PROVE  Carried(pid)
  <2>1. agentq' = SendAgent(agentq, p, Start(p, x)) /\ inputs' = inputs
    BY <1>4 DEF loginsuc, ServedInv, GateInv
  <2>2. PICK m : m = Start(p, x)
    OBVIOUS
  <2>3. /\ m \in AgentMsg /\ m.pid = p /\ m \notin Keys(pid)
        /\ InMail(pid, m) = <<>>
    BY <2>2 DEF Start, AgentMsg, Keys, InMail
  <2>4. inputs'[pid] = inputs[pid] \o InMail(pid, m)
    BY <1>e, <2>1, <2>3, Zenon
  <2> QED
    BY <1>2, <2>1, <2>2, <2>3, <2>4
<1>5. ASSUME NEW x \in Fds, DelConnection(x)
      PROVE  Carried(pid)
  <2>1. PICK p \in Pids \cup {nil} : p = m_Pid[x]
    BY GateFacts
  <2>2. /\ inputs' = inputs
        /\ agentq' = IF p # nil THEN SendAgent(agentq, p, Msg("kick", p)) ELSE agentq
    BY <1>5, <2>1 DEF DelConnection
  <2>3. CASE p = nil
    BY <1>1, <2>2, <2>3
  <2>4. CASE p # nil
    <3>1. p \in Pids
      BY <2>4
    <3>2. PICK m : m = Msg("kick", p)
      OBVIOUS
    <3>3. /\ m \in AgentMsg /\ m.pid = p /\ m \notin Keys(pid)
          /\ InMail(pid, m) = <<>>
      BY <3>1, <3>2 DEF Msg, AgentMsg, Keys, InMail
    <3>4. inputs'[pid] = inputs[pid] \o InMail(pid, m)
      BY <1>e, <2>2, <3>3, Zenon
    <3> QED
      BY <1>2, <2>2, <2>4, <3>1, <3>2, <3>3, <3>4
  <2> QED
    BY <2>3, <2>4
<1>6. ASSUME NEW x \in Fds, NEW action \in Controls, touch_key(x, action)
      PROVE  Carried(pid)
  <2>1. PICK p \in Pids : p = m_Pid[x]
    BY <1>6, GateFacts DEF touch_key
  <2>2. /\ x \in conlist /\ MainRole(client[x], p)
        /\ agentq' = SendAgent(agentq, p, Unpack(p, action))
        /\ inputs' = [inputs EXCEPT ![p] = Append(@, action)]
    BY <1>6, <2>1, FrameSyncAssumption, GateFacts DEF touch_key, dispatch_msg
  <2>3. PICK m : m = Unpack(p, action)
    OBVIOUS
  <2>4. /\ m \in AgentMsg /\ m.pid = p
        /\ InMail(pid, m) = IF p = pid THEN <<action>> ELSE <<>>
        /\ m \in Keys(pid) => p = pid
    BY <2>3 DEF Unpack, AgentMsg, Keys, InMail
  <2>5. inputs'[pid] = inputs[pid] \o InMail(pid, m)
    <3>1. inputs \in [Pids -> Seq(Controls)]
      BY DEF TypeOK
    <3>2. PICK s \in Seq(Controls) : s = inputs[pid]
      BY <3>1
    <3>3. s \o <<action>> = Append(s, action)
      OBVIOUS
    <3>4. CASE p = pid
      <4>1. inputs'[pid] = Append(s, action)
        BY <2>2, <3>1, <3>2, <3>4
      <4> QED
        BY <2>4, <3>2, <3>3, <3>4, <4>1
    <3>5. CASE p # pid
      <4>1. inputs'[pid] = s
        BY <2>2, <3>1, <3>2, <3>5
      <4> QED
        BY <1>e, <2>4, <3>2, <3>5, <4>1
    <3> QED
      BY <3>4, <3>5
  <2>6. m \in Keys(pid) =>
          /\ pid \in m_Players
          /\ pid \in m_SceneAgent \/ \E e \in Range(Mail(pid)) : e \in Arrivals(pid)
          /\ \A d \in Range(Mail(pid)) : d \notin Kicks(pid)
    BY <2>1, <2>2, <2>4, MayTouch
  <2> QED
    BY <1>2, <2>2, <2>3, <2>4, <2>5, <2>6
<1> QED
  BY <1>3, <1>4, <1>5, <1>6 DEF Gate

(* An agent that sends the scene nothing.                                   *)
LEMMA CarriedOnly ==
  ASSUME TypeOK, TypeOK', HomeInv, NEW pid \in Pids, KeysInv(pid),
         NEW a \in Agents, agentq[a] # <<>>,
         agentq' = [agentq EXCEPT ![a] = Tail(@)],
         Head(agentq[a]).cmd \notin {"kick", "Unpack"},
         pid \in m_SceneAgent \/ Head(agentq[a]) \in Arrivals(pid)
           => pid \in m_SceneAgent',
         UNCHANGED <<sceneq, m_Players, m_FrameCacheQueue, m_CtrlDataQueue, inputs>>
  PROVE  Carried(pid)
<1>1. HasKeys(pid) \/ HasPresses(pid) => pid \in m_Players
  BY KeysInvIs
<1>2. KeysOrdered(pid) /\ PressesOrdered(pid)
  BY KeysInvIs
<1>3. PICK m \in AgentMsg : m = Head(agentq[a])
  BY Taken
<1>4. /\ KeysOrdered(pid)' /\ (HasKeys(pid)' => HasKeys(pid))
      /\ Posted(pid, Mail(pid)) = InMail(pid, m) \o Posted(pid, Mail(pid)')
  BY <1>2, <1>3, KeysTaken
<1>5. PressesOrdered(pid)' /\ (HasPresses(pid)' => HasPresses(pid))
      /\ Posted(pid, sceneq') = Posted(pid, sceneq)
  BY <1>2, PressesUnchanged
<1>6. KeysInv(pid)'
  BY <1>1, <1>4, <1>5, KeysInvIs
<1>7. InMail(pid, m) = <<>> /\ Framed(pid)' = Framed(pid)
  <2>1. m.cmd \notin {"sync_ctrl", "Unpack"}
    BY <1>3 DEF AgentMsg
  <2> QED
    BY <2>1, FramedStays DEF InMail
<1>8. /\ <<>> \in Seq(Controls)
      /\ Posted(pid, sceneq') = Posted(pid, sceneq) \o <<>>
      /\ Posted(pid, Mail(pid)) = <<>> \o Posted(pid, Mail(pid)')
  BY <1>4, <1>5, <1>7, PartsTyped, NothingOn, Zenon
<1>9. Moved(pid, <<>>, <<>>, <<>>)
  BY <1>7, <1>8, MovedOver, Zenon
<1> QED
  BY <1>6, <1>9, Zenon DEF Carried

LEMMA CarriedStart ==
  ASSUME TypeOK, TypeOK', ServedInv, NEW pid \in Pids, KeysInv(pid),
         NEW a \in Agents, start(a)
  PROVE  Carried(pid)
<1>1. PICK m \in AgentMsg : m = Head(agentq[a])
  <2>1. agentq[a] # <<>> /\ agentq' = [agentq EXCEPT ![a] = Tail(@)]
    BY DEF start, Receives
  <2> QED
    BY <2>1, Taken
<1>2. /\ agentq[a] # <<>> /\ agentq' = [agentq EXCEPT ![a] = Tail(@)]
      /\ m.cmd = "start" /\ m_SceneAgent' = m_SceneAgent \ {m.pid}
      /\ UNCHANGED <<sceneq, m_Players, m_FrameCacheQueue, m_CtrlDataQueue, inputs>>
  BY <1>1 DEF start, Receives, login, gameVars
<1>3. m \notin Arrivals(pid) /\ m.cmd \notin {"kick", "Unpack"}
  BY <1>2 DEF Arrivals
<1>4. m.pid = pid => pid \notin m_SceneAgent
  <2> SUFFICES ASSUME m.pid = pid
               PROVE  pid \notin m_SceneAgent
    OBVIOUS
  <2>1. m \in Duty(pid)
    BY <1>2 DEF Duty
  <2>2. PICK fd \in Fds : Starting(pid, fd)
    <3>1. m # Msg("kick", pid) /\ \A fd : m # Entering(pid, fd)
      BY <1>2 DEF Msg, Entering
    <3> QED
      BY <1>1, <1>2, <2>1, <3>1, DutyIs DEF ServedInv
  <2> QED
    BY <2>2 DEF Starting, Absent
<1> QED
  BY <1>1, <1>2, <1>3, <1>4, CarriedOnly DEF ServedInv

LEMMA CarriedEnterwar ==
  ASSUME TypeOK, TypeOK', ServedInv, NEW pid \in Pids, KeysInv(pid),
         NEW a \in Agents, enterwar(a)
  PROVE  Carried(pid)
<1>1. PICK m \in AgentMsg : m = Head(agentq[a])
  <2>1. agentq[a] # <<>> /\ agentq' = [agentq EXCEPT ![a] = Tail(@)]
    BY DEF enterwar, Receives
  <2> QED
    BY <2>1, Taken
<1>2. /\ agentq[a] # <<>> /\ agentq' = [agentq EXCEPT ![a] = Tail(@)]
      /\ m.cmd = "entering"
      /\ m_SceneAgent' = IF playerlist[m.pid] = m.fd
                         THEN m_SceneAgent \cup {m.pid} ELSE m_SceneAgent
      /\ UNCHANGED <<sceneq, m_Players, m_FrameCacheQueue, m_CtrlDataQueue, inputs>>
  BY <1>1 DEF enterwar, Receives, gameVars
<1>3. m \in Arrivals(pid) => pid \in m_SceneAgent'
  <2> SUFFICES ASSUME m \in Arrivals(pid)
               PROVE  pid \in m_SceneAgent'
    OBVIOUS
  <2>1. m \in Duty(pid) /\ m.pid = pid
    BY DEF Duty, Arrivals
  <2>2. PICK fd \in Fds : EnteringScene(pid, fd) /\ m = Entering(pid, fd)
    <3>1. m # Msg("kick", pid) /\ \A fd : m # Start(pid, fd)
      BY <1>2 DEF Msg, Start
    <3> QED
      BY <1>1, <1>2, <2>1, <3>1, DutyIs DEF ServedInv
  <2>3. playerlist[m.pid] = m.fd
    BY <2>1, <2>2 DEF EnteringScene, Entering
  <2> QED
    BY <1>2, <2>1, <2>3
<1>4. m_SceneAgent \subseteq m_SceneAgent'
  BY <1>2
<1> QED
  BY <1>1, <1>2, <1>3, <1>4, CarriedOnly DEF ServedInv

LEMMA CarriedKick ==
  ASSUME TypeOK, TypeOK', ServedInv, NEW pid \in Pids, KeysInv(pid),
         NEW a \in Agents, kick(a)
  PROVE  Carried(pid)
<1>1. PICK m \in AgentMsg : m = Head(agentq[a])
  <2>1. agentq[a] # <<>> /\ agentq' = [agentq EXCEPT ![a] = Tail(@)]
    BY DEF kick, Receives
  <2> QED
    BY <2>1, Taken
<1>2. /\ agentq[a] # <<>> /\ agentq' = [agentq EXCEPT ![a] = Tail(@)]
      /\ m.cmd = "kick"
      /\ m_SceneAgent' = m_SceneAgent \/ m_SceneAgent' = m_SceneAgent \ {m.pid}
      /\ sceneq' = sceneq \/ sceneq' = Append(sceneq, Leave(m.pid))
      /\ UNCHANGED <<m_Players, m_FrameCacheQueue, m_CtrlDataQueue, inputs>>
  BY <1>1 DEF kick, leavewar, quit, Receives, gameVars, agentVars, Leave
<1>3. HasKeys(pid) \/ HasPresses(pid) => pid \in m_Players
  BY KeysInvIs
<1>4. KeysOrdered(pid) /\ PressesOrdered(pid)
  BY KeysInvIs
<1>5. /\ KeysOrdered(pid)' /\ (HasKeys(pid)' => HasKeys(pid))
      /\ Posted(pid, Mail(pid)) = InMail(pid, m) \o Posted(pid, Mail(pid)')
  <2>1. CASE m.pid = pid
    <3>1. m \in Kicks(pid)
      BY <1>2, <2>1 DEF Kicks
    <3> QED
      BY <1>1, <1>2, <1>4, <3>1, KeysTaken DEF ServedInv
  <2>2. CASE m.pid # pid
    <3>1. m \notin Arrivals(pid)
      BY <2>2 DEF Arrivals
    <3>2. pid \in m_SceneAgent => pid \in m_SceneAgent'
      BY <1>2, <2>2
    <3> QED
      BY <1>1, <1>2, <1>4, <3>1, <3>2, KeysTaken DEF ServedInv
  <2> QED
    BY <2>1, <2>2
<1>6. InMail(pid, m) = <<>> /\ Framed(pid)' = Framed(pid)
  BY <1>2, FramedStays DEF InMail
<1>7. PICK l \in SceneMsg : /\ l = Leave(m.pid) /\ l \notin Presses(pid)
                            /\ InMail(pid, l) = <<>>
  <2>1. m.pid \in Pids
    BY AgentHead
  <2>2. Leave(m.pid) \in SceneMsg /\ Leave(m.pid).cmd = "leave_player"
    BY <2>1 DEF Leave, Msg, SceneMsg
  <2> QED
    BY <2>2 DEF Presses, InMail
<1>8. <<>> \in Seq(Controls) /\ Posted(pid, sceneq) \o <<>> = Posted(pid, sceneq)
  BY PartsTyped, NothingOn, Zenon
<1>9. /\ PressesOrdered(pid)' /\ (HasPresses(pid)' => HasPresses(pid))
      /\ Posted(pid, sceneq') = Posted(pid, sceneq) \o <<>>
  <2>1. CASE sceneq' = sceneq
    <3>1. /\ PressesOrdered(pid)' /\ (HasPresses(pid)' => HasPresses(pid))
          /\ Posted(pid, sceneq') = Posted(pid, sceneq)
      BY <1>4, <2>1, PressesUnchanged
    <3> QED
      BY <1>8, <3>1, Zenon
  <2>2. CASE sceneq' = Append(sceneq, l)
    <3>1. /\ PressesOrdered(pid)'
          /\ HasPresses(pid)' => HasPresses(pid) \/ l \in Presses(pid)
          /\ Posted(pid, sceneq') = Posted(pid, sceneq) \o InMail(pid, l)
      BY <1>4, <1>7, <2>2, PressesSent
    <3> QED
      BY <1>7, <3>1, Zenon
  <2> QED
    BY <1>2, <1>7, <2>1, <2>2
<1>10. KeysInv(pid)'
  BY <1>2, <1>3, <1>5, <1>9, KeysInvIs
<1>11. Posted(pid, Mail(pid)) = <<>> \o Posted(pid, Mail(pid)') /\ inputs' = inputs
  BY <1>2, <1>5, <1>6, Zenon
<1>12. Moved(pid, <<>>, <<>>, <<>>)
  BY <1>6, <1>8, <1>9, <1>11, MovedOver, Zenon
<1> QED
  BY <1>10, <1>12, Zenon DEF Carried

LEMMA CarriedAnalysis ==
  ASSUME TypeOK, TypeOK', ServedInv, NEW pid \in Pids, KeysInv(pid),
         NEW a \in Agents, Analysis(a)
  PROVE  Carried(pid)
<1>1. PICK m \in AgentMsg : m = Head(agentq[a]) /\ m \in Range(agentq[a])
                            /\ 1 \in DOMAIN agentq[a] /\ agentq[a][1] = m
  <2>1. agentq[a] # <<>> /\ agentq' = [agentq EXCEPT ![a] = Tail(@)]
    BY DEF Analysis, Receives
  <2> QED
    BY <2>1, Taken
<1>2. PICK c : c = [cmd |-> "sync_ctrl", pid |-> m.pid, action |-> m.action]
  OBVIOUS
<1>3. /\ agentq[a] # <<>> /\ agentq' = [agentq EXCEPT ![a] = Tail(@)]
      /\ m.cmd = "Unpack"
      /\ sceneq' = IF playerlist[m.pid] # nil /\ m.pid \in m_SceneAgent
                   THEN Append(sceneq, c) ELSE sceneq
      /\ UNCHANGED <<m_Players, m_FrameCacheQueue, m_CtrlDataQueue, inputs,
                     m_SceneAgent>>
  BY <1>1, <1>2 DEF Analysis, Player_sync_ctrl, Receives, gameVars, agentVars
<1>4. m.pid \in Pids /\ m.action \in Controls
  BY <1>3, AgentHead
<1>5. /\ c \in SceneMsg /\ InMail(pid, c) = InMail(pid, m)
      /\ (c \in Presses(pid) <=> m.pid = pid)
  BY <1>2, <1>3, <1>4 DEF SceneMsg, InMail, Presses
<1>6. HasKeys(pid) \/ HasPresses(pid) => pid \in m_Players
  BY KeysInvIs
<1>7. KeysOrdered(pid) /\ PressesOrdered(pid)
  BY KeysInvIs
<1>8. /\ KeysOrdered(pid)' /\ (HasKeys(pid)' => HasKeys(pid))
      /\ Posted(pid, Mail(pid)) = InMail(pid, m) \o Posted(pid, Mail(pid)')
  <2>1. m \notin Arrivals(pid)
    BY <1>3 DEF Arrivals
  <2> QED
    BY <1>1, <1>3, <1>7, <2>1, KeysTaken DEF ServedInv
<1>9. InMail(pid, m) \in Seq(Controls) /\ Framed(pid)' = Framed(pid)
  BY <1>3, PostsTyped, FramedStays DEF Posts
<1>10. ASSUME m.pid = pid
       PROVE  /\ HasKeys(pid) /\ pid \in m_SceneAgent /\ playerlist[pid] # nil
              /\ \A d \in Range(sceneq) : d \notin Leavings(pid)
  <2>1. agentq[a] = Mail(pid)
    BY <1>1, <1>10 DEF ServedInv, HomeInv, Mail
  <2>2. m \in Keys(pid)
    BY <1>3, <1>10 DEF Keys
  <2>3. HasKeys(pid)
    BY <1>1, <2>1, <2>2 DEF HasKeys, Mail
  <2>4. pid \in m_Players /\ GoingIn(pid) /\ playerlist[pid] # nil
    BY <2>3, KeysStage DEF ServedInv
  <2>5. pid \in m_SceneAgent
    <3>1. PICK q \in Seq(AgentMsg) : q = Mail(pid)
      BY MailType
    <3>2. 1 \in DOMAIN q /\ q[1] \in Keys(pid) /\ \A j \in DOMAIN q : ~(j < 1)
      BY <1>1, <2>1, <2>2, <3>1
    <3> QED
      BY <1>7, <3>1, <3>2 DEF KeysOrdered, Ordered
  <2>6. \A d \in Range(sceneq) : d \notin Leavings(pid)
    BY <2>4, StaysIn
  <2> QED
    BY <2>3, <2>4, <2>5, <2>6
<1>11. /\ PressesOrdered(pid)'
       /\ HasPresses(pid)' => HasPresses(pid) \/ m.pid = pid
       /\ Posted(pid, sceneq') = Posted(pid, sceneq) \o InMail(pid, m)
  <2>1. CASE sceneq' = Append(sceneq, c)
    <3>1. c \in Presses(pid) => \A d \in Range(sceneq) : d \notin Leavings(pid)
      BY <1>5, <1>10
    <3>2. /\ PressesOrdered(pid)'
          /\ HasPresses(pid)' => HasPresses(pid) \/ c \in Presses(pid)
          /\ Posted(pid, sceneq') = Posted(pid, sceneq) \o InMail(pid, c)
      BY <1>5, <1>7, <2>1, <3>1, PressesSent
    <3> QED
      BY <1>5, <3>2, Zenon
  <2>2. CASE sceneq' = sceneq /\ m.pid # pid
    <3>1. /\ PressesOrdered(pid)' /\ (HasPresses(pid)' => HasPresses(pid))
          /\ Posted(pid, sceneq') = Posted(pid, sceneq)
      BY <1>7, <2>2, PressesUnchanged
    <3>2. InMail(pid, m) = <<>>
      BY <2>2 DEF InMail
    <3>3. Posted(pid, sceneq) \o <<>> = Posted(pid, sceneq)
      BY PartsTyped, NothingOn, Zenon
    <3> QED
      BY <3>1, <3>2, <3>3, Zenon
  <2> QED
    BY <1>3, <1>10, <2>1, <2>2
<1>12. KeysInv(pid)'
  BY <1>3, <1>6, <1>8, <1>10, <1>11, KeysInvIs
<1>13. inputs' = inputs
  BY <1>3
<1>14. Moved(pid, <<>>, InMail(pid, m), <<>>)
  BY <1>8, <1>9, <1>11, <1>13, MovedOver, Zenon
<1> QED
  BY <1>12, <1>14, Zenon DEF Carried

(* SCENE_MGR: the answer goes to the agent, and the player to the scene.    *)
LEMMA CarriedMgr ==
  ASSUME TypeOK, TypeOK', NEW pid \in Pids, KeysInv(pid), mgr_enter_player
  PROVE  Carried(pid)
<1>1. PICK h \in MgrMsg : h = Head(mgrq)
  <2>1. mgrq \in Seq(MgrMsg) /\ mgrq # <<>>
    BY DEF mgr_enter_player, Receives, TypeOK
  <2> QED
    BY <2>1, TailFacts
<1>2. h.pid \in Pids /\ h.fd \in Fds
  BY DEF MgrMsg
<1>3. PICK m : m = Entering(h.pid, h.fd)
  OBVIOUS
<1>4. m \in AgentMsg /\ m.cmd = "entering"
  BY <1>2, <1>3 DEF Entering, AgentMsg
<1>5. PICK l : l = Msg("enter_player", h.pid)
  OBVIOUS
<1>6. l \in SceneMsg /\ l \notin Presses(pid) /\ InMail(pid, l) = <<>>
  <2>1. l \in SceneMsg /\ l.cmd = "enter_player"
    BY <1>2, <1>5 DEF SceneMsg, Msg
  <2> QED
    BY <2>1 DEF Presses, InMail
<1>7. PICK a : a = get_user_agent(h.pid)
  OBVIOUS
<1>8. /\ a \in Agents /\ sceneq' = Append(sceneq, l)
      /\ \E mailbox \in Answer(agentq[a], m) : agentq' = [agentq EXCEPT ![a] = mailbox]
      /\ UNCHANGED <<m_Players, m_FrameCacheQueue, m_CtrlDataQueue, m_SceneAgent,
                     inputs>>
  BY <1>1, <1>2, <1>3, <1>5, <1>7, AgentOfPid
     DEF mgr_enter_player, gameVars, agentVars
<1>9. /\ HasKeys(pid) \/ HasPresses(pid) => pid \in m_Players
      /\ KeysOrdered(pid) /\ PressesOrdered(pid)
  BY KeysInvIs
<1>10. /\ KeysOrdered(pid)' /\ (HasKeys(pid)' => HasKeys(pid))
       /\ Posted(pid, Mail(pid)') = Posted(pid, Mail(pid))
  <2>1. PICK mailbox \in Answer(agentq[a], m) : agentq' = [agentq EXCEPT ![a] = mailbox]
    BY <1>8
  <2> QED
    BY <1>4, <1>8, <1>9, <2>1, KeysAnswered
<1>11. /\ PressesOrdered(pid)' /\ (HasPresses(pid)' => HasPresses(pid))
       /\ Posted(pid, sceneq') = Posted(pid, sceneq) \o <<>>
  <2>1. /\ PressesOrdered(pid)'
        /\ HasPresses(pid)' => HasPresses(pid) \/ l \in Presses(pid)
        /\ Posted(pid, sceneq') = Posted(pid, sceneq) \o InMail(pid, l)
    BY <1>6, <1>8, <1>9, PressesSent
  <2> QED
    BY <1>6, <2>1, Zenon
<1>12. KeysInv(pid)'
  BY <1>8, <1>9, <1>10, <1>11, KeysInvIs
<1>13. Framed(pid)' = Framed(pid)
  BY <1>8, FramedStays
<1>14. /\ <<>> \in Seq(Controls) /\ inputs' = inputs
       /\ Posted(pid, Mail(pid)) = <<>> \o Posted(pid, Mail(pid)')
  <2>1. <<>> \o Posted(pid, Mail(pid)) = Posted(pid, Mail(pid))
    BY PartsTyped, NothingOn, Zenon
  <2>2. <<>> \in Seq(Controls)
    BY PartsTyped, NothingOn, Zenon
  <2>3. inputs' = inputs
    BY <1>8
  <2> QED
    BY <1>10, <2>1, <2>2, <2>3, Zenon
<1>15. Moved(pid, <<>>, <<>>, <<>>)
  BY <1>11, <1>13, <1>14, MovedOver, Zenon
<1> QED
  BY <1>12, <1>15, Zenon DEF Carried

(* The scene takes a message.  What is in it for pid gets into the frames.  *)
LEMMA CarriedOut ==
  ASSUME TypeOK, TypeOK', NEW pid \in Pids, KeysInv(pid),
         sceneq # <<>>, sceneq' = Tail(sceneq), UNCHANGED outsideScene,
         Framed(pid)' = Framed(pid) \o InMail(pid, Head(sceneq)),
         \/ pid \in m_Players => pid \in m_Players'
         \/ Head(sceneq) \in Leavings(pid) /\ ~HasKeys(pid)
  PROVE  Carried(pid)
<1>1. /\ HasKeys(pid) \/ HasPresses(pid) => pid \in m_Players
      /\ KeysOrdered(pid) /\ PressesOrdered(pid)
  BY KeysInvIs
<1>2. /\ PressesOrdered(pid)' /\ (HasPresses(pid)' => HasPresses(pid))
      /\ Head(sceneq) \in Leavings(pid) => ~HasPresses(pid)
      /\ InMail(pid, Head(sceneq)) \in Seq(Controls)
      /\ Posted(pid, sceneq) = InMail(pid, Head(sceneq)) \o Posted(pid, sceneq')
  BY <1>1, PressesTaken
<1>3. agentq' = agentq /\ m_SceneAgent' = m_SceneAgent /\ inputs' = inputs
  BY DEF outsideScene, agentVars
<1>4. KeysOrdered(pid)' /\ (HasKeys(pid)' => HasKeys(pid))
  BY <1>1, <1>3, KeysUnchanged
<1>5. HasKeys(pid)' \/ HasPresses(pid)' => pid \in m_Players'
  BY <1>1, <1>2, <1>4
<1>6. KeysInv(pid)'
  BY <1>2, <1>4, <1>5, KeysInvIs
<1>7. Moved(pid, InMail(pid, Head(sceneq)), <<>>, <<>>)
  BY <1>2, <1>3, MovedOut, Zenon
<1> QED
  BY <1>6, <1>7, Zenon DEF Carried

LEMMA FramedOut ==
  ASSUME TypeOK, NEW pid \in Pids, NEW c \in CtrlInfo,
         m_FrameCacheQueue' = m_FrameCacheQueue, push_frame(c)
  PROVE  Framed(pid)' = Framed(pid) \o InFrame(pid, c)
<1>1. Stream' = Append(Stream, c)
  BY StreamPushed DEF push_frame, TypeOK
<1>2. Stream \in Seq(CtrlInfo)
  BY PartsTyped
<1> QED
  BY <1>1, <1>2, FramedPushed

LEMMA FramedNone ==
  ASSUME TypeOK, NEW pid \in Pids,
         UNCHANGED <<m_FrameCacheQueue, m_CtrlDataQueue>>
  PROVE  Framed(pid)' = Framed(pid) \o <<>>
<1>1. Framed(pid)' = Framed(pid)
  BY FramedStays
<1>2. Framed(pid) \o <<>> = Framed(pid)
  BY PartsTyped, NothingOn, Zenon
<1> QED
  BY <1>1, <1>2, Zenon

(* An enter and a leave are controls of the game's own.                     *)
LEMMA MovesNotInFrame ==
  ASSUME NEW pid, NEW p \in Pids, NEW action \in {"ACTION_ENTER", "ACTION_LEAVE"}
  PROVE  Ctrl(p, action) \in CtrlInfo /\ InFrame(pid, Ctrl(p, action)) = <<>>
<1>1. action \notin Controls /\ action \in Actions
  BY SceneAssumption DEF Actions
<1>2. Ctrl(p, action).action = action /\ Ctrl(p, action) \in CtrlInfo
  BY <1>1 DEF Ctrl, CtrlInfo
<1> QED
  BY <1>1, <1>2 DEF InFrame

LEMMA CarriedScene ==
  ASSUME TypeOK, TypeOK', NEW pid \in Pids, Stage(pid), KeysInv(pid), SceneService
  PROVE  Carried(pid)
<1>1. /\ sceneq # <<>> /\ sceneq' = Tail(sceneq) /\ UNCHANGED outsideScene
      /\ Head(sceneq).cmd \in {"enter_player", "leave_player", "sync_ctrl"}
  BY DEF SceneService, scene_enter_player, scene_leave_player, scene_sync_ctrl,
         Receives
<1>2. PICK m \in SceneMsg : m = Head(sceneq) /\ m \in Range(sceneq)
  <2>1. sceneq \in Seq(SceneMsg)
    BY DEF TypeOK
  <2> QED
    BY <1>1, <2>1, TailFacts
<1>3. m.pid \in Pids /\ (m.cmd = "sync_ctrl" => m.action \in Controls)
  BY SceneHead
<1>4. /\ m.cmd # "sync_ctrl" \/ m.pid # pid => InMail(pid, m) = <<>>
      /\ m.cmd = "sync_ctrl" /\ m.pid = pid => InMail(pid, m) = <<m.action>>
  BY DEF InMail, SceneMsg
<1>5. CASE scene_enter_player
  <2>1. add_player(m.pid) /\ m.cmd = "enter_player"
    BY <1>2, <1>5 DEF scene_enter_player, Receives
  <2>2. PICK c \in CtrlInfo : c = Ctrl(m.pid, "ACTION_ENTER") /\ InFrame(pid, c) = <<>>
    BY <1>3, MovesNotInFrame
  <2>3. /\ push_frame(c) /\ m_FrameCacheQueue' = m_FrameCacheQueue
        /\ m_Players' = m_Players \cup {m.pid}
    BY <2>1, <2>2 DEF add_player
  <2>4. Framed(pid)' = Framed(pid) \o InMail(pid, Head(sceneq))
    <3>1. Framed(pid)' = Framed(pid) \o InFrame(pid, c)
      BY <2>3, FramedOut
    <3> QED
      BY <1>2, <1>4, <2>1, <2>2, <3>1
  <2>5. pid \in m_Players => pid \in m_Players'
    BY <2>3
  <2> QED
    BY <1>1, <2>4, <2>5, CarriedOut
<1>6. CASE scene_leave_player
  <2>1. del_player(m.pid) /\ m.cmd = "leave_player"
    BY <1>2, <1>6 DEF scene_leave_player, Receives
  <2>2. PICK c \in CtrlInfo : c = Ctrl(m.pid, "ACTION_LEAVE") /\ InFrame(pid, c) = <<>>
    BY <1>3, MovesNotInFrame
  <2>3. /\ m_FrameCacheQueue' = m_FrameCacheQueue
        /\ push_frame(c) \/ m_CtrlDataQueue' = m_CtrlDataQueue
        /\ m_Players' = m_Players \ {m.pid} \/ m_Players' = m_Players
    BY <2>1, <2>2 DEF del_player
  <2>4. Framed(pid)' = Framed(pid) \o InMail(pid, Head(sceneq))
    <3>1. CASE push_frame(c)
      <4>1. Framed(pid)' = Framed(pid) \o InFrame(pid, c)
        BY <2>3, <3>1, FramedOut
      <4> QED
        BY <1>2, <1>4, <2>1, <2>2, <4>1
    <3>2. CASE m_CtrlDataQueue' = m_CtrlDataQueue
      <4>1. Framed(pid)' = Framed(pid) \o <<>>
        BY <2>3, <3>2, FramedNone
      <4> QED
        BY <1>2, <1>4, <2>1, <4>1
    <3> QED
      BY <2>3, <3>1, <3>2
  <2>5. CASE m.pid # pid
    <3>1. pid \in m_Players => pid \in m_Players'
      BY <2>3, <2>5
    <3> QED
      BY <1>1, <2>4, <3>1, CarriedOut
  <2>6. CASE m.pid = pid
    <3>1. m \in Leavings(pid)
      BY <2>1, <2>6 DEF Leavings
    <3>2. ASSUME HasKeys(pid)
          PROVE  FALSE
      <4>1. pid \in m_Players /\ GoingIn(pid)
        BY <3>2, KeysStage
      <4> QED
        BY <1>2, <3>1, <4>1, StaysIn
    <3> QED
      BY <1>1, <1>2, <2>4, <3>1, <3>2, CarriedOut
  <2> QED
    BY <2>5, <2>6
<1>7. CASE scene_sync_ctrl
  <2>1. sync_ctrl(m.pid, m.action) /\ m.cmd = "sync_ctrl"
    BY <1>2, <1>7 DEF scene_sync_ctrl, Receives
  <2>2. PICK c : c = Ctrl(m.pid, m.action)
    OBVIOUS
  <2>3. /\ c \in CtrlInfo
        /\ InFrame(pid, c) = IF m.pid = pid THEN <<m.action>> ELSE <<>>
    BY <1>3, <2>1, <2>2 DEF Ctrl, CtrlInfo, Actions, InFrame
  <2>4. /\ m_FrameCacheQueue' = m_FrameCacheQueue /\ m_Players' = m_Players
        /\ \/ m.pid \in m_Players /\ push_frame(c)
           \/ m.pid \notin m_Players /\ m_CtrlDataQueue' = m_CtrlDataQueue
    BY <2>1, <2>2 DEF sync_ctrl
  <2>5. m.pid = pid => pid \in m_Players
    <3> SUFFICES ASSUME m.pid = pid
                 PROVE  pid \in m_Players
      OBVIOUS
    <3>1. m \in Presses(pid)
      BY <2>1 DEF Presses
    <3>2. HasPresses(pid)
      BY <1>2, <3>1 DEF HasPresses
    <3> QED
      BY <3>2, KeysInvIs
  <2>6. Framed(pid)' = Framed(pid) \o InMail(pid, Head(sceneq))
    <3>1. CASE push_frame(c)
      <4>1. Framed(pid)' = Framed(pid) \o InFrame(pid, c)
        BY <2>3, <2>4, <3>1, FramedOut
      <4>2. InFrame(pid, c) = InMail(pid, m)
        BY <1>4, <2>1, <2>3
      <4> QED
        BY <1>2, <4>1, <4>2
    <3>2. CASE m.pid \notin m_Players /\ m_CtrlDataQueue' = m_CtrlDataQueue
      <4>1. Framed(pid)' = Framed(pid) \o <<>>
        BY <2>4, <3>2, FramedNone
      <4>2. InMail(pid, m) = <<>>
        BY <1>4, <2>5, <3>2
      <4> QED
        BY <1>2, <4>1, <4>2
    <3> QED
      BY <2>4, <3>1, <3>2
  <2> QED
    BY <1>1, <2>4, <2>6, CarriedOut
<1> QED
  BY <1>5, <1>6, <1>7 DEF SceneService

(* A step that leaves the mailboxes alone, and at most closes a tick.       *)
LEMMA CarriedStill ==
  ASSUME TypeOK, TypeOK', NEW pid \in Pids, KeysInv(pid), Framed(pid)' = Framed(pid),
         UNCHANGED <<agentq, m_SceneAgent, sceneq, m_Players, inputs>>
  PROVE  Carried(pid)
<1>1. /\ HasKeys(pid) \/ HasPresses(pid) => pid \in m_Players
      /\ KeysOrdered(pid) /\ PressesOrdered(pid)
  BY KeysInvIs
<1>2. /\ KeysOrdered(pid)' /\ (HasKeys(pid)' => HasKeys(pid))
      /\ Posted(pid, Mail(pid)') = Posted(pid, Mail(pid))
  BY <1>1, KeysUnchanged
<1>3. PressesOrdered(pid)' /\ (HasPresses(pid)' => HasPresses(pid))
  BY <1>1, PressesUnchanged
<1>4. KeysInv(pid)'
  BY <1>1, <1>2, <1>3, KeysInvIs
<1>5. /\ <<>> \in Seq(Controls)
      /\ Posted(pid, Mail(pid)) \o <<>> = Posted(pid, Mail(pid))
      /\ inputs[pid] \o <<>> = inputs[pid]
  BY PartsTyped, NothingOn, Zenon
<1>6. inputs'[pid] = inputs[pid] /\ sceneq' = sceneq
  OBVIOUS
<1>7. Moved(pid, <<>>, <<>>, <<>>)
  BY <1>2, <1>5, <1>6, MovedIn, Zenon
<1> QED
  BY <1>4, <1>7, Zenon DEF Carried

LEMMA CarriedSkip ==
  ASSUME TypeOK, TypeOK', NEW pid \in Pids, KeysInv(pid), FrameSkip
  PROVE  Carried(pid)
<1>1. PICK x : x = [frame_number |-> m_CurFrameNo, ctrl_data |-> m_CtrlDataQueue]
  OBVIOUS
<1>2. /\ m_FrameCacheQueue' = Append(m_FrameCacheQueue, x) /\ m_CtrlDataQueue' = <<>>
      /\ UNCHANGED <<agentq, m_SceneAgent, sceneq, m_Players, inputs>>
  BY <1>1 DEF FrameSkip, frame_skip, outsideScene, agentVars
<1>3. x \in FrameInfo /\ x.ctrl_data = m_CtrlDataQueue
  <2>1. m_CurFrameNo \in Nat /\ m_CtrlDataQueue \in Seq(CtrlInfo)
    BY DEF TypeOK, GameTypeOK
  <2> QED
    BY <1>1, <2>1 DEF FrameInfo
<1>4. GameTypeOK /\ GameTypeOK'
  BY DEF TypeOK
<1>5. Stream' = Stream
  BY <1>2, <1>3, <1>4, StreamSkipped
<1>6. Framed(pid)' = Framed(pid)
  BY <1>5, FramedSame
<1> QED
  BY <1>2, <1>6, CarriedStill

LEMMA InputsStep ==
  ASSUME TypeOK, TypeOK', ServedInv, LockInv, InputsInv, [Next]_vars
  PROVE  InputsInv'
<1>1. ASSUME NEW pid \in Pids
      PROVE  Carried(pid)
  <2>1. KeysInv(pid) /\ Stage(pid)
    BY <1>1 DEF InputsInv, ServedInv
  <2>2. ASSUME NEW a \in Agents, Agent(a)
        PROVE  Carried(pid)
    BY <2>1, <2>2, CarriedStart, CarriedEnterwar, CarriedKick, CarriedAnalysis
       DEF Agent
  <2>3. ASSUME \/ Broadcast
               \/ \E fd \in Fds : update_logic(fd)
               \/ UNCHANGED vars
        PROVE  Carried(pid)
    <3>1. UNCHANGED <<agentq, m_SceneAgent, sceneq, m_Players, inputs,
                      m_FrameCacheQueue, m_CtrlDataQueue>>
      BY <2>3 DEF Broadcast, register_fd, unregister_fd, send_to_list, update_logic,
                  outsideBC, vars, gameVars, agentVars
    <3>2. Framed(pid)' = Framed(pid)
      BY <3>1, FramedStays
    <3> QED
      BY <2>1, <3>1, <3>2, CarriedStill
  <2> QED
    BY <2>1, <2>2, <2>3, CarriedGate, CarriedMgr, CarriedScene, CarriedSkip DEF Next
<1>2. ASSUME NEW pid \in Pids
      PROVE  KeysInv(pid)' /\ ControlsOf(pid)' = inputs'[pid]
  <2>1. KeysInv(pid)' /\ \E x, y, z : Moved(pid, x, y, z)
    BY <1>1, Zenon DEF Carried
  <2>2. ControlsOf(pid) = inputs[pid]
    BY DEF InputsInv
  <2>3. PICK x, y, z : Moved(pid, x, y, z)
    BY <2>1, Zenon
  <2> QED
    BY <2>1, <2>2, <2>3, MovedKeeps, Zenon
<1> QED
  BY <1>2 DEF InputsInv

LEMMA InputsInit == Init => InputsInv
<1> SUFFICES ASSUME Init, NEW pid \in Pids
             PROVE  KeysInv(pid) /\ ControlsOf(pid) = inputs[pid]
  BY DEF InputsInv
<1>1. /\ Mail(pid) = <<>> /\ sceneq = <<>> /\ inputs[pid] = <<>>
      /\ m_CtrlDataQueue = <<>> /\ m_FrameCacheQueue = <<>>
  BY AgentOfPid DEF Init, GameInit, Mail
<1>2. Range(Mail(pid)) = {} /\ Range(sceneq) = {}
  BY <1>1 DEF Range
<1>3. KeysInv(pid)
  BY <1>2, KeysInvIs, OrderedNone
     DEF HasKeys, HasPresses, KeysOrdered, PressesOrdered, Mail
<1>4. Stream = <<>>
  <2>1. [i \in 1 .. Len(m_FrameCacheQueue) |-> m_FrameCacheQueue[i].ctrl_data] = <<>>
    BY <1>1
  <2>2. Stream = FlattenSeq(<<>>) \o <<>>
    BY <1>1, <2>1, Zenon DEF Stream
  <2>3. <<>> \o <<>> = <<>>
    OBVIOUS
  <2> QED
    BY <2>2, <2>3, FlattenEmpty, Zenon
<1>5. Framed(pid) = <<>>
  <2>1. [k \in 1 .. Len(Stream) |->
           IF Stream[k].pid = pid /\ Stream[k].action \in Controls
           THEN <<Stream[k].action>> ELSE <<>>] = <<>>
    BY <1>4
  <2> QED
    BY <2>1, FlattenEmpty, Zenon DEF Framed
<1>6. ASSUME NEW q, q = <<>>
      PROVE  Posted(pid, q) = <<>>
  <2>1. [k \in 1 .. Len(q) |->
           IF q[k].cmd \in {"sync_ctrl", "Unpack"} /\ q[k].pid = pid
           THEN <<q[k].action>> ELSE <<>>] = <<>>
    BY <1>6
  <2> QED
    BY <2>1, FlattenEmpty, Zenon DEF Posted
<1>7. ControlsOf(pid) = (<<>> \o <<>>) \o <<>>
  BY <1>1, <1>5, <1>6, Zenon DEF ControlsOf, Mail
<1>8. (<<>> \o <<>>) \o <<>> = <<>>
  OBVIOUS
<1> QED
  BY <1>1, <1>3, <1>7, <1>8, Zenon

(* Every control that the gate gets of a player gets into the frames, once  *)
(* and in the order got, when clients behave: what is in the log, in the    *)
(* tick under way and in the mailboxes of scene and agent is what the gate  *)
(* got, in every state.  None is dropped because its player is not in     *)
(* yet or has left (Analysis, Player:sync_ctrl, FighterWar:sync_ctrl).      *)
THEOREM ControlsArrive ==
  ASSUME Allowed = {}
  PROVE  Spec => []InputsInOrder
<1>1. /\ IInv /\ IInv' /\ ServedInv /\ LockInv /\ InputsInv /\ [Next]_vars
           => InputsInv'
      /\ InputsInv => InputsInOrder
  BY InputsStep DEF IInv, InputsInv, InputsInOrder
<1> QED
  BY <1>1, InputsInit, Invariance, ServedInvariance, LockInvariance, PTL DEF Spec

-----------------------------------------------------------------------------
(* The services implement Lockstep: what its variables stand for.           *)
Opened == {fd \in Fds : FSM_OPEN(fd)}
Executed == [fd \in Fds |-> client[fd].executed]

LEMMA LockstepStutters ==
  ASSUME UNCHANGED <<m_FrameCacheQueue, Opened, Executed>>
  PROVE  UNCHANGED Abstract!absVars
BY DEF Abstract!absVars, Opened, Executed

LEMMA LockstepExtends ==
  ASSUME NEW frame \in FrameInfo, m_FrameCacheQueue \in Seq(FrameInfo),
         m_FrameCacheQueue' = Append(m_FrameCacheQueue, frame),
         UNCHANGED <<Opened, Executed>>
  PROVE  Abstract!Extend
<1>1. /\ m_FrameCacheQueue' # <<>>
      /\ m_FrameCacheQueue'[Len(m_FrameCacheQueue')] = frame
  OBVIOUS
<1> QED BY <1>1 DEF Abstract!Extend, Opened, Executed

LEMMA LockstepJoins ==
  ASSUME NEW v \in Fds, v \notin Opened, Opened' = Opened \cup {v},
         UNCHANGED <<m_FrameCacheQueue, Executed>>
  PROVE  Abstract!Join(v)
BY DEF Abstract!Join, Opened, Executed

LEMMA LockstepRuns ==
  ASSUME NEW v \in Fds, v \in Opened, Len(Executed[v]) < Len(m_FrameCacheQueue),
         Executed' = [Executed EXCEPT
           ![v] = Append(@, m_FrameCacheQueue[Len(@) + 1])],
         UNCHANGED <<m_FrameCacheQueue, Opened>>
  PROVE  Abstract!Run(v)
BY DEF Abstract!Run, Opened, Executed

LEMMA LockstepLeaves ==
  ASSUME NEW v \in Fds, v \in Opened, Opened' = Opened \ {v},
         Executed' = [Executed EXCEPT ![v] = <<>>],
         UNCHANGED m_FrameCacheQueue
  PROVE  Abstract!Leave(v)
BY DEF Abstract!Leave, Opened, Executed

(* No package takes an executed frame back or closes an FSM, and frames of  *)
(* the broadcast open none.                                                 *)
LEMMA DispatchKeeps ==
  ASSUME NEW c \in Client, NEW d \in Package
  PROVE  /\ _dispatch_request(c, d).executed = c.executed
         /\ c.seededAt # nil => _dispatch_request(c, d).seededAt # nil
         /\ d.proto = "gs2c_frame_data" =>
              _dispatch_request(c, d).seededAt = c.seededAt
<1>1. nil \notin Nat
  BY FrameSyncAssumption
<1>2. ASSUME NEW e \in Client, NEW f
      PROVE  /\ gs2c_frame_cache_data(e, f).executed = e.executed
             /\ e.seededAt # nil => gs2c_frame_cache_data(e, f).seededAt # nil
  <2>1. Len(e.executed) # nil
    BY <1>1, ClientFacts
  <2> QED BY <2>1 DEF gs2c_frame_cache_data, Client
<1>3. CASE d.proto = "gs2c_loginsuc"
  <2> DEFINE e == [c EXCEPT !.m_FsmInitData = d.frame_cache_num]
  <2>1. d.frame_cache_num \in Nat
    BY <1>3 DEF Package
  <2>2. e \in Client /\ e.executed = c.executed /\ e.seededAt = c.seededAt
    BY <2>1 DEF Client
  <2>3. _dispatch_request(c, d) = gs2c_frame_cache_data(e, <<>>)
    BY <1>3 DEF _dispatch_request, init_fsm
  <2> HIDE DEF e
  <2> QED BY <1>2, <1>3, <2>2, <2>3
<1>4. CASE d.proto = "gs2c_frame_cache_data"
  <2>1. _dispatch_request(c, d) = gs2c_frame_cache_data(c, d.frame_cache)
    BY <1>4 DEF _dispatch_request
  <2> QED BY <1>2, <1>4, <2>1
<1>5. CASE d.proto = "gs2c_frame_data"
  <2>1. _dispatch_request(c, d) = recv_frame(c, d.frame_data)
    BY <1>5 DEF _dispatch_request
  <2> QED BY <2>1 DEF recv_frame, Client
<1> QED BY <1>3, <1>4, <1>5 DEF Package

(* What a client executes next is the next frame of the log.                *)
LEMMA RunsLog ==
  ASSUME NEW c \in Client, NEW x \in Nat, NEW t \in Nat, NEW log \in Seq(FrameInfo),
         ClientAt(c, x, t, log)
  PROVE  /\ c.seededAt = nil => c.executed = <<>>
         /\ c.m_FrameQueue # <<>> => /\ Len(c.executed) < Len(log)
                                     /\ Head(c.m_FrameQueue) = log[Len(c.executed) + 1]
<1>1. nil # 0
  BY FrameSyncAssumption
<1>2. CASE x = 0
  BY <1>2 DEF ClientAt, NewClient
<1>3. CASE x # 0
  <2> DEFINE a == c.executed
             b == c.m_FrameQueue
  <2>1. a \in Seq(FrameInfo) /\ b \in Seq(FrameInfo) /\ Received(c) = a \o b
    BY ClientFacts DEF Received
  <2>2. c.seededAt = nil => a = <<>>
    BY <1>1, <1>3 DEF ClientAt
  <2>3. /\ Len(a \o b) = x - 1 /\ x <= Len(log) + 1
        /\ \A i \in 1 .. x - 1 : (a \o b)[i] = log[i]
    BY <1>3, <2>1 DEF ClientAt
  <2> HIDE DEF a, b
  <2>4. ASSUME b # <<>>
        PROVE  Len(a) < Len(log) /\ Head(b) = log[Len(a) + 1]
    <3>1. Len(a) \in Nat /\ Len(b) \in Nat /\ Len(b) >= 1 /\ Head(b) = b[1]
      BY <2>1, <2>4
    <3>2. Len(a \o b) = Len(a) + Len(b)
      BY <2>1
    <3>3. Len(log) \in Nat
      OBVIOUS
    <3>4. Len(a) + 1 <= x - 1 /\ Len(a) < Len(log)
      BY <2>3, <3>1, <3>2, <3>3
    <3>5. Len(a) + 1 \in 1 .. x - 1
      BY <3>1, <3>4
    <3>6. (a \o b)[Len(a) + 1] = b[1]
      BY <2>1, <3>1
    <3> QED BY <2>3, <3>1, <3>4, <3>5, <3>6
  <2> QED BY <2>2, <2>4 DEF a, b
<1> QED BY <1>2, <1>3

LEMMA ClientsRunLog ==
  ASSUME TypeOK, LockInv, NEW fd \in Fds
  PROVE  LET c == client[fd]
         IN  /\ c.seededAt = nil => c.executed = <<>>
             /\ c.m_FrameQueue # <<>> =>
                  /\ Len(c.executed) < Len(m_FrameCacheQueue)
                  /\ Head(c.m_FrameQueue) = m_FrameCacheQueue[Len(c.executed) + 1]
<1>1. client[fd] \in Client /\ m_FrameCacheQueue \in Seq(FrameInfo)
  BY DEF TypeOK, GameTypeOK
<1>2. PICK x \in Nat, t \in Nat : ClientAt(client[fd], x, t, m_FrameCacheQueue)
  BY ClientIsAt
<1> QED BY <1>1, <1>2, RunsLog

LEMMA StutterKeeps ==
  ASSUME UNCHANGED <<client, m_FrameCacheQueue>>
  PROVE  UNCHANGED Abstract!absVars
<1>1. UNCHANGED <<m_FrameCacheQueue, Opened, Executed>>
  BY DEF Opened, FSM_OPEN, Executed
<1> QED BY <1>1, LockstepStutters

LEMMA DelConnectionLeaves ==
  ASSUME TypeOK, LockInv, NEW fd \in Fds, DelConnection(fd)
  PROVE  Abstract!Leave(fd) \/ UNCHANGED Abstract!absVars
<1>1. /\ client' = [client EXCEPT ![fd] = NewClient] /\ client \in [Fds -> Client]
      /\ UNCHANGED m_FrameCacheQueue
  BY DEF DelConnection, gameVars, TypeOK
<1>2. /\ client'[fd] = NewClient /\ \A x \in Fds : x # fd => client'[x] = client[x]
      /\ NewClient.executed = <<>> /\ NewClient.seededAt = nil
  BY <1>1 DEF NewClient
<1>3. Opened' = Opened \ {fd}
  BY <1>2 DEF Opened, FSM_OPEN
<1>4. Executed' = [Executed EXCEPT ![fd] = <<>>]
  BY <1>2 DEF Executed
<1>5. CASE fd \in Opened
  BY <1>1, <1>3, <1>4, <1>5, LockstepLeaves
<1>6. CASE fd \notin Opened
  <2>1. client[fd].executed = <<>>
    BY <1>6, ClientsRunLog DEF Opened, FSM_OPEN
  <2>2. Executed' = Executed
    BY <1>2, <2>1 DEF Executed
  <2>3. Opened' = Opened
    BY <1>3, <1>6
  <2> QED BY <1>1, <2>2, <2>3, LockstepStutters
<1> QED BY <1>5, <1>6

LEMMA FrameSkipExtends ==
  ASSUME TypeOK, FrameSkip
  PROVE  Abstract!Extend
<1> DEFINE frame == [frame_number |-> m_CurFrameNo, ctrl_data |-> m_CtrlDataQueue]
<1>1. /\ m_FrameCacheQueue' = Append(m_FrameCacheQueue, frame)
      /\ UNCHANGED client
  BY DEF FrameSkip, frame_skip, outsideScene
<1>2. frame \in FrameInfo /\ m_FrameCacheQueue \in Seq(FrameInfo)
  BY DEF TypeOK, GameTypeOK, FrameInfo
<1>3. UNCHANGED <<Opened, Executed>>
  BY <1>1 DEF Opened, FSM_OPEN, Executed
<1> HIDE DEF frame
<1> QED BY <1>1, <1>2, <1>3, LockstepExtends

LEMMA UpdateLogicRuns ==
  ASSUME TypeOK, LockInv, NEW fd \in Fds, update_logic(fd)
  PROVE  Abstract!Run(fd)
<1> DEFINE c == client[fd]
           log == m_FrameCacheQueue
<1>1. /\ c.seededAt # nil /\ c.m_FrameQueue # <<>>
      /\ client' = [client EXCEPT ![fd].executed = Append(@, Head(c.m_FrameQueue)),
                                  ![fd].m_FrameQueue = Tail(@)]
      /\ UNCHANGED log
  BY DEF update_logic, FSM_OPEN, gameVars
<1>2. client \in [Fds -> Client] /\ c \in Client
  BY DEF TypeOK
<1>3. /\ client'[fd].executed = Append(c.executed, Head(c.m_FrameQueue))
      /\ client'[fd].seededAt = c.seededAt
      /\ \A x \in Fds : x # fd => client'[x] = client[x]
  BY <1>1, <1>2 DEF Client
<1>4. /\ Len(c.executed) < Len(log)
      /\ Head(c.m_FrameQueue) = log[Len(c.executed) + 1]
  BY <1>1, ClientsRunLog
<1>5. Executed[fd] = c.executed
  BY DEF Executed
<1> HIDE DEF c
<1>6. fd \in Opened /\ Opened' = Opened
  BY <1>1, <1>3 DEF Opened, FSM_OPEN, c
<1>7. Executed' = [Executed EXCEPT ![fd] = Append(@, log[Len(@) + 1])]
  <2>1. Executed'[fd] = Append(c.executed, log[Len(c.executed) + 1])
    BY <1>3, <1>4 DEF Executed
  <2>2. \A x \in Fds : x # fd => Executed'[x] = Executed[x]
    BY <1>3 DEF Executed
  <2>3. Executed = [x \in Fds |-> Executed[x]] /\ Executed' = [x \in Fds |-> Executed'[x]]
    BY DEF Executed
  <2> QED BY <1>5, <2>1, <2>2, <2>3
<1> QED BY <1>1, <1>4, <1>5, <1>6, <1>7, LockstepRuns

(* A package that opens an FSM opens one.                                   *)
LEMMA BroadcastJoins ==
  ASSUME TypeOK, LockInv, Broadcast
  PROVE  (\E fd \in Fds : Abstract!Join(fd)) \/ UNCHANGED Abstract!absVars
<1> DEFINE m == Head(bcq)
<1>1. /\ m \in BCMsg /\ m = bcq[1] /\ 1 \in 1 .. Len(bcq)
      /\ \A fd \in Fds :
           client'[fd] = IF /\ m.cmd = "send" /\ fd \in conlist
                            /\ \E uuid \in m.uuids : fd_map[uuid] = fd
                         THEN _dispatch_request(client[fd], m.data) ELSE client[fd]
      /\ UNCHANGED m_FrameCacheQueue
  BY RoutesTo
<1>2. client \in [Fds -> Client]
  BY DEF TypeOK
<1>3. m.cmd = "send" => m.data \in Package
  BY <1>1, BCHead
<1>4. m.cmd = "send" /\ m.data.proto # "gs2c_frame_data"
        => \E pid \in Pids : m.uuids = {pid}
  BY <1>1 DEF LockInv, SendInv
<1> HIDE DEF m
<1>5. ASSUME NEW fd \in Fds
      PROVE  /\ client'[fd].executed = client[fd].executed
             /\ client[fd].seededAt # nil => client'[fd].seededAt # nil
             /\ client'[fd].seededAt = client[fd].seededAt
                \/ /\ m.cmd = "send" /\ m.data.proto # "gs2c_frame_data"
                   /\ \E uuid \in m.uuids : fd_map[uuid] = fd
  <2>1. client[fd] \in Client
    BY <1>2
  <2>2. CASE client'[fd] = client[fd]
    BY <2>2
  <2>3. CASE client'[fd] # client[fd]
    <3>1. /\ m.cmd = "send" /\ \E uuid \in m.uuids : fd_map[uuid] = fd
          /\ client'[fd] = _dispatch_request(client[fd], m.data)
      BY <1>1, <2>3
    <3> QED BY <1>3, <2>1, <3>1, DispatchKeeps
  <2> QED BY <2>2, <2>3
<1>6. UNCHANGED Executed
  BY <1>5 DEF Executed
<1>7. Opened \subseteq Opened'
  BY <1>5 DEF Opened, FSM_OPEN
<1>8. CASE Opened' = Opened
  BY <1>1, <1>6, <1>8, LockstepStutters
<1>9. CASE Opened' # Opened
  <2>1. PICK fd \in Fds : fd \in Opened' /\ fd \notin Opened
    BY <1>7, <1>9 DEF Opened
  <2>2. \A x \in Fds : x \in Opened' /\ x \notin Opened =>
          /\ m.cmd = "send" /\ m.data.proto # "gs2c_frame_data"
          /\ \E uuid \in m.uuids : fd_map[uuid] = x
    BY <1>5 DEF Opened, FSM_OPEN
  <2>3. PICK pid \in Pids : m.uuids = {pid}
    BY <1>4, <2>1, <2>2
  <2>4. \A x \in Fds : x \in Opened' /\ x \notin Opened => fd_map[pid] = x
    BY <2>2, <2>3
  <2>5. Opened' \subseteq Fds
    BY DEF Opened
  <2>6. Opened' = Opened \cup {fd}
    BY <1>7, <2>1, <2>4, <2>5
  <2> QED BY <1>1, <1>6, <2>1, <2>6, LockstepJoins
<1> QED BY <1>8, <1>9

LEMMA LockstepStep ==
  ASSUME TypeOK, LockInv, [Next]_vars
  PROVE  [Abstract!Next]_(Abstract!absVars)
<1>1. ASSUME \/ \E pid \in Pids : NewConnection(pid)
             \/ \E fd \in Fds, pid \in Pids : loginsuc(fd, pid)
             \/ \E fd \in Fds, action \in Controls : touch_key(fd, action)
      PROVE  UNCHANGED <<client, m_FrameCacheQueue>>
  BY <1>1 DEF NewConnection, loginsuc, touch_key, gameVars
<1>2. ASSUME NEW a \in Agents, Agent(a) PROVE UNCHANGED <<client, m_FrameCacheQueue>>
  BY <1>2 DEF Agent, start, enterwar, kick, Analysis, gameVars
<1>3. ASSUME mgr_enter_player \/ SceneService \/ UNCHANGED vars
      PROVE  UNCHANGED <<client, m_FrameCacheQueue>>
  BY <1>3 DEF mgr_enter_player, SceneService, scene_enter_player, add_player,
     scene_leave_player, del_player, scene_sync_ctrl, sync_ctrl, outsideScene,
     vars, gameVars
<1>4. ASSUME NEW fd \in Fds, DelConnection(fd)
      PROVE  [Abstract!Next]_(Abstract!absVars)
  BY <1>4, DelConnectionLeaves DEF Abstract!Next
<1>5. ASSUME FrameSkip PROVE [Abstract!Next]_(Abstract!absVars)
  BY <1>5, FrameSkipExtends DEF Abstract!Next
<1>6. ASSUME NEW fd \in Fds, update_logic(fd)
      PROVE  [Abstract!Next]_(Abstract!absVars)
  BY <1>6, UpdateLogicRuns DEF Abstract!Next
<1>7. ASSUME Broadcast PROVE [Abstract!Next]_(Abstract!absVars)
  BY <1>7, BroadcastJoins DEF Abstract!Next
<1> QED BY <1>1, <1>2, <1>3, <1>4, <1>5, <1>6, <1>7, StutterKeeps DEF Next, Gate

LEMMA LockstepInit == Init => Abstract!Init
<1> SUFFICES ASSUME Init PROVE Abstract!Init
  OBVIOUS
<1>1. client = [fd \in Fds |-> NewClient] /\ m_FrameCacheQueue = <<>>
  BY DEF Init, GameInit
<1>2. Opened = {} /\ Executed = [fd \in Fds |-> <<>>]
  BY <1>1 DEF Opened, FSM_OPEN, Executed, NewClient
<1> QED BY <1>1, <1>2 DEF Abstract!Init, Opened, Executed

(* The services implement Lockstep: of all they do, a client sees a log     *)
(* that grows (frame_skip), its FSM opening (gs2c_loginsuc and the cache,   *)
(* for one client at a time), and the next frame of the log, whose number   *)
(* it never looks at (update_logic).                                        *)
THEOREM ServicesImplementLockstep ==
  ASSUME Allowed = {}
  PROVE  Spec => Abstract!Spec
<1>1. IInv /\ LockInv /\ [Next]_vars => [Abstract!Next]_(Abstract!absVars)
  BY LockstepStep DEF IInv
<1> QED BY <1>1, LockstepInit, LockInvariance, Invariance, PTL DEF Spec, Abstract!Spec

-----------------------------------------------------------------------------
(* What follows from Lockstep alone holds of the services.                  *)
Promised == INSTANCE LockstepProofs WITH
  Viewers <- Fds,
  Frame   <- FrameInfo,
  log     <- m_FrameCacheQueue,
  viewers <- {fd \in Fds : FSM_OPEN(fd)},
  seen    <- [fd \in Fds |-> client[fd].executed]

(* Two users look at one game: as far as their clients have executed the    *)
(* frames (update_logic), they have executed the same ones, though one had  *)
(* them from the broadcast and the other, late or back again, from a cache. *)
THEOREM ClientsShowOneGame ==
  ASSUME Allowed = {}
  PROVE  Spec => []Abstract!Agreement
<1>1. Abstract!Init => Promised!Init
  BY DEF Abstract!Init, Promised!Init
<1>2. [Abstract!Next]_(Abstract!absVars) => [Promised!Next]_(Promised!absVars)
  BY DEF Abstract!Next, Abstract!Extend, Abstract!Join, Abstract!Run, Abstract!Leave,
     Abstract!absVars, Promised!Next, Promised!Extend, Promised!Join, Promised!Run,
     Promised!Leave, Promised!absVars
<1>3. Promised!Agreement => Abstract!Agreement
  BY DEF Promised!Agreement, Abstract!Agreement
<1> QED BY <1>1, <1>2, <1>3, ServicesImplementLockstep, Promised!ClientsAgree, PTL
        DEF Abstract!Spec, Promised!Spec
=============================================================================
