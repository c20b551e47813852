# Verification of Frame-Sync-Model

Frame-Sync-Model is a small multiplayer shooting game built on frame
synchronisation: the server (Lua services on skynet) does not simulate the game.
Every tick it packs the controls it got since the last tick into a *frame*,
broadcasts it and keeps it; every client executes all frames, in order, on its own
copy of the game, starting from the same random seed. A client that joins late or
reconnects is sent all frames so far and catches up. The promise is that all
clients show the same game. This directory holds TLA+ models of the program and of
the parts of its runtime, skynet, that it stands on, the TLC configurations that
check them and proofs that TLAPS checks.

## 1. The system

| Part | Code | State | Operations |
|---|---|---|---|
| GAMEGATE | `server/service/gamegate.lua`, `server/lualib/connection.lua` | `conlist`: per socket the agent and pid it is logged in with | `MSG.open/close/error`, `dispatch_msg`, `CMD.loginsuc`, `CheckConnections` (5-minute timer) |
| GAMELOGIN | `server/lualib/gamelogincmd.lua` | none | `UpackData`: answers a `c2gs_login` with a `loginsuc` to the gate |
| AGENT1..n | `server/agent/*.lua`, `server/lualib/netcmd.lua` | `playerlist`: per pid a player object (`m_FD`, `m_SceneAgent`, ping state) | `start`, `kick`, `Unpack`; `ServerPing` timer |
| SCENE_MGR | `server/lualib/scenemgrcmd.lua` | proxies of the games that take players | `enter_player` (creates a game when there is none), `game_over` |
| SCENE1..n | `server/scene/*.lua` | per game a `FighterWar` (`m_Players`) and a `FrameMgr` (`m_CtrlDataQueue`, `m_FrameCacheQueue`, `m_CurFrameNo`) | `new_game`, `enter_player`, `leave_player`, `sync_ctrl`, `sync_data`; timers `FrameSkip`, `CheckOver`, `SyncRtt` |
| SCENE_BC1..n, PUB_BC | `server/broadcast/*.lua`, `server/lualib/net.lua` | `fd_map`: per pid the connection frames go to | `register_fd`, `unregister_fd`, `send_to_player`, `send_to_list` |
| Timers | `server/lualib/object.lua`, `server/globaldefines.lua` | timer list of each object | `AddTimer`, `RemoveTimer` |
| Client | `client/game.py`, `client/rpcservice.py`, `client/main.py` | `m_FsmInitData`, `m_FrameQueue`, `FSM_OPEN`, the entities, the random generator | a network thread (`init_fsm`, `gs2c_frame_cache_data`, `recv_frame`, `server_ping`) and a main loop (`update_logic`, key events) |
| skynet services, queues, handles, threads | `skynet/skynet-src/skynet_server.c`, `skynet_mq.c`, `skynet_handle.c`, `skynet_start.c` | contexts with reference counts, a ring of messages each, the global queue, the slots of handles, the sleeping workers | `skynet_context_new`, `push`, `release`, `message_dispatch`; `skynet_mq_push`, `pop`, `mark_release`, `release`; register, retire, grab; the loops of worker, timer and socket thread |
| skynet timer | `skynet/skynet-src/skynet_timer.c` | a wheel of five levels | `skynet_timeout`, `timer_update` |
| skynet socket server | `skynet/skynet-src/socket_server.c` | slots of sockets with two write lists, the request pipe, a batch of events | requests of services (connect, listen, start, send, close, shutdown); `socket_server_poll` |
| Startup, helpers, protocol, other vendored code | `server/service/init.lua`, `server/lualib/*`, `common/sproto`, the rest of `skynet`, `3rd` | | |

How they interact, for one login:

```
client --c2gs_login--> GAMEGATE --UpackData--> GAMELOGIN --loginsuc--> GAMEGATE --start--> AGENT
AGENT: login (register_fd to every broadcast service), then enterwar:
       call SCENE_MGR.enter_player ---enter_player---> SCENE ; answer --> AGENT
SCENE: add_player: gs2c_loginsuc, the cache in packages of 500 frames, an enter control
       frame_skip, every tick: gs2c_frame_data  ---> SCENE_BC ---> the registered connection
controls: client -> GAMEGATE -> AGENT -> SCENE.  Close of a connection: GAMEGATE --kick--> AGENT
       AGENT: leave_player to SCENE, unregister_fd to the broadcast services
```

A skynet service runs one message or timer at a time, but a handler that waits for
the answer of a call (`Player:enterwar`, `GameMgr:new_proxy`,
`FighterWar:game_over`) lets other messages run meanwhile. Messages sent by
service name pass through the one harbor service of the node, so a message gets to
its mailbox in the order of the sends that caused it; answers of calls go to the
caller directly. Nothing is persisted and no message between services is lost;
what is sent to a closed connection is.

### What is hard

* **Interleaving.** A player is at once in five tables (`conlist`, `playerlist`,
  `fd_map`, `m_Players`, the clients' entities) that are changed one after the
  other by messages. Logins, kicks and reconnections of a pid cross on the way.
* **Suspension.** A player can be kicked, or logged in again, while `enterwar`
  waits.
* **Identity.** `kick`, `leave_player` and every package for a client name a pid,
  not a connection or a session.
* **Joining late.** Cache and live frames make up one log for a client only if
  registration, cache and broadcasts arrive in the right order and the client
  seeds its generator exactly once, before the first frame.
* **Life of a game.** Creation and end of a game involve calls between SCENE_MGR
  and SCENE in both directions; the player count is never decremented.
* **Timers** outlive their objects (`ServerPing`), or keep a game alive
  (`FrameSkip`).
* **Two threads** of the client share the frame queue and `FSM_OPEN`.
* **Threads of the node.** Workers share queues through two flags and a global
  queue; a push wakes nobody; contexts are counted references held across threads;
  a service may be killed while it is launched, dispatched to or sent to.
* **Slots.** Sockets and handles are found by the low bits of their numbers. A slot
  is used again while requests and events for its former owner are on their way.
* **Partial writes** to a socket, in the middle of a package of either priority,
  with a close to come.
* **The timer wheel** moves nodes down from level to level, wraps around, and hands
  out messages without its lock.

What makes each part correct:

* FrameMgr, FighterWar: the log alone tells a replica everything about the
  players (`ReplayRebuildsPlayers`, `ControlsFindTheirPlayer`).
* Broadcast services: the route of a pid follows the player object
  (`RoutingConverges`).
* AGENT, SCENE_MGR, SCENE: they agree on who plays (`SceneKnowsPlayer`,
  `LiveConnectionServed`, `NoGhostPlayer`), and in which game (`AgentKnowsGame`,
  `OneGameEach`); games are not overfull, and listed as long as they may take
  players and no longer (`NoGameOverfull`, `ListedGamesAreChecked`,
  `OffListIsFinal`, `EmptyGameDelisted`, `EveryPlayerEnters`).
* Timers: one chain of closures per timer in force, none for a stopped one, the
  count kept (`OneClosurePerTimer`, `StoppedTimersRest`, `RunsAsAsked`), over a wheel
  that neither loses nor doubles a node and gives it out at its tick (`ClosuresInOnePlace`, `ImplementsAlarms`).
* The node: what the models of the game take for granted. One message at a time per
  service, from queues that are first in first out, none forgotten
  (`QueueInOnePlace`, `QueuesAreFifo`, `EveryMessageTaken`); resting on
  `ReferencesCounted`, `HandlesFound` and `Assertions`; dead services are cleaned up
  and the node ends (`DeadQueueFreed`, `NodeEnds`).
* The socket server: the stream of a connection is made of whole packages in order
  (`PackagesWhole`), only its own (`StaleIdHarmless`, `DataAfterOpen`),
  and complete when it is closed (`NothingLostByClose`, `CloseAnswered`).
* The path of controls from the gate on: once, in order (`InputsInOrder`).
* The path of frames and the client: the same log for all, in order, completely,
  seeded once, in the end (`LockstepPrefix`, `NoFrameLost`, `LoginServed`,
  `FramesExecuted`, `ImplementsLockstep`).

## 2. The modules

| Module | Models |
|---|---|
| `Scene` | one `FighterWar` with its `FrameMgr`: `add_player`, `del_player`, `sync_ctrl`, `frame_skip` |
| `FrameSync` | the whole path: gate, login, agents, SCENE_MGR, the game's SCENE (by extending `Scene`), its SCENE_BC, and the clients |
| `Lockstep` | the abstract specification: one log, viewers that join, execute it in order from the first frame, and leave |
| `GameLife` | how players come to games and how games begin and end: AGENT, SCENE_MGR with its list of proxies, several SCENE services and games, `CheckOver` |
| `TimerObject` | the timers of an object or a service |
| `TimerWheel` | the timer of the node, as operators on a wheel |
| `Alarms` | the abstract specification of a timer: alarms go off at their tick, in the order they were set |
| `Timeouts` | `TimerObject` over `TimerWheel`: the service, the timer thread, and the queue between them |
| `MessageQueue` | the ring of a message queue, as operators |
| `HandleStorage` | the slots of handles, as operators |
| `Skynet` | services, queues and threads of a node, by extending `MessageQueue` and `HandleStorage` |
| `SocketServer` | the socket thread and the threads that use it |
| `MCFrameSync`, `MCGameLife`, `MCSkynet` | the instances TLC checks, with symmetries and the weights of workers |
| `MailboxProofs` | lemmas about mailboxes and about sequences joined up, for the proofs |
| `FrameSyncProofs` | proofs about `Scene` and `FrameSync` that hold for any `Allowed` |
| `ClientProofs` | proofs about `FrameSync` for clients that behave: what becomes of logins, what clients get to see, and what becomes of controls |
| `LockstepProofs`, `GameLifeProofs`, `TimerProofs`, `SkynetProofs`, `SocketProofs` | the proofs about `Lockstep`, `GameLife`, the timers and the queues of skynet, and the socket server |

`FrameSync` and `GameLife` model the agents and SCENE_MGR from two sides: the first
has one game with its frames, controls and connections, the second many games
without them. What they share (`start`, `kick`, `enterwar`) is the same code.

**State and actions.** Variables have the names of the code's fields. Each service
has a mailbox (`agentq[a]`, `mgrq`, `sceneq`, `bcq`), a sequence of records with
the command and the fields its handler reads. A send is an append, a handler takes
the head, and its action makes every state change of the code up to its end or its
next call: `start(a)` is `command.start` up to the call in `enterwar`, the rest of
`enterwar` is the action `enterwar(a)` that takes SCENE_MGR's answer, and anything
can run between the two. An answer is a message in the caller's mailbox. It is sent
to the caller's handle, not by name, and so may overtake messages that are still in
the harbor queue: `Answer` puts it at any place of the mailbox.

* `m_Players` and `playerlist` hold pids and connections instead of objects; names,
  colours, positions, timestamps are left out. A player object is identified by the
  connection it was created for, which tells `enterwar` whether the object it
  resumes is still the one in the table.
* A control is a pid and an action; the pid in it is that of the client's own
  player, which is what the client's key handlers fill in. `Controls` stands for
  the attack and move payloads.
* A client is its queue, `m_FsmInitData`, and two histories: the frames executed,
  and how many had been executed when the generator was last seeded. Its entities
  are a function of these, so two clients show the same game when they agree on
  them. `FSM_OPEN` is set right after the seeding, in the same handler.
* The frame that is due (`update_logic`'s comparison of timestamps, or the fast
  forward) is executed at any time after it arrived.
* `touch_key` is the client's send together with the gate's dispatch of the packet, as
  nothing depends on the time between the two but whether the connection still
  stands: a control that is still unread in the socket of a connection that breaks is
  one that `touch_key` never gave.
* `NewConnection` contains the login packet and GAMELOGIN's handler;
  only the gate's own state is concerned until `loginsuc` arrives.
* `send_to_list` contains the client's receive handler, as a socket delivers in
  order; a connection that closes loses the client with it (`DelConnection`).
* `FrameSync`'s `Init` is the moment SCENE_MGR has created the game for the first
  login.
* In `GameLife` a connection is the `start` and the `kick` it leads to, and what a
  waiting handler remembers (`pid` and `fd` of the login `new_proxy` serves) travels
  with its call. A game exists when it is in the domain of `m_Players`; `checking`
  holds the games with a `CheckOver` timer, which can go off at any time, and again
  while its `game_over` waits for SCENE_MGR.
* In `TimerObject` a closure `f` is the index of the timer it was made for; a
  timeout goes off at any time. The histories `timers`, `stopped` and `ran` record
  what was asked for and what was run.
* `Timeouts` has the same actions with the time: `skynet.timeout` puts the closure
  into `wheel`, or into the queue if it asks for no time; `timer_update` takes out
  what is due, which `dispatch_list` hands to the queue one by one while the service
  runs. `Alarms` maps the nodes of the wheel to the ticks they have to go. Masks and
  shifts of the code are remainders and quotients; the bits per level are constants,
  8 and 6 in the code.
* In `Skynet` each thread has a program counter `pc`, and an action is what it does
  under one lock, or one atomic operation on a reference count. `q[w]` is the queue a
  worker serves, `dst[t]` the context a thread pushes to or must release, `new[w]` the
  service it launches or the queue it releases. What a callback does is a choice:
  send, launch, kill, return. ABORT kills service by service. A message is its source.
  The handle of a service under way is set in a step after its registration, together
  with the creation of its queue and the count of contexts (skynet_server.c:155-158), as
  nobody else knows the handle yet. `Dispatch` pops a message and looks at the length of
  the queue in one step, where the code locks twice: only how many messages the worker
  takes in this turn depends on it. The reference the monitor grabs and releases
  around a report, and the harbor's own context, are left out.
* In `SocketServer` services are the users of the API: a request goes through the pipe
  in one write, but a slot is taken in `Reserve` and its id written, with the request,
  in `Request`. The socket thread drains the pipe (`ctrl_cmd`), then works off the
  batch (`Event`) as `checkctrl` says; `clear_closed_event` is a step of its own, as
  another thread may take the slot in between. `Wait` lets the pipe be drained before
  the first event of a batch, which the code (socket_server.c:1240-1255) handles before
  it looks at the pipe again: that is a batch of this event alone, with the other events in
  the next batch and the requests sent after it. An `accept` that meets the limit of files
  (1167-1172) is reported to the listener's service and closes nothing; it is left out.
  The kernel chooses. A failed assertion
  sets `aborted`, after which nothing happens.

**What clients may do** is the constant `Allowed`. With `{}` a client logs in only
when no connection of its pid is open and its last `leave_player` is done, and does
not break while its player is entering. `"overlap"`, `"eager"` and `"drop"` lift
these three one by one. The server enforces none of them, so a property that needs
`{}` is one the server does not give to every client; section 3 says which. All
clients are the repository's own in what they send: a control with the pid of another
player, which `FighterWar:sync_ctrl` would push as it comes (fighter_war.lua:172),
is outside of the model whatever `Allowed` is.

## 3. The runs

| Run | Instance | Properties |
|---|---|---|
| `settled` | 2 pids, 2 connections, 3 frames in packages of 2, 2 inputs out of 2, `Allowed = {}` | `TypeOK`, `LockstepPrefix`, `NoFrameLost`, `LiveConnectionServed`, `NoGhostPlayer`, `InputsInOrder`, `ControlsFindTheirPlayer`, `ReplayRebuildsPlayers` |
| `free` | 1 pid, 3 connections, no frame, everything allowed | `RoutingConverges`, `SceneKnowsPlayer` |
| `liveness` | 2 pids, 2 connections, 2 frames, 1 input, fair | `LoginServed`, `FramesExecuted`, `ImplementsLockstep` |
| `eager` | 2 pids, 2 connections, 2 frames, 1 input, `Allowed = {"eager"}` | `ExecutedInLockstep`: violated |
| `overlap` | 2 pids, 2 connections, 1 frame, `Allowed = {"overlap"}` | `LiveConnectionServed`: violated |
| `games` | 3 pids, 3 logins, games of 2, `Allowed = {}` | `NoGameOverfull`, `OneGameEach` |
| `ends` | 2 pids, 2 logins, games of 2, `Allowed = {"drop"}`, fair | `TypeOK`, `ListedGamesAreChecked`, `AgentKnowsGame`, `OffListIsFinal`, `EmptyGameDelisted`, `EveryPlayerEnters` |
| `timers` | 2 timers, 1 handle or none, counted or for ever, a wheel of 2 slots a level, times 0, 2 and 5 | `OneClosurePerTimer`, `RunsAsAsked`, `StoppedTimersRest`, `ClosuresInOnePlace`, `ImplementsAlarms` |
| `node` | 2 workers, of weight -1 and 0, 2 services, 2 messages, rings of 2, 1 slot | `ReferencesCounted`, `HandlesFound`, `QueueInOnePlace`, `Assertions`, `QueuesAreFifo`, `EveryMessageTaken`, `DeadQueueFreed`, `NodeEnds` |
| `slots` | 2 slots, 3 ids, 1 package | `TypeOK`, `StaleIdHarmless`, `DataAfterOpen` |
| `streams` | 1 slot, 2 ids, 2 packages of 2 pieces, fair | `PackagesWhole`, `NothingLostByClose`, `CloseAnswered` |
| `stalled` | 1 slot, 1 id, 2 packages of 2 pieces | `BuffersEmpty`: violated |

What they show. If clients come back only when their leave is done, every client
has, at every moment, a beginning of the log, seeded before its first frame; what
it has and what is on its way is the whole log; and once things settle all tables
hold exactly the live connections. The order of the controls of a player is kept
from the gate to the frames. Whichever freedoms of `Allowed` clients take, routes follow player objects, the scene knows the
players the agents think it knows, and replaying the log is sound and complete.

Logins that find no game while one is being created for another login create games
of their own, so that players who log in together may not meet; but each is counted
for, sent to and told of the same game, no game is overfull, and a game that has
gone off the list, full or empty, gets nobody any more. A game that asked to be
taken off while an `enter_player` was on its way to it has a player and no
`CheckOver` timer: it stays off the list and lives on.

`OneGameEach` needs `Allowed = {}`. A player kicked while `enterwar` waits is not
taken out of the game it was sent to, as `leavewar` does not know that game yet; if
it is sent to another game when it comes back, both games send it their frames.
Under `"drop"` TLC finds this in thirteen states.

The node keeps what the models of services take for granted, in every interleaving of
two workers, timer and socket thread: also while services are killed in the middle of
their launch, of a turn or of a send to them. A message pushed while a worker is
about to go to sleep waits for the next tick of the timer thread, and no longer.
Timeouts go off at their tick, also when they were set over the wrap of the time.
Whatever portions the kernel takes, the bytes of a connection are whole packages, in
order per priority; nothing sent to a former owner of a slot gets to the present one.

Two of the violated properties are what the README of the program promises
("支持了断线重连...", README.md:8: reconnection is supported):

* `eager`. A player enters and its connection breaks at once; it reconnects while
  the `enter_player` of the first session is still under way. The `gs2c_loginsuc`
  and the cache of the first session go to the pid, hence to the new connection;
  the client executes frames, and the login data of its own session then seeds the
  generator again and appends the cache to what was executed.
* `overlap`. A player reconnects before the gate notices that the old connection
  is broken. When it does, `kick` removes the new player object. The new connection
  stays open, without a player and without frames.

The third is an assertion of the code, `send_buffer_empty(s) && s->wb_size == 0` at
socket_server.c:638. `stalled`: a service sends a package of low priority while the
socket is connecting, and closes it. The close tries to write; the kernel takes
nothing yet; nothing of the low list has been written in part, so `send_buffer` goes on to
step 4 and the assertion fails. The same happens whenever a write ends exactly between
two packages of the low list. The broadcast services of this program send at high
priority only (`Socketdriver.send`), so that the low lists of its sockets are empty.

A comment that a property touches: globaldefines.lua:53 lets a caller choose an int
for the handle of its timer, but handles assigned by the system are ints as well. With
the number 0 among the `Handles` of `TimerObject` the two meet: the timer a caller has under its own 0 is gone when the first timer is added without a handle.
No caller in the repository does it: all use strings, as does `timers`.

**Bounds.** Two connections give two players one of whom joins late, or a player who
comes back; `MaxConns` 3 (`free`) gives three sessions of one player, of which two can
be on their way at once; in `FrameSync` it must stay below the five at which SCENE_MGR
starts a new game. Three frames with `Piece` 2 (500 in the code) give a cache of
several packages, the last one short; frames of the cache, frames broadcast before and
frames broadcast after the login can all occur in one run. `MaxInputs` bounds the
controls of all clients together: two that could overtake each other, or one that
crosses a leave. `free` is about the tables of services, which neither controls nor
frames touch. With two pids and
`AGENT_CNT` 2, each agent has one player, so that they run independently.

In `GameLife`, `MaxPlayers` is 2 (five in the code) so that three players fill a game
and need another; with three logins there can be three games at once, all waiting to
be created, on the two scene services. `MaxCalls` 1 lets a game have one `game_over`
on its way: a second one finds the proxy gone already. Two timers are enough for
one that is replaced or removed with its closure still on its way. A wheel of one bit
per level has 32 ticks to the wrap, so that a time of 5 passes levels and the wrap
at every place of the time; and the time is never reset, so all places are reached.

In `Skynet` a ring of two cells is doubled with its head at either end; one slot is
doubled with the second service; weights -1 and 0 are one message a turn and all there
are (larger ones are in between). Two services are enough for one that launches,
kills and is sent to by the other, by the threads and by itself. In `SocketServer` a
package of two pieces can be cut once, and two packages can be cut between; two ids in
one slot, or three in two, use a slot again; one request in the pipe at a time delays
it against everything else the socket thread does.
An `accept` into a slot where a failed connect left
buffers needs five ids, more than `slots` has: `new_fd`'s assertion is met there by
connects and listens only, and by accepts in the proofs (`SocketInv`).

The runs allow deadlock because a run ends when its bounds are used up, a node ends,
or an assertion has failed. The symmetries exchange the two controls in `settled` and
the players in `games`, which no definition tells apart.

**Fairness** (`FairSpec`): weak fairness of each service, as skynet's worker
threads run every service with a message; of the tick, as its timer re-arms itself;
of GAMELOGIN's answer; and of each client's loop; in `GameLife`, of the services and
of the `CheckOver` timers, which go off again and again until they are removed. Not
of connecting, closing or pressing keys, which nobody has to do. In `Skynet`: of each
thread, which the system schedules, with callbacks that return; not of what callbacks
choose to do, nor of the socket thread's waking anybody, as it waits for the network.
In `SocketServer`: of the socket thread; services fall silent at some time, or the
requests in the pipe would keep it from the events for ever; and a socket with
something to write is found writable again and again, which is for the peer to see to
by reading. A peer that does not read delays a close for ever; that is what
`shutdown` is for.

## 4. The proofs

TLAPS proves, for every value of the constants allowed by their assumptions:

| Theorem | States |
|---|---|
| `FrameSyncProofs!Typing` | `Spec => []TypeOK` |
| `FrameSyncProofs!ReplayIsComplete` | `Spec => []ReplayRebuildsPlayers` |
| `FrameSyncProofs!ReplayIsSound` | `Spec => []ControlsFindTheirPlayer` |
| `FrameSyncProofs!RoutesFollowPlayers` | `Spec => []RoutingConverges` |
| `FrameSyncProofs!PlayersAreKnown` | `Spec => []SceneKnowsPlayer` |
| `ClientProofs!LiveAreServed` | `Allowed = {}` implies `Spec => []LiveConnectionServed` |
| `ClientProofs!GhostsGo` | `Allowed = {}` implies `Spec => []NoGhostPlayer` |
| `ClientProofs!ClientsInLockstep` | `Allowed = {}` implies `Spec => []LockstepPrefix` |
| `ClientProofs!FramesArrive` | `Allowed = {}` implies `Spec => []NoFrameLost` |
| `ClientProofs!ControlsArrive` | `Allowed = {}` implies `Spec => []InputsInOrder` |
| `ClientProofs!ServicesImplementLockstep` | `Allowed = {}` implies `Spec => Abstract!Spec`, that is `Lockstep`'s `Spec` |
| `ClientProofs!ClientsShowOneGame` | `Allowed = {}` implies `Spec => []Abstract!Agreement` |
| `LockstepProofs!ClientsAgree` | `Lockstep`'s `Spec => []Agreement` |
| `GameLifeProofs!Typed` | `GameLife`'s `Spec => []TypeOK` |
| `GameLifeProofs!RoomKept` | `Spec => []NoGameOverfull` |
| `GameLifeProofs!TimersKept` | `Spec => []ListedGamesAreChecked` |
| `GameLifeProofs!OffListFinal` | `Spec => OffListIsFinal` |
| `GameLifeProofs!AgentsKnow` | `Spec => []AgentKnowsGame` |
| `GameLifeProofs!InOneGame` | `Allowed = {}` implies `Spec => []OneGameEach` |
| `SkynetProofs!QueuesFifo` | `Skynet`'s `Spec => QueuesAreFifo` |
| `SkynetProofs!OnePlace` | `Spec => []QueueInOnePlace` |
| `SkynetProofs!NoneHeldDead` | `Spec => []DeadIsUnheld`: a context is deleted only when nobody has it in use and the storage has it no more |
| `SkynetProofs!AllCounted` | `Spec /\ []OneLaunch => []ReferencesCounted`: with services launched one at a time, the references of a context are exactly those held |
| `SkynetProofs!AllFound` | `Spec /\ []OneLaunch /\ []HandlesLast => []HandlesFound`: and, before the handles come round to 0, a service is found under its handle from the moment it has one until it is retired |
| `SkynetProofs!NoneCollide` | the same for `assert(new_slot[hash] == NULL)` in `skynet_handle_register`: whenever the next service may be registered, a doubling puts no two contexts into one slot |
| `SkynetProofs!AllInitialised` | the same for `assert(ctx->init)` in `dispatch_message`: no worker runs a service whose init is not done, or has failed |
| `SocketProofs!SocketsTyped` | `SocketServer`'s `Spec => []TypeOK` |
| `SocketProofs!StalePackagesRefused` | `Spec => []StaleIdHarmless` |
| `SocketProofs!OpenBeforeData` | `Spec => []DataAfterOpen` |
| `SocketProofs!PackagesStayWhole` | `Spec => []PackagesWhole` |
| `SocketProofs!CloseLosesNothing` | `Spec => []NothingLostByClose` |
| `TimerProofs!OneClosure` | `TimerObject`'s `Spec => []OneClosurePerTimer` |
| `TimerProofs!StoppedRest` | `Spec => StoppedTimersRest` |
| `TimerProofs!CountsAreKept` | `Spec => []RunsAsAsked` |
| `TimerProofs!OnePlaceEach` | `Timeouts`' `AllSpec => []ClosuresInOnePlace` |
| `TimerProofs!WheelServesTimers` | `AllSpec => Spec` of `TimerObject` |
| `TimerProofs!TimersOverTheWheel` | `AllSpec` implies the three properties of `TimerObject` |

The assumptions are `SceneAssumption` (pids are positive, attack and move are not
enter or leave, packages have at least one frame) and `FrameSyncAssumption` (`nil`
is no number, there is an agent, the bounds are numbers, fewer than five
connections), `TimerAssumption` (counts are numbers), `GameLifeAssumption` (a game
has room for at least two, there is a scene service, `nil` is neither a number nor a
player object), `SocketAssumption` (there is a slot, a package has at least one piece,
the bounds are numbers) and, for a node,
`SkynetAssumption`, `QueueSizeAssumption` and `HandleAssumption` (a finite set of
workers, apart from the timer and the socket thread; new rings have at least two
cells; the bounds are numbers, and no more services than handles; the number of handles
is a power of two that the slots at the start divide). The theorems of `FrameSyncProofs` and those
of `GameLifeProofs` but for `InOneGame` assume nothing of `Allowed`, so they hold
whichever of its freedoms clients take. Those of `ClientProofs` and `InOneGame` are about clients that behave, as
their hypothesis says; without it they are false: the runs `overlap` and `eager` show
it of the first, and TLC of `OneGameEach` (section 3). Nothing is assumed of the handles of timers.

*Replay.* `IInv` is `TypeOK /\ GameInv`, and `GameInv` is the game's types with both
replay properties. They need each other: a leave pushed by `del_player` finds its
player in the stream because `m_Players` is what the stream rebuilds, and the stream
keeps rebuilding it because the place a control is pushed at is its end. The
numbering of frames in `GameTypeOK` is needed for the places of the stream. The
argument has two lemmas per operation of the stream: pushing a control changes
nothing at earlier places (`EnteredPush`) and one thing at the end
(`EnteredPushEnd`); a tick turns the tick under way into a frame and moves no place
(`EnteredSkip`, `EnteredEnd`). `GameStep` is the step of one game;
for the server there is one lemma per service, which shows that the message a handler
takes has the fields and types the game's operations ask for.

*Routing.* `RoutingConverges` speaks of the last routing message of a pid. The
inductive form `RoutingInv` says there is one and it agrees with `playerlist`, or
there is none and `fd_map` does. A handler appends messages that are not about
routing (`RoutingKept`), changes the table and appends the message about it
(`RoutingChanged`), or works off the first message (`RoutingWorkedOff`).

*Players of the scene.* `SceneKnowsPlayer` is not inductive: when `enterwar` takes
SCENE_MGR's answer, the enter has been sent long ago. `KnowsScene` therefore also counts a player
whose answer is in the agent's mailbox, and `EndsInScene` says where the
mailbox of the game takes him. An answer of an earlier player object must not be
taken for one of the present, and a connection tells them apart because it is
started once (`StartedOnce`).

*Stages of a login.* With clients that behave, the tables of five services say the
same of a pid once nothing of it is under way, but no step establishes that: a login
does, over six mailboxes. `Stage` is the disjunction of the
places it can be at: its connection accepted (`LogsIn`), its `start` on the way
(`Starting`), SCENE_MGR asked (`Calling`), its answer on the way
(`EnteringScene`), in the game (`Playing`), kicked (`Kicked`), or gone (`Away`). Each says which messages about
the pid every mailbox holds, in which order (`Holds`), and what each table has. A step
of the server moves one pid to the next stage and leaves the messages of the others
alone (`StageGate`, `StageAgent`, `StageMgr`, `WayTaken`). `GateInv` and `HomeInv`
say that a login is of an open connection and that messages are at the agent
of their pid. A settled pid is at `Playing` or `Away` (`SettledStage`).

*Lockstep.* What a client has received depends on packages that were put into the
broadcast service's mailbox before the client was routed to, and on a log that has
grown since. `LinkInv` ties them: for the connection a pid owns (GAMEGATE and AGENT agree
on it) there are a place `b` in the mailbox where its route is set, and a number
`g[k]` for each message from there on, which says how far the client will have been brought when it
has come to that message: 0 is nothing, 1 is `gs2c_loginsuc`, each frame one more.
The client is at `g[b]` now (`ClientAt`), every package brings it from its
`g[k - 1]` to its `g[k]` (`Carries`), and the last number is the length of the log if
the game has the player (`Progress`). Senders extend the numbers (`LinkSent`; `EntersLog` for the login
data, where `PieceFacts` is the cutting of the cache), the broadcast service works them
off (`LinkTaken`), and with an empty mailbox that is all there is to say. `RouteInv` keeps packages from
other connections: an old route or registration leads to a connection that is closed or
still the pid's. `NobodyInv` says that a client nobody owns has got nothing. The
stages of a login are needed where a player enters or leaves the game: the owner of a
connection enters once, and cannot be on its way out (`OwnerEnters`).

*No frame lost.* `LinkInv` says of the frames under way what `NoFrameLost` says with a
fold: `UpTo(w, x, log)` is that `w` is the log to the place `x` stands for, and the
frames that each message brings take it from one `g[k]` to the next (`UpToCarries`). What is
joined up is a folded sequence, of which the prover only has the definition of
`FlattenSeq`. `MailboxProofs` therefore has a function with the parts joined up to each
place, equal to the fold at every place because there is no first place where it is
not (`FlattenJoins`); the same argument gives what an append, a tail and an insertion
do to it (`FlattenAppend`, `EachAppend`, `EachTail`, `EachInsert`).

*No control lost.* A control is in one of three pieces, which `ControlsOf` puts one
after the other: the frames, the scene's mailbox, the agent's. A step moves `x` from
the second piece to the first, `y` from the third to the second, or adds `z` to the
third and to `inputs` (`Moved`), and what it takes from the front of one is what it
puts at the end of the other, so that the whole stays what was given (`ChainMoved`). This
needs that no handler drops a control. `KeysInv`, which the run `settled` was used to
check first, says so by what comes before what (`Ordered`): in the agent's mailbox a
control comes after the answer that lets its player in, if that has not been taken
yet, and before the kick; in the scene's mailbox before a leave; and its player is
one of the game. The gate gets a control only when the client has executed the enter of
its own player (`MainRolePlays`, by `LinkInv`), and then the stage of the login says
where the answer and the kick are (`MayTouch`). `KeysStage` and `StaysIn` exclude that
the player leaves the game while the agent still has controls of it.

*Refinement.* `FrameSkip` is `Extend`, `update_logic(fd)` is `Run(fd)`, as `LinkInv`
makes the frame at the head of the queue the next of the log. `DelConnection(fd)` is
`Leave(fd)`, or a stutter if the FSM was not open, when nothing has been executed
(`ClientsRunLog`). A package that opens an FSM goes to one player (`SendInv`), so that
`send_to_list` is `Join` of one viewer or a stutter; all other steps are stutters.
The theorems of `LockstepProofs` then hold of the services (`Promised`).

*Agreement.* A viewer's frames are a beginning of the log.

*Timers.* Entries of `m_TimerList` and live closures, those whose timer was neither
removed nor replaced, are one to one (`EntriesAreLive`, `LiveHaveEntries`): a
closure that finds its timer in force is the one of that entry, because numbers are
never given twice (`Numbered`).

*The wheel.* `WheelServesTimers` carries these over to timers that run on the wheel of
a node, of any size. What they need of it is that a closure still to be called is in one
place: in the wheel, in the list of those due or in the queue of the service
(`ClosuresInOnePlace`). `Placement` counts: the three have between them the ids
of all closures and no more places than there are closures, so that none has two. Of the
wheel, `Holding` keeps the nodes, their ids and the number of cells. `link` adds one cell,
`link_clear` gives up as many as it returns (`LinkHolds`, `ClearHolds`), and a list moved
down is a fold that links each node in turn: the function a fold stands for exists
(`AddsExist`), because there is no first place where it does not, and neither is there
a first place where a cell is lost (`FoldHolds`). A closure called is taken from the
queue, and has no second place to be called from (`CalledLast`). The tick a node goes off
at does not matter here; that is `ImplementsAlarms`.

*Games.* `GameInv` goes game by game. A game id is unknown; then in a `new_game` on
its way to a service, and nothing else speaks of it (`Creating`); then in the answer,
with its timer set, with nobody in it and no `game_over` that has got ahead of the
answer (`Created`, `AnsweredFirst`); then on the list, once, with a count that bounds
its members and no answer to a `game_over` on its way (`OnList`, `ListedOnce`); then
off it. A step touches one game (`Step_...`) and leaves the others as they were
(`Untouched`), or none (`QuietStep`). The delicate points are the order of the answer
and the `game_over` calls, which the code gets from the timer being set before the
answer is sent, and `counted`: the count is raised in the handler that picks the
proxy, before another can pick it. `ListedGamesAreChecked` alone is not inductive,
because a `game_over` ahead of the answer would leave a game listed whose timer is
removed next.

*Players of games.* An agent claims a game for a player when `m_GameID` says so, or
when an answer for the login under way is in the mailbox (`Claims`); a game has a
player when it is in `m_Players` with no leave on its way, or when an enter is on its
way that no leave follows (`HasPlayer`). `ClaimsHold` is kept because the enter goes to
the service's mailbox in the same step as the answer to the agent's (`PlayerEntered`),
and because a logout sends its leave in the step that drops the player object. An
answer that comes after the logout claims nothing, as long as no later login has the
same socket id: that is `StartedOnce`, where `Started` follows a login from its call
over `new_game` and back. An enter never reaches a game that does not exist
(`EntrantsFindGame`), where it would be dropped; this needs `GameInv`.

*One game each.* That an agent's player is in the game it was told of does not say
that it is in no other. `LoginsInv` adds, for clients that behave, that a login is one
thing at a time: at most one call in any mailbox (`OneCall`), by a player who waits
for it (`CallsWait`); at most one message for the agent (`OneMessage`); a leave only for
a player who is away, and of one game (`LeavesAway`). Then a game has a player who
either claims it or whose leave is the last the service will hear of it
(`MembersKnown`), and two games cannot have both.

*Ids.* The invariants above know ids as numbers (`Types`). `TypeOK` bounds them: game ids
by the number of logins, though SCENE_MGR counts them up whenever it finds no game to
offer. `LoginsAsk` says why: a login waits, once, in its agent's mailbox or in SCENE_MGR's,
and there are no more game ids than logins that wait no longer (`Heard`). A new game is
the second half of hearing a login, so both numbers go up by one together. `Fit` then
carries the bound through every mailbox and table that holds an id, and `OnList` gives
the count of a listed proxy.

*Queues.* A ring stands for the sequence of its cells from `head` to `tail`
(`Contents`). `PopTakesFirst` and `PushAppends` say what `mq_pop` and `mq_push` do to
that sequence, `expand_queue` and the turn of both indices included; that is where
the arithmetic is. `RingInv` adds that every queue is such a ring, and each step of a
worker, of a sender or of the timer changes one of them by a pop or a push
(`WorkStep`, `CommandStep`, `SendStep`, `DeliverStep`).

*Queues in one place.* A queue is `Alone` (once in the global queue or in one thread's
hands) or `Nowhere`, and `At` says which, by its flags. That depends on the reference
counts: a worker that finds its queue empty resets `in_global`, and a queue whose
context died meanwhile would then be neither in a place nor put into one. `NodeInv`
therefore has `RefInv`: for each service the references counted are those of the
threads that hold it, and one for the storage from its launch until it is retired
(`StorageRef`); the release flag is set exactly at zero. A thread in its turn holds the context, so that the context is not dead
(`HolderFacts`). `Control` says what each thread holds by where it is, also while it
delivers a message in between. A service under way has no handle yet (`NewInv`), so
that nobody has found it, and what is not launched has left no trace (`Fresh`).
Of the storage the proof needs only that a context is in at most one slot, that a
doubled storage has room, and that no step brings a retired context back
(`Registered`, `Retired`); there the power of two comes in.

*Handles that are found.* `NodeInv` does not say that a context whose reference is
counted for the storage is in it, because it need not be: a storage that is doubled
while another launch is between registration and assignment moves that launch's
context to slot 0, where its handle will not find it, and if a second context goes
there `assert(new_slot[hash] == NULL)` fails. With `MaxHandles = 4` TLC finds
`HandlesFound` violated in this way. So `ReferencesCounted` and `HandlesFound` are not
true for all values of the constants. The theorems about them have the condition under which they
are: `OneLaunch`, that no two services are between the two steps at once. In the
program services are launched by the one launcher service, in a callback each, and its
queue is in one place (`OnePlace`); before there is one, by the start of the node and by `bootstrap`, and the
harbor by `cdummy`, while `bootstrap` waits for that. Then the contexts lie
where the handles *given* to them say, also when they do not have them yet (`SlotsInv`,
`Sorted`), and a doubling keeps that (`DoubledKeeps`, `RegisteredKeeps`).
`HandlesLast`, that no handle given is 0, excludes the turn of the index after 2^24
launches, at which a context gets a handle that stands for none. For
`assert(ctx->init)`, `InitInv`: a service whose init is not done is not registered, or in the
hands of its launcher, so that a worker that has its queue does not find it; a launch
that fails must find the context to retire it, and so needs `HandlesFound`.

*Sockets.* `SocketInv` is made of what is true of slots, events and streams; each part
was checked on the runs `slots` and `streams` before it was proved. A slot in use has the id of a
socket that hashes to it; an id is reserved by one service or asked for by one request
in the pipe (`ReservedOnce`), and the first request about an id is the one that opens
it (`OpensFirst`), as a service learns the id after that request is written: so another
request that names the id finds the socket, or a slot that has passed on, and never one
that is still to be that of the id. `StaleIdHarmless` and `DataAfterOpen` rest on that, and on no event
being left in the batch for a slot that was freed and taken again (`EventsLeft`, by
`clear_closed_event`). For the bytes, a list is made of rows: each package takes up
`PackageSize` places one after the other (`Rows`). What has been written and what is
in the high list make one such list (`Stream`), and so does the low list. That holds also
in the middle of a write, because the rest of a package cut in the low list is raised
to the high one (`raise_uncomplete`). Packages are in the order of their numbers, per
priority, as the pipe is (`Numbered`).

Only model-checked: the liveness properties, that of `ImplementsLockstep` included, that
`Timeouts` implements `Alarms` (a node goes off at its tick: arithmetic of digits by powers
of two, for which the prover has no rules), and `Assertions` as a whole. Of
its conjuncts the init flag is proved (`AllInitialised`) and that the release flag is set
exactly with the last reference (in `NodeInv`). The one about the slots is proved for the
states in which a registration may come (`NoneCollide`); the run checks it before the handle
of a launch is set as well, where it need not hold for other constants. The types of
`Skynet` lack the count of a turn, a quotient by a power of two. Left to TLC for good: liveness under fairness (with
`CloseAnswered`, `EveryPlayerEnters`, `EveryMessageTaken` and the like), which the prover has no
rules for.

## 5. Not modelled, and what could come next

* Ping, RTT and their statistics: they share with the frames only the player table.
  Three hazards are known there (a timer that outlives its player, a call on a nil
  agent, a resend under the same session).
* `CheckConnections`: it drops connections that have not logged in for five minutes.
* What executing a frame does to the entities, the game-over state of a client, and its
  two threads: the network thread and the main loop are one actor in `FrameSync`.
* Startup, which runs once in a fixed order before a connection is accepted; reload and
  debug helpers. `send_to_tbl`, `world_broadcast` and `kick_player` are never called.
* Bytes: packing, serialisation, the cutting of the stream into packages (`netpack`).
* Handles that wrap around after 2^24 launches and two launches at once are in the model
  of the node, but not in its run, which has two services; section 4 says what the proofs show
  with them and what not.
* In skynet: names of services, sessions, the monitor, harbor and cluster, UDP, socket options, the Lua library with
  its coroutines.
* The Lua interpreter, sproto, pysproto, jemalloc, database drivers, cryptography and
  the examples that come with skynet are third-party code that the program links but
  that has no logic of its own. They are nine tenths of the C code here, which is why
  the lines modelled are a small part of all lines while the program's own services
  and the core of the runtime are modelled almost completely.

Next: a module of the client's two threads; one for ping and RTT on top of
`TimerObject`.
