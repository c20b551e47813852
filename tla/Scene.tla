-------------------------------- MODULE Scene --------------------------------
(***************************************************************************)
(* One game as the SCENE service runs it: a FighterWar object              *)
(* (server/scene/fighter_war.lua) and its FrameMgr                         *)
(* (server/scene/frame_mgr.lua).  Every tick the FrameMgr packs the        *)
(* controls collected since the last tick into a frame, broadcasts it and  *)
(* keeps it; a player who enters is sent every frame kept so far.          *)
(*                                                                         *)
(* A service runs one message or timer at a time and none of the handlers  *)
(* below waits for a reply, so each is one step.  The messages a handler   *)
(* sends to the game's broadcast service are appended to bcq, the mailbox  *)
(* of that service; module FrameSync composes this module with it.         *)
(***************************************************************************)
EXTENDS Naturals, Sequences

CONSTANTS
  Pids,       \* the player ids clients log in with
  Controls,   \* what a player can ask for: the attack and move payloads
  Piece,      \* iPiece, the frames per gs2c_frame_cache_data package
  MaxFrames   \* bound: the number of ticks of a run

ASSUME SceneAssumption ==
  /\ Pids \subseteq Nat \ {0}
  /\ Controls \cap {"ACTION_ENTER", "ACTION_LEAVE"} = {}
  /\ Piece \in Nat \ {0}

VARIABLES
  m_Players,          \* the pids that are keys of FighterWar.m_Players
  m_CtrlDataQueue,    \* the controls of the tick under way
  m_FrameCacheQueue,  \* every frame since the game began
  m_CurFrameNo,       \* the number the next frame gets
  bcq                 \* the mailbox of the game's broadcast service

gameVars == <<m_Players, m_CtrlDataQueue, m_FrameCacheQueue, m_CurFrameNo>>

-----------------------------------------------------------------------------
(* The CtrlInfo and FrameInfo structures of common/sproto/base.sproto.      *)

Actions == Controls \cup {"ACTION_ENTER", "ACTION_LEAVE"}

CtrlInfo == [pid : Pids, action : Actions]

FrameInfo == [frame_number : Nat, ctrl_data : Seq(CtrlInfo)]

Ctrl(pid, action) == [pid |-> pid, action |-> action]

(* The packages the game sends to clients, and the two broadcast commands   *)
(* that carry them.  send_to_player is send_to_list for one player.         *)
LoginSuc(n) == [proto |-> "gs2c_loginsuc", frame_cache_num |-> n]

FrameCacheData(frames) ==
  [proto |-> "gs2c_frame_cache_data", frame_cache |-> frames]

FrameData(frame) == [proto |-> "gs2c_frame_data", frame_data |-> frame]

SendTo(uuids, data) == [cmd |-> "send", uuids |-> uuids, data |-> data]

(* Fault: the frames after the last full package are not sent.              *)
CachePieces_NoRest ==
  [k \in 1 .. Len(m_FrameCacheQueue) \div Piece |->
     SubSeq(m_FrameCacheQueue, (k - 1) * Piece + 1, k * Piece)]

(* frame_cache cut into packages of Piece frames, the last one shorter.     *)
CachePieces ==
  LET num   == Len(m_FrameCacheQueue)
      last(k) == IF k * Piece < num THEN k * Piece ELSE num
  IN  [k \in 1 .. (num + Piece - 1) \div Piece |->
         SubSeq(m_FrameCacheQueue, (k - 1) * Piece + 1, last(k))]

-----------------------------------------------------------------------------
(* Fault: the newest control comes first.                                   *)
push_frame_Front(ctrl_data) ==
  m_CtrlDataQueue' = <<ctrl_data>> \o m_CtrlDataQueue

push_frame(ctrl_data) == m_CtrlDataQueue' = Append(m_CtrlDataQueue, ctrl_data)

(* Fault: the cache goes out before gs2c_loginsuc.                          *)
add_player_CacheFirst(pid) ==
  LET pieces == CachePieces
  IN  /\ m_Players' = m_Players \cup {pid}
      /\ bcq' = bcq \o [k \in 1 .. Len(pieces) |->
                          SendTo({pid}, FrameCacheData(pieces[k]))]
                     \o <<SendTo({pid}, LoginSuc(Len(m_FrameCacheQueue)))>>
      /\ push_frame(Ctrl(pid, "ACTION_ENTER"))
      /\ UNCHANGED <<m_FrameCacheQueue, m_CurFrameNo>>

(* A player who enters is sent the log before any frame can follow it.      *)
add_player(pid) ==
  LET pieces == CachePieces
  IN  /\ m_Players' = m_Players \cup {pid}
      /\ bcq' = Append(bcq, SendTo({pid}, LoginSuc(Len(m_FrameCacheQueue))))
                \o [k \in 1 .. Len(pieces) |->
                      SendTo({pid}, FrameCacheData(pieces[k]))]
      /\ push_frame(Ctrl(pid, "ACTION_ENTER"))
      /\ UNCHANGED <<m_FrameCacheQueue, m_CurFrameNo>>

(* Fault: the other replicas are not told that a player left.               *)
del_player_NoFrame(pid) ==
  /\ m_Players' = m_Players \ {pid}
  /\ UNCHANGED <<m_CtrlDataQueue, m_FrameCacheQueue, m_CurFrameNo, bcq>>

del_player(pid) ==
  /\ IF pid \in m_Players
     THEN /\ m_Players' = m_Players \ {pid}
          /\ push_frame(Ctrl(pid, "ACTION_LEAVE"))
     ELSE UNCHANGED <<m_Players, m_CtrlDataQueue>>
  /\ UNCHANGED <<m_FrameCacheQueue, m_CurFrameNo, bcq>>

(* FighterWar:sync_ctrl checks the player of the session and pushes the     *)
(* control as it comes. The client's key handlers fill in this player's own *)
(* pid; a control that names another one is left out.                       *)
sync_ctrl(pid, action) ==
  /\ IF pid \in m_Players
     THEN push_frame(Ctrl(pid, action))
     ELSE UNCHANGED m_CtrlDataQueue
  /\ UNCHANGED <<m_Players, m_FrameCacheQueue, m_CurFrameNo, bcq>>

(* Faults: the frame is kept after the tick's controls were reset; the      *)
(* controls are not reset; the frame number does not advance.               *)
frame_skip_CacheAfterReset ==
  LET param == [frame_number |-> m_CurFrameNo, ctrl_data |-> m_CtrlDataQueue]
  IN  /\ Len(m_FrameCacheQueue) < MaxFrames
      /\ bcq' = Append(bcq, SendTo(m_Players, FrameData(param)))
      /\ m_FrameCacheQueue' = Append(m_FrameCacheQueue,
                                     [param EXCEPT !.ctrl_data = <<>>])
      /\ m_CtrlDataQueue' = <<>>
      /\ m_CurFrameNo' = m_CurFrameNo + 1
      /\ UNCHANGED m_Players

frame_skip_NoReset ==
  LET param == [frame_number |-> m_CurFrameNo, ctrl_data |-> m_CtrlDataQueue]
  IN  /\ Len(m_FrameCacheQueue) < MaxFrames
      /\ bcq' = Append(bcq, SendTo(m_Players, FrameData(param)))
      /\ m_FrameCacheQueue' = Append(m_FrameCacheQueue, param)
      /\ m_CurFrameNo' = m_CurFrameNo + 1
      /\ UNCHANGED <<m_Players, m_CtrlDataQueue>>

frame_skip_SameNumber ==
  LET param == [frame_number |-> m_CurFrameNo, ctrl_data |-> m_CtrlDataQueue]
  IN  /\ Len(m_FrameCacheQueue) < MaxFrames
      /\ bcq' = Append(bcq, SendTo(m_Players, FrameData(param)))
      /\ m_FrameCacheQueue' = Append(m_FrameCacheQueue, param)
      /\ m_CtrlDataQueue' = <<>>
      /\ UNCHANGED <<m_Players, m_CurFrameNo>>

frame_skip ==
  LET param == [frame_number |-> m_CurFrameNo, ctrl_data |-> m_CtrlDataQueue]
  IN  /\ Len(m_FrameCacheQueue) < MaxFrames
      /\ bcq' = Append(bcq, SendTo(m_Players, FrameData(param)))
      /\ m_FrameCacheQueue' = Append(m_FrameCacheQueue, param)
      /\ m_CtrlDataQueue' = <<>>
      /\ m_CurFrameNo' = m_CurFrameNo + 1
      /\ UNCHANGED m_Players

(* FighterWar:init and FrameMgr:init.                                       *)
GameInit ==
  /\ m_Players = {}
  /\ m_CtrlDataQueue = <<>>
  /\ m_FrameCacheQueue = <<>>
  /\ m_CurFrameNo = 1

GameNext ==
  \/ \E pid \in Pids : add_player(pid) \/ del_player(pid)
  \/ \E pid \in Pids, action \in Controls : sync_ctrl(pid, action)
  \/ frame_skip

-----------------------------------------------------------------------------
GameTypeOK ==
  /\ m_Players \subseteq Pids
  /\ m_CtrlDataQueue \in Seq(CtrlInfo)
  /\ m_FrameCacheQueue \in Seq(FrameInfo)
  /\ m_CurFrameNo = Len(m_FrameCacheQueue) + 1
  /\ \A i \in 1 .. Len(m_FrameCacheQueue) :
       m_FrameCacheQueue[i].frame_number = i

(***************************************************************************)
(* The stream of controls every replica executes: the ticks in order, tick *)
(* Len(m_FrameCacheQueue) + 1 being the one under way.  A place in the     *)
(* stream is a tick and an index into its controls.                        *)
(***************************************************************************)
Ticks == 1 .. Len(m_FrameCacheQueue) + 1

Tick(i) == IF i \in 1 .. Len(m_FrameCacheQueue)
           THEN m_FrameCacheQueue[i].ctrl_data
           ELSE m_CtrlDataQueue

Before(i, j, k, l) == i < k \/ (i = k /\ j < l)

(* Whoever executes the stream up to place (i, j), exclusive, has a player  *)
(* object for pid: it entered and has not left since.                       *)
Entered(pid, i, j) ==
  \E k \in Ticks : \E l \in 1 .. Len(Tick(k)) :
    /\ Before(k, l, i, j)
    /\ Tick(k)[l] = Ctrl(pid, "ACTION_ENTER")
    /\ \A m \in Ticks : \A n \in 1 .. Len(Tick(m)) :
         Before(k, l, m, n) /\ Before(m, n, i, j)
           => Tick(m)[n] # Ctrl(pid, "ACTION_LEAVE")

StreamEnd == Len(m_FrameCacheQueue) + 2

(* Replaying the whole stream rebuilds the server's own player table: a     *)
(* client that joins late or reconnects sees exactly the players the        *)
(* FighterWar object has, though it is sent only the controls, never the    *)
(* table (add_player and del_player update both).                           *)
ReplayRebuildsPlayers ==
  \A pid \in Pids : pid \in m_Players <=> Entered(pid, StreamEnd, 0)

(* A control never outlives its player: at every place of the stream that   *)
(* holds a leave, an attack or a move, the replica has the player it is     *)
(* for, whatever was in flight when the player left (the guards of          *)
(* del_player and sync_ctrl).                                               *)
ControlsFindTheirPlayer ==
  \A i \in Ticks : \A j \in 1 .. Len(Tick(i)) :
    Tick(i)[j].action # "ACTION_ENTER" => Entered(Tick(i)[j].pid, i, j)
=============================================================================
