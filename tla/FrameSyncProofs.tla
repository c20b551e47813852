--------------------------- MODULE FrameSyncProofs ---------------------------
(***************************************************************************)
(* What holds of the whole server for any number of players, connections,  *)
(* frames and inputs, and whichever freedoms clients take (Allowed is not  *)
(* restricted): that the stream of controls the replicas execute is a      *)
(* faithful history of the game's player table, the server's types, where  *)
(* the broadcast service's table ends up, and that a scene knows the       *)
(* players whose agents say so.                                            *)
(***************************************************************************)
EXTENDS FrameSync, SequenceTheorems, MailboxProofs, TLAPS

-----------------------------------------------------------------------------
(* One game, whatever messages reach it and however many ticks it lives.    *)
GameInv == GameTypeOK /\ ReplayRebuildsPlayers /\ ControlsFindTheirPlayer

LastTick == Len(m_FrameCacheQueue) + 1

-----------------------------------------------------------------------------
(* The stream.                                                              *)

(* Every tick of the stream is a sequence of controls.                      *)
LEMMA TickType ==
  ASSUME GameTypeOK
  PROVE  /\ Len(m_FrameCacheQueue) \in Nat
         /\ LastTick \in Ticks
         /\ Tick(LastTick) = m_CtrlDataQueue
         /\ \A i \in Ticks : i \in Nat /\ i <= LastTick /\ Tick(i) \in Seq(CtrlInfo)
<1>1. Len(m_FrameCacheQueue) \in Nat
  BY DEF GameTypeOK
<1>2. ASSUME NEW i \in Ticks
      PROVE  i \in Nat /\ i <= LastTick /\ Tick(i) \in Seq(CtrlInfo)
  <2>1. i \in Nat /\ i <= LastTick
    BY <1>1, <1>2 DEF Ticks, LastTick
  <2>2. CASE i \in 1 .. Len(m_FrameCacheQueue)
    <3>1. m_FrameCacheQueue[i] \in FrameInfo
      BY <2>2 DEF GameTypeOK
    <3> QED BY <2>1, <2>2, <3>1 DEF Tick, FrameInfo
  <2>3. CASE i \notin 1 .. Len(m_FrameCacheQueue)
    BY <2>1, <2>3 DEF Tick, GameTypeOK
  <2> QED BY <2>2, <2>3
<1> QED BY <1>1, <1>2 DEF Ticks, LastTick, Tick

(* push_frame adds a control at the end of the last tick.                   *)
LEMMA PushTick ==
  ASSUME GameTypeOK, NEW c \in CtrlInfo, push_frame(c),
         UNCHANGED m_FrameCacheQueue
  PROVE  /\ Ticks' = Ticks
         /\ LastTick' = LastTick
         /\ StreamEnd' = StreamEnd
         /\ \A i \in Ticks : i # LastTick => Tick(i)' = Tick(i)
         /\ Len(Tick(LastTick)') = Len(Tick(LastTick)) + 1
         /\ Tick(LastTick)'[Len(Tick(LastTick)) + 1] = c
         /\ \A j \in 1 .. Len(Tick(LastTick)) : Tick(LastTick)'[j] = Tick(LastTick)[j]
<1>1. m_CtrlDataQueue' = Append(m_CtrlDataQueue, c)
  BY DEF push_frame
<1>2. m_CtrlDataQueue \in Seq(CtrlInfo)
  BY DEF GameTypeOK
<1>3. Tick(LastTick) = m_CtrlDataQueue /\ Tick(LastTick)' = m_CtrlDataQueue'
  BY TickType DEF Tick, LastTick
<1>4. \A i \in Ticks : i # LastTick => Tick(i)' = Tick(i)
  BY TickType DEF Tick, Ticks, LastTick
<1>5. Ticks' = Ticks /\ LastTick' = LastTick /\ StreamEnd' = StreamEnd
  BY DEF Ticks, LastTick, StreamEnd
<1>6. /\ Len(m_CtrlDataQueue') = Len(m_CtrlDataQueue) + 1
      /\ m_CtrlDataQueue'[Len(m_CtrlDataQueue) + 1] = c
      /\ \A j \in 1 .. Len(m_CtrlDataQueue) :
           m_CtrlDataQueue'[j] = m_CtrlDataQueue[j]
  BY <1>1, <1>2
<1> QED BY <1>3, <1>4, <1>5, <1>6

(* frame_skip closes the last tick and opens an empty one.                  *)
LEMMA SkipTick ==
  ASSUME GameTypeOK, frame_skip
  PROVE  /\ LastTick' = LastTick + 1
         /\ Ticks' = Ticks \cup {LastTick + 1}
         /\ StreamEnd' = StreamEnd + 1
         /\ \A i \in Ticks : Tick(i)' = Tick(i)
         /\ \A i : i = LastTick + 1 => Tick(i)' = <<>>
<1> DEFINE f == [frame_number |-> m_CurFrameNo, ctrl_data |-> m_CtrlDataQueue]
<1>1. /\ m_FrameCacheQueue' = Append(m_FrameCacheQueue, f)
      /\ m_CtrlDataQueue' = <<>>
  BY DEF frame_skip
<1>2. /\ Len(m_FrameCacheQueue') = Len(m_FrameCacheQueue) + 1
      /\ \A i \in 1 .. Len(m_FrameCacheQueue) :
           m_FrameCacheQueue'[i] = m_FrameCacheQueue[i]
      /\ m_FrameCacheQueue'[LastTick] = f
  <2>1. m_FrameCacheQueue \in Seq(FrameInfo)
    BY DEF GameTypeOK
  <2> HIDE DEF f
  <2> QED BY <1>1, <2>1 DEF LastTick
<1>3. Len(m_FrameCacheQueue) \in Nat
  BY TickType
<1>4. f.ctrl_data = m_CtrlDataQueue
  OBVIOUS
<1>5. ASSUME NEW i \in Ticks PROVE Tick(i)' = Tick(i)
  <2>1. CASE i = LastTick
    BY <1>2, <1>3, <1>4, <2>1 DEF Tick, LastTick
  <2>2. CASE i \in 1 .. Len(m_FrameCacheQueue)
    BY <1>2, <1>3, <2>2 DEF Tick
  <2> QED BY <1>3, <1>5, <2>1, <2>2 DEF Ticks, LastTick
<1>6. ASSUME NEW i, i = LastTick + 1 PROVE Tick(i)' = <<>>
  BY <1>6, <1>1, <1>2, <1>3 DEF Tick, LastTick
<1>7. /\ LastTick' = LastTick + 1
      /\ Ticks' = Ticks \cup {LastTick + 1}
      /\ StreamEnd' = StreamEnd + 1
  BY <1>2, <1>3 DEF LastTick, Ticks, StreamEnd
<1> QED BY <1>5, <1>6, <1>7

-----------------------------------------------------------------------------
(* Who has entered at a place of the stream.                                *)

(* A control added at the end changes nothing for the places before it.     *)
LEMMA EnteredPush ==
  ASSUME GameTypeOK, NEW c \in CtrlInfo, push_frame(c),
         UNCHANGED m_FrameCacheQueue,
         NEW pid, NEW i \in Nat, NEW j \in Nat,
         ~Before(LastTick, Len(Tick(LastTick)) + 1, i, j)
  PROVE  Entered(pid, i, j)' <=> Entered(pid, i, j)
<1> DEFINE Place(k, l) == k \in Ticks /\ l \in 1 .. Len(Tick(k))
<1>1. ASSUME NEW k, NEW l, Before(k, l, i, j)
      PROVE  (k \in Ticks' /\ l \in 1 .. Len(Tick(k)')) <=> Place(k, l)
  <2>1. CASE k \in Ticks /\ k # LastTick
    BY <2>1, PushTick
  <2>2. CASE k = LastTick
    <3>1. Len(Tick(LastTick)) \in Nat
      BY TickType
    <3>2. l # Len(Tick(LastTick)) + 1
      BY <1>1, <2>2
    <3> QED BY <2>2, <3>1, <3>2, PushTick, TickType
  <2>3. CASE k \notin Ticks
    BY <2>3, PushTick
  <2> QED BY <2>1, <2>2, <2>3
<1>2. ASSUME NEW k, NEW l, Place(k, l)
      PROVE  Tick(k)'[l] = Tick(k)[l]
  BY <1>2, PushTick, TickType
<1>3. ASSUME NEW k, NEW l, Place(k, l) PROVE k \in Nat /\ l \in Nat
  BY <1>3, TickType
<1> DEFINE NoLeave(k, l) ==
             \A m \in Ticks : \A n \in 1 .. Len(Tick(m)) :
               Before(k, l, m, n) /\ Before(m, n, i, j)
                 => Tick(m)[n] # Ctrl(pid, "ACTION_LEAVE")
           NoLeaveP(k, l) ==
             \A m \in Ticks' : \A n \in 1 .. Len(Tick(m)') :
               Before(k, l, m, n) /\ Before(m, n, i, j)
                 => Tick(m)'[n] # Ctrl(pid, "ACTION_LEAVE")
<1>4. ASSUME NEW k, NEW l PROVE NoLeave(k, l) <=> NoLeaveP(k, l)
  <2>1. ASSUME NoLeave(k, l) PROVE NoLeaveP(k, l)
    BY <1>1, <1>2, <2>1
  <2>2. ASSUME NoLeaveP(k, l) PROVE NoLeave(k, l)
    BY <1>1, <1>2, <2>2
  <2> QED BY <2>1, <2>2
<1>5. Entered(pid, i, j) <=>
        \E k \in Ticks : \E l \in 1 .. Len(Tick(k)) :
          /\ Before(k, l, i, j)
          /\ Tick(k)[l] = Ctrl(pid, "ACTION_ENTER")
          /\ NoLeave(k, l)
  BY DEF Entered
<1>6. Entered(pid, i, j)' <=>
        \E k \in Ticks' : \E l \in 1 .. Len(Tick(k)') :
          /\ Before(k, l, i, j)
          /\ Tick(k)'[l] = Ctrl(pid, "ACTION_ENTER")
          /\ NoLeaveP(k, l)
  BY DEF Entered, Before, Ctrl
<1> HIDE DEF NoLeave, NoLeaveP
<1>7. ASSUME Entered(pid, i, j) PROVE Entered(pid, i, j)'
  BY <1>1, <1>2, <1>4, <1>5, <1>6, <1>7
<1>8. ASSUME Entered(pid, i, j)' PROVE Entered(pid, i, j)
  BY <1>1, <1>2, <1>4, <1>5, <1>6, <1>8
<1> QED BY <1>7, <1>8

(* At the end of the stream an enter added there counts, and a leave added  *)
(* there undoes what came before.                                           *)
LEMMA EnteredPushEnd ==
  ASSUME GameTypeOK, NEW c \in CtrlInfo, push_frame(c),
         UNCHANGED m_FrameCacheQueue, NEW pid
  PROVE  Entered(pid, StreamEnd, 0)' <=>
           \/ c = Ctrl(pid, "ACTION_ENTER")
           \/ Entered(pid, StreamEnd, 0) /\ c # Ctrl(pid, "ACTION_LEAVE")
<1> DEFINE L == Len(Tick(LastTick))
           Place(k, l) == k \in Ticks /\ l \in 1 .. Len(Tick(k))
           Place2(k, l) == k \in Ticks' /\ l \in 1 .. Len(Tick(k)')
           Enter == Ctrl(pid, "ACTION_ENTER")
           Leave == Ctrl(pid, "ACTION_LEAVE")
<1>1. Enter # Leave
  BY DEF Ctrl
<1>2. /\ L \in Nat
      /\ LastTick \in Ticks
      /\ LastTick \in Nat
      /\ LastTick' = LastTick
      /\ Len(Tick(LastTick)') = L + 1
      /\ Tick(LastTick)'[L + 1] = c
  BY PushTick, TickType
<1>3. ASSUME NEW k, NEW l
      PROVE  Place2(k, l) <=> (Place(k, l) \/ (k = LastTick /\ l = L + 1))
  <2>1. CASE k = LastTick
    BY <1>2, <2>1, PushTick
  <2>2. CASE k # LastTick
    BY <2>2, PushTick
  <2> QED BY <2>1, <2>2
<1>4. ASSUME NEW k, NEW l, Place(k, l)
      PROVE  /\ Tick(k)'[l] = Tick(k)[l]
             /\ Before(k, l, LastTick, L + 1)
             /\ Before(k, l, StreamEnd, 0)
             /\ ~Before(LastTick, L + 1, k, l)
  <2>1. k \in Nat /\ k <= LastTick /\ l \in Nat
    BY <1>4, TickType
  <2>2. k = LastTick => l <= L
    BY <1>4
  <2>3. StreamEnd = LastTick + 1
    BY TickType DEF StreamEnd, LastTick
  <2>4. Tick(k)'[l] = Tick(k)[l]
    BY <1>4, PushTick
  <2> QED BY <1>2, <2>1, <2>2, <2>3, <2>4 DEF Before
<1>5. /\ Before(LastTick, L + 1, StreamEnd, 0)
      /\ ~Before(LastTick, L + 1, LastTick, L + 1)
  <2>1. StreamEnd = LastTick + 1
    BY TickType DEF StreamEnd, LastTick
  <2> QED BY <1>2, <2>1 DEF Before
<1> DEFINE After(k, l) ==
             \A m, n : Place(m, n) /\ Before(k, l, m, n) => Tick(m)[n] # Leave
           After2(k, l) ==
             \A m, n : Place2(m, n) /\ Before(k, l, m, n) => Tick(m)'[n] # Leave
<1>6. Entered(pid, StreamEnd, 0) <=>
        \E k, l : Place(k, l) /\ Tick(k)[l] = Enter /\ After(k, l)
  BY <1>4 DEF Entered
<1>7. ASSUME NEW k, NEW l, Place2(k, l) PROVE Before(k, l, StreamEnd, 0)
  BY <1>3, <1>4, <1>5, <1>7
<1>8. Entered(pid, StreamEnd, 0)' <=>
        \E k, l : Place2(k, l) /\ Tick(k)'[l] = Enter /\ After2(k, l)
  <2>1. StreamEnd' = StreamEnd
    BY PushTick
  <2>2. Entered(pid, StreamEnd, 0)' <=>
          \E k \in Ticks' : \E l \in 1 .. Len(Tick(k)') :
            /\ Before(k, l, StreamEnd, 0)
            /\ Tick(k)'[l] = Enter
            /\ \A m \in Ticks' : \A n \in 1 .. Len(Tick(m)') :
                 Before(k, l, m, n) /\ Before(m, n, StreamEnd, 0)
                   => Tick(m)'[n] # Leave
    BY <2>1 DEF Entered, Before, Ctrl
  <2> QED BY <1>7, <2>2
<1> HIDE DEF Place, Place2, Enter, Leave, L, After, After2
<1>9. CASE c = Enter
  <2>1. Place2(LastTick, L + 1) /\ Tick(LastTick)'[L + 1] = Enter
    BY <1>2, <1>3, <1>9
  <2>2. After2(LastTick, L + 1)
    BY <1>3, <1>4, <1>5 DEF After2
  <2>3. Entered(pid, StreamEnd, 0)'
    BY <1>2, <1>8, <2>1, <2>2
  <2> QED BY <1>9, <2>3 DEF Enter
<1>10. CASE c = Leave
  <2>1. ASSUME NEW k, NEW l, Place2(k, l), Tick(k)'[l] = Enter, After2(k, l)
        PROVE  FALSE
    <3>1. Place(k, l)
      BY <1>1, <1>2, <1>3, <1>10, <2>1
    <3>2. Before(k, l, LastTick, L + 1) /\ Place2(LastTick, L + 1)
      BY <1>3, <1>4, <3>1
    <3> QED BY <1>2, <1>10, <2>1, <3>2 DEF After2
  <2>2. ~Entered(pid, StreamEnd, 0)'
    BY <1>8, <2>1
  <2> QED BY <1>1, <1>10, <2>2 DEF Enter, Leave
<1>11. CASE c # Enter /\ c # Leave
  <2>1. ASSUME NEW k, NEW l, Place(k, l) PROVE After(k, l) <=> After2(k, l)
    BY <1>2, <1>3, <1>4, <1>11 DEF After, After2
  <2>2. ASSUME NEW k, NEW l, Place2(k, l), Tick(k)'[l] = Enter
        PROVE  Place(k, l) /\ Tick(k)[l] = Enter
    BY <1>2, <1>3, <1>4, <1>11, <2>2
  <2>3. ASSUME NEW k, NEW l, Place(k, l)
        PROVE  Place2(k, l) /\ Tick(k)'[l] = Tick(k)[l]
    BY <1>3, <1>4, <2>3
  <2>4. (\E k, l : Place(k, l) /\ Tick(k)[l] = Enter /\ After(k, l))
          <=> (\E k, l : Place2(k, l) /\ Tick(k)'[l] = Enter /\ After2(k, l))
    BY <2>1, <2>2, <2>3
  <2>5. Entered(pid, StreamEnd, 0)' <=> Entered(pid, StreamEnd, 0)
    BY <1>6, <1>8, <2>4
  <2> QED BY <1>11, <2>5 DEF Enter, Leave
<1> QED BY <1>9, <1>10, <1>11

(* Closing a tick changes nothing.                                          *)
LEMMA EnteredSkip ==
  ASSUME GameTypeOK, frame_skip, NEW pid
  PROVE  /\ \A i, j \in Nat : Entered(pid, i, j)' <=> Entered(pid, i, j)
         /\ Entered(pid, StreamEnd, 0)' <=> Entered(pid, StreamEnd, 0)
<1> DEFINE Place(k, l) == k \in Ticks /\ l \in 1 .. Len(Tick(k))
           Place2(k, l) == k \in Ticks' /\ l \in 1 .. Len(Tick(k)')
           Enter == Ctrl(pid, "ACTION_ENTER")
           Leave == Ctrl(pid, "ACTION_LEAVE")
<1>1. ASSUME NEW k, NEW l
      PROVE  Place2(k, l) <=> Place(k, l)
  <2>1. CASE k \in Ticks
    BY <2>1, SkipTick
  <2>2. CASE k = LastTick + 1
    <3>1. k \notin Ticks
      BY <2>2, TickType
    <3>2. Tick(k)' = <<>>
      BY <2>2, SkipTick
    <3> QED BY <3>1, <3>2
  <2>3. CASE k \notin Ticks /\ k # LastTick + 1
    BY <2>3, SkipTick
  <2> QED BY <2>1, <2>2, <2>3
<1>2. ASSUME NEW k, NEW l, Place(k, l) PROVE Tick(k)'[l] = Tick(k)[l]
  BY <1>2, SkipTick
<1> DEFINE After(k, l, i, j) ==
             \A m, n : Place(m, n) /\ Before(k, l, m, n) /\ Before(m, n, i, j)
                         => Tick(m)[n] # Leave
           After2(k, l, i, j) ==
             \A m, n : Place2(m, n) /\ Before(k, l, m, n) /\ Before(m, n, i, j)
                         => Tick(m)'[n] # Leave
<1>3. ASSUME NEW i, NEW j
      PROVE  /\ Entered(pid, i, j) <=>
                  \E k, l : Place(k, l) /\ Before(k, l, i, j)
                              /\ Tick(k)[l] = Enter /\ After(k, l, i, j)
             /\ Entered(pid, i, j)' <=>
                  \E k, l : Place2(k, l) /\ Before(k, l, i, j)
                              /\ Tick(k)'[l] = Enter /\ After2(k, l, i, j)
  BY DEF Entered, Before, Ctrl
<1>4. Entered(pid, StreamEnd, 0)' <=>
        \E k, l : Place2(k, l) /\ Before(k, l, StreamEnd', 0)
                    /\ Tick(k)'[l] = Enter /\ After2(k, l, StreamEnd', 0)
  BY DEF Entered, Before, Ctrl
<1>5. ASSUME NEW k, NEW l, Place(k, l)
      PROVE  Before(k, l, StreamEnd, 0) /\ Before(k, l, StreamEnd', 0)
  BY <1>5, SkipTick, TickType DEF Before, StreamEnd, LastTick
<1> HIDE DEF Place, Place2, Enter, Leave
<1>6. ASSUME NEW k, NEW l, NEW i, NEW j
      PROVE  After(k, l, i, j) <=> After2(k, l, i, j)
  BY <1>1, <1>2
<1>7. ASSUME NEW k, NEW l
      PROVE  After(k, l, StreamEnd, 0) <=> After2(k, l, StreamEnd', 0)
  BY <1>1, <1>2, <1>5
<1> HIDE DEF After, After2
<1>8. \A i, j \in Nat : Entered(pid, i, j)' <=> Entered(pid, i, j)
  BY <1>1, <1>2, <1>3, <1>6
<1>9. Entered(pid, StreamEnd, 0)' <=> Entered(pid, StreamEnd, 0)
  BY <1>1, <1>2, <1>3, <1>4, <1>5, <1>7
<1> QED BY <1>8, <1>9

(* The end of the stream is the place after its last control.               *)
LEMMA EnteredEnd ==
  ASSUME GameTypeOK, NEW pid
  PROVE  Entered(pid, StreamEnd, 0) <=> Entered(pid, LastTick, Len(Tick(LastTick)) + 1)
<1>1. ASSUME NEW k \in Ticks, NEW l \in 1 .. Len(Tick(k))
      PROVE  Before(k, l, StreamEnd, 0) /\ Before(k, l, LastTick, Len(Tick(LastTick)) + 1)
  <2>1. k \in Nat /\ k <= LastTick /\ l \in Nat /\ LastTick \in Nat
    BY TickType
  <2>2. StreamEnd = LastTick + 1 /\ Len(Tick(LastTick)) \in Nat
    BY TickType DEF StreamEnd, LastTick
  <2>3. k = LastTick => l <= Len(Tick(LastTick))
    OBVIOUS
  <2> QED BY <2>1, <2>2, <2>3 DEF Before
<1> QED BY <1>1 DEF Entered

-----------------------------------------------------------------------------
(* The invariants.                                                          *)

(* A control pushed together with the change of the player table it stands  *)
(* for keeps stream and table in step.                                      *)
LEMMA PushKeepsStream ==
  ASSUME GameInv, NEW c \in CtrlInfo, push_frame(c),
         UNCHANGED m_FrameCacheQueue,
         c.action # "ACTION_ENTER" => c.pid \in m_Players,
         m_Players' = CASE c.action = "ACTION_ENTER" -> m_Players \cup {c.pid}
                        [] c.action = "ACTION_LEAVE" -> m_Players \ {c.pid}
                        [] OTHER -> m_Players
  PROVE  ReplayRebuildsPlayers' /\ ControlsFindTheirPlayer'
<1> USE DEF GameInv
<1>1. \A pid \in Pids : \A a : c = Ctrl(pid, a) <=> (c.pid = pid /\ c.action = a)
  BY DEF CtrlInfo, Ctrl
<1>2. ReplayRebuildsPlayers'
  <2> SUFFICES ASSUME NEW pid \in Pids
               PROVE  pid \in m_Players' <=> Entered(pid, StreamEnd, 0)'
    BY DEF ReplayRebuildsPlayers
  <2>1. pid \in m_Players <=> Entered(pid, StreamEnd, 0)
    BY DEF ReplayRebuildsPlayers
  <2>2. Entered(pid, StreamEnd, 0)' <=>
          \/ c.pid = pid /\ c.action = "ACTION_ENTER"
          \/ pid \in m_Players /\ ~(c.pid = pid /\ c.action = "ACTION_LEAVE")
    BY <1>1, <2>1, EnteredPushEnd
  <2> QED BY <2>2
<1>3. ControlsFindTheirPlayer'
  <2> DEFINE L == Len(Tick(LastTick))
  <2>1. L \in Nat /\ LastTick \in Nat /\ LastTick' = LastTick /\ Ticks' = Ticks
    BY PushTick, TickType
  <2> SUFFICES ASSUME NEW i \in Ticks', NEW j \in 1 .. Len(Tick(i)'),
                      NEW pid, pid = Tick(i)'[j].pid,
                      Tick(i)'[j].action # "ACTION_ENTER"
               PROVE  Entered(pid, i, j)'
    BY DEF ControlsFindTheirPlayer, Entered, Ctrl, Before
  <2>2. i \in Nat /\ i <= LastTick /\ j \in Nat /\ i \in Ticks
    BY <2>1, TickType
  <2>3. CASE i = LastTick /\ j = L + 1
    <3>1. Tick(i)'[j] = c
      BY <2>1, <2>3, PushTick
    <3>2. pid \in m_Players /\ pid \in Pids
      BY <3>1 DEF CtrlInfo
    <3>3. Entered(pid, StreamEnd, 0)
      BY <3>2 DEF ReplayRebuildsPlayers
    <3>4. Entered(pid, i, j)
      BY <2>3, <3>3, EnteredEnd
    <3>5. ~Before(LastTick, L + 1, i, j)
      BY <2>1, <2>3 DEF Before
    <3> QED BY <2>2, <3>4, <3>5, EnteredPush
  <2>4. CASE ~(i = LastTick /\ j = L + 1)
    <3>1. j \in 1 .. Len(Tick(i)) /\ Tick(i)'[j] = Tick(i)[j]
      <4>1. CASE i = LastTick
        BY <2>1, <2>2, <2>4, <4>1, PushTick
      <4>2. CASE i # LastTick
        BY <2>2, <4>2, PushTick
      <4> QED BY <4>1, <4>2
    <3>2. Entered(pid, i, j)
      BY <2>2, <3>1 DEF ControlsFindTheirPlayer
    <3>3. ~Before(LastTick, L + 1, i, j)
      <4>1. i = LastTick => j <= L
        BY <3>1
      <4> QED BY <2>1, <2>2, <4>1 DEF Before
    <3> QED BY <2>2, <3>2, <3>3, EnteredPush
  <2> QED BY <2>3, <2>4
<1> QED BY <1>2, <1>3

LEMMA SkipKeepsStream ==
  ASSUME GameInv, frame_skip
  PROVE  ReplayRebuildsPlayers' /\ ControlsFindTheirPlayer'
<1> USE DEF GameInv
<1>1. m_Players' = m_Players
  BY DEF frame_skip
<1>2. ReplayRebuildsPlayers'
  BY <1>1, EnteredSkip DEF ReplayRebuildsPlayers
<1>3. ControlsFindTheirPlayer'
  <2> SUFFICES ASSUME NEW i \in Ticks', NEW j \in 1 .. Len(Tick(i)'),
                      NEW pid, pid = Tick(i)'[j].pid,
                      Tick(i)'[j].action # "ACTION_ENTER"
               PROVE  Entered(pid, i, j)'
    BY DEF ControlsFindTheirPlayer, Entered, Ctrl, Before
  <2>1. i \in Ticks /\ i \in Nat /\ j \in Nat /\ Tick(i)' = Tick(i)
    <3>1. i # LastTick + 1
      BY SkipTick
    <3> QED BY <3>1, SkipTick, TickType
  <2>2. Entered(pid, i, j)
    BY <2>1 DEF ControlsFindTheirPlayer
  <2> QED BY <2>1, <2>2, EnteredSkip
<1> QED BY <1>2, <1>3

LEMMA FrameCacheType ==
  ASSUME GameTypeOK, frame_skip
  PROVE  GameTypeOK'
<1> DEFINE f == [frame_number |-> m_CurFrameNo, ctrl_data |-> m_CtrlDataQueue]
<1>1. m_FrameCacheQueue \in Seq(FrameInfo) /\ Len(m_FrameCacheQueue) \in Nat
  BY DEF GameTypeOK
<1>2. f \in FrameInfo /\ f.frame_number = Len(m_FrameCacheQueue) + 1
  BY <1>1 DEF GameTypeOK, FrameInfo
<1>3. m_FrameCacheQueue' = Append(m_FrameCacheQueue, f)
  BY DEF frame_skip
<1> HIDE DEF f
<1>4. /\ m_FrameCacheQueue' \in Seq(FrameInfo)
      /\ Len(m_FrameCacheQueue') = Len(m_FrameCacheQueue) + 1
      /\ \A i \in 1 .. Len(m_FrameCacheQueue) :
           m_FrameCacheQueue'[i] = m_FrameCacheQueue[i]
      /\ m_FrameCacheQueue'[Len(m_FrameCacheQueue) + 1] = f
  BY <1>1, <1>2, <1>3
<1>5. ASSUME NEW i \in 1 .. Len(m_FrameCacheQueue')
      PROVE  m_FrameCacheQueue'[i].frame_number = i
  <2>1. CASE i = Len(m_FrameCacheQueue) + 1
    BY <1>2, <1>4, <2>1
  <2>2. CASE i \in 1 .. Len(m_FrameCacheQueue)
    BY <1>4, <2>2 DEF GameTypeOK
  <2> QED BY <1>1, <1>4, <2>1, <2>2
<1>6. /\ m_Players' \subseteq Pids
      /\ m_CtrlDataQueue' \in Seq(CtrlInfo)
      /\ m_CurFrameNo' = Len(m_FrameCacheQueue') + 1
  BY <1>4 DEF frame_skip, GameTypeOK
<1> QED BY <1>4, <1>5, <1>6 DEF GameTypeOK

LEMMA PushType ==
  ASSUME GameTypeOK, NEW c \in CtrlInfo, push_frame(c),
         m_Players' \subseteq Pids, UNCHANGED <<m_FrameCacheQueue, m_CurFrameNo>>
  PROVE  GameTypeOK'
<1>1. m_CtrlDataQueue' \in Seq(CtrlInfo)
  BY DEF push_frame, GameTypeOK
<1> QED BY <1>1 DEF GameTypeOK

LEMMA GameUnchanged ==
  ASSUME GameInv, UNCHANGED gameVars
  PROVE  GameInv'
<1>1. /\ m_Players' = m_Players
      /\ m_CtrlDataQueue' = m_CtrlDataQueue
      /\ m_FrameCacheQueue' = m_FrameCacheQueue
      /\ m_CurFrameNo' = m_CurFrameNo
  BY DEF gameVars
<1>2. GameTypeOK'
  BY <1>1 DEF GameInv, GameTypeOK
<1>3. Ticks' = Ticks /\ StreamEnd' = StreamEnd /\ \A i : Tick(i)' = Tick(i)
  BY <1>1 DEF Ticks, StreamEnd, Tick
<1>4. \A pid, i, j : Entered(pid, i, j)' <=> Entered(pid, i, j)
  BY <1>3 DEF Entered, Before, Ctrl
<1>5. ReplayRebuildsPlayers'
  BY <1>1, <1>3, <1>4 DEF GameInv, ReplayRebuildsPlayers
<1>6. ControlsFindTheirPlayer'
  <2> SUFFICES ASSUME NEW i \in Ticks', NEW j \in 1 .. Len(Tick(i)'),
                      NEW pid, pid = Tick(i)'[j].pid,
                      Tick(i)'[j].action # "ACTION_ENTER"
               PROVE  Entered(pid, i, j)'
    BY DEF ControlsFindTheirPlayer, Entered, Ctrl, Before
  <2>1. Entered(pid, i, j)
    BY <1>3 DEF GameInv, ControlsFindTheirPlayer
  <2> QED BY <1>4, <2>1
<1> QED BY <1>2, <1>5, <1>6 DEF GameInv

-----------------------------------------------------------------------------
(* A new game has an empty stream and no players.                           *)
LEMMA GameStart == GameInit => GameInv
<1> SUFFICES ASSUME GameInit PROVE GameInv
  OBVIOUS
<1>1. Len(m_FrameCacheQueue) = 0 /\ Len(m_CtrlDataQueue) = 0
  BY DEF GameInit
<1>2. GameTypeOK
  BY <1>1 DEF GameInit, GameTypeOK
<1>3. \A i \in Ticks : Tick(i) = <<>>
  BY <1>1 DEF GameInit, Ticks, Tick
<1>4. \A pid, i, j : ~Entered(pid, i, j)
  BY <1>3 DEF Entered
<1>5. ReplayRebuildsPlayers
  BY <1>4 DEF ReplayRebuildsPlayers, GameInit
<1>6. ControlsFindTheirPlayer
  BY <1>3 DEF ControlsFindTheirPlayer
<1> QED BY <1>2, <1>5, <1>6 DEF GameInv

(* Whatever the game does next keeps its types, and keeps the stream of     *)
(* controls a faithful history of the players: the guards of del_player and *)
(* sync_ctrl are what the proof needs.                                      *)
THEOREM GameStep == GameInv /\ GameNext => GameInv'
<1> SUFFICES ASSUME GameInv, GameNext PROVE GameInv'
  OBVIOUS
<1> USE DEF GameInv
<1>1. ASSUME NEW pid \in Pids, add_player(pid) PROVE GameInv'
  <2> DEFINE c == Ctrl(pid, "ACTION_ENTER")
  <2>1. c \in CtrlInfo /\ c.pid = pid /\ c.action = "ACTION_ENTER"
    BY DEF Ctrl, CtrlInfo, Actions
  <2>2. /\ push_frame(c)
        /\ m_Players' = m_Players \cup {pid}
        /\ UNCHANGED <<m_FrameCacheQueue, m_CurFrameNo>>
    BY <1>1 DEF add_player
  <2> HIDE DEF c
  <2>3. GameTypeOK'
    BY <2>1, <2>2, PushType DEF GameTypeOK
  <2>4. ReplayRebuildsPlayers' /\ ControlsFindTheirPlayer'
    BY <2>1, <2>2, PushKeepsStream
  <2> QED BY <2>3, <2>4
<1>2. ASSUME NEW pid \in Pids, del_player(pid) PROVE GameInv'
  <2> DEFINE c == Ctrl(pid, "ACTION_LEAVE")
  <2>1. c \in CtrlInfo /\ c.pid = pid /\ c.action = "ACTION_LEAVE"
    BY DEF Ctrl, CtrlInfo, Actions
  <2>2. CASE pid \in m_Players
    <3>1. /\ push_frame(c)
          /\ m_Players' = m_Players \ {pid}
          /\ UNCHANGED <<m_FrameCacheQueue, m_CurFrameNo>>
      BY <1>2, <2>2 DEF del_player
    <3> HIDE DEF c
    <3>2. GameTypeOK'
      BY <2>1, <3>1, PushType DEF GameTypeOK
    <3>3. ReplayRebuildsPlayers' /\ ControlsFindTheirPlayer'
      BY <2>1, <2>2, <3>1, PushKeepsStream
    <3> QED BY <3>2, <3>3
  <2>3. CASE pid \notin m_Players
    <3>1. UNCHANGED gameVars
      BY <1>2, <2>3 DEF del_player, gameVars
    <3> QED BY <3>1, GameUnchanged
  <2> QED BY <2>2, <2>3
<1>3. ASSUME NEW pid \in Pids, NEW action \in Controls, sync_ctrl(pid, action)
      PROVE  GameInv'
  <2> DEFINE c == Ctrl(pid, action)
  <2>1. /\ c \in CtrlInfo /\ c.pid = pid
        /\ c.action \notin {"ACTION_ENTER", "ACTION_LEAVE"}
    BY SceneAssumption DEF Ctrl, CtrlInfo, Actions
  <2>2. CASE pid \in m_Players
    <3>1. push_frame(c) /\ UNCHANGED <<m_Players, m_FrameCacheQueue, m_CurFrameNo>>
      BY <1>3, <2>2 DEF sync_ctrl
    <3> HIDE DEF c
    <3>2. GameTypeOK'
      BY <2>1, <3>1, PushType DEF GameTypeOK
    <3>3. ReplayRebuildsPlayers' /\ ControlsFindTheirPlayer'
      BY <2>1, <2>2, <3>1, PushKeepsStream
    <3> QED BY <3>2, <3>3
  <2>3. CASE pid \notin m_Players
    <3>1. UNCHANGED gameVars
      BY <1>3, <2>3 DEF sync_ctrl, gameVars
    <3> QED BY <3>1, GameUnchanged
  <2> QED BY <2>2, <2>3
<1>4. ASSUME frame_skip PROVE GameInv'
  BY <1>4, FrameCacheType, SkipKeepsStream
<1> QED BY <1>1, <1>2, <1>3, <1>4 DEF GameNext

-----------------------------------------------------------------------------
(* The types of the server.                                                 *)
IInv == TypeOK /\ GameInv

-----------------------------------------------------------------------------
(* Messages are of the types of their mailboxes, and a handler gets the     *)
(* fields it reads.                                                         *)
LEMMA AgentHead ==
  ASSUME NEW m \in AgentMsg
  PROVE  /\ m.pid \in Pids
         /\ m.cmd \in {"start", "entering"} => m.fd \in Fds
         /\ m.cmd = "Unpack" => m.action \in Controls
BY DEF AgentMsg

LEMMA SceneTypes ==
  ASSUME NEW pid \in Pids, NEW action \in Controls
  PROVE  /\ Msg("enter_player", pid) \in SceneMsg
         /\ Msg("leave_player", pid) \in SceneMsg
         /\ [cmd |-> "sync_ctrl", pid |-> pid, action |-> action] \in SceneMsg
BY DEF SceneMsg, Msg

LEMMA SceneHead ==
  ASSUME NEW m \in SceneMsg
  PROVE  /\ m.pid \in Pids
         /\ m.cmd = "sync_ctrl" => m.action \in Controls
BY DEF SceneMsg

LEMMA RouteTypes ==
  ASSUME NEW pid \in Pids, NEW fd \in Fds
  PROVE  Register(pid, fd) \in BCMsg /\ Unregister(pid) \in BCMsg
BY DEF BCMsg, Register, Unregister

LEMMA BCHead ==
  ASSUME NEW m \in BCMsg
  PROVE  /\ m.cmd = "register_fd" => m.uuid \in Pids /\ m.fd \in Fds
         /\ m.cmd = "unregister_fd" => m.uuid \in Pids
         /\ m.cmd = "send" => m.uuids \subseteq Pids /\ m.data \in Package
BY DEF BCMsg

LEMMA PackageTypes ==
  ASSUME NEW uuids \in SUBSET Pids, NEW n \in Nat, NEW frames \in Seq(FrameInfo),
         NEW frame \in FrameInfo
  PROVE  /\ SendTo(uuids, LoginSuc(n)) \in BCMsg
         /\ SendTo(uuids, FrameCacheData(frames)) \in BCMsg
         /\ SendTo(uuids, FrameData(frame)) \in BCMsg
<1>1. LoginSuc(n) \in Package
  BY DEF LoginSuc, Package
<1>2. FrameCacheData(frames) \in Package
  BY DEF FrameCacheData, Package
<1>3. FrameData(frame) \in Package
  BY DEF FrameData, Package
<1> HIDE DEF Package, LoginSuc, FrameCacheData, FrameData
<1> QED BY <1>1, <1>2, <1>3 DEF SendTo, BCMsg

(* The mailboxes.                                                           *)
LEMMA SendAgentType ==
  ASSUME NEW q \in [Agents -> Seq(AgentMsg)], NEW pid, NEW m \in AgentMsg
  PROVE  SendAgent(q, pid, m) \in [Agents -> Seq(AgentMsg)]
<1> DEFINE x == get_user_agent(pid)
<1>1. SendAgent(q, pid, m) = [q EXCEPT ![x] = Append(q[x], m)]
  BY DEF SendAgent
<1> HIDE DEF x
<1>2. x \in Agents => Append(q[x], m) \in Seq(AgentMsg)
  OBVIOUS
<1> QED BY <1>1, <1>2

LEMMA AnswerType ==
  ASSUME NEW S, NEW q \in Seq(S), NEW m \in S, NEW r \in Answer(q, m)
  PROVE  r \in Seq(S)
<1>1. PICK i \in 1 .. Len(q) + 1 : r = InsertAt(q, i, m)
  BY DEF Answer
<1> DEFINE front == SubSeq(q, 1, i - 1)
           back  == SubSeq(q, i, Len(q))
<1>2. front \in Seq(S) /\ back \in Seq(S) /\ <<m>> \in Seq(S)
  OBVIOUS
<1>3. r = front \o <<m>> \o back
  BY <1>1 DEF InsertAt
<1> HIDE DEF front, back
<1> QED BY <1>2, <1>3

LEMMA TailType ==
  ASSUME NEW S, NEW q \in Seq(S), q # <<>>
  PROVE  Head(q) \in S /\ Tail(q) \in Seq(S)
OBVIOUS

LEMMA AgentReceives ==
  ASSUME TypeOK, NEW a \in Agents, NEW cmd, Receives(agentq[a], cmd)
  PROVE  /\ Head(agentq[a]) \in AgentMsg
         /\ Head(agentq[a]).cmd = cmd
         /\ [agentq EXCEPT ![a] = Tail(@)] \in [Agents -> Seq(AgentMsg)]
<1>1. agentq \in [Agents -> Seq(AgentMsg)] /\ agentq[a] \in Seq(AgentMsg)
  BY DEF TypeOK
<1>2. agentq[a] # <<>> /\ Head(agentq[a]).cmd = cmd
  BY DEF Receives
<1>3. Head(agentq[a]) \in AgentMsg /\ Tail(agentq[a]) \in Seq(AgentMsg)
  BY <1>1, <1>2, TailType
<1> QED BY <1>1, <1>2, <1>3

-----------------------------------------------------------------------------
(* The scene's messages to clients.                                         *)

(* The pieces of the frame cache are sequences of frames.                   *)
LEMMA PieceType ==
  ASSUME GameTypeOK
  PROVE  /\ CachePieces \in Seq(Seq(FrameInfo))
         /\ \A k \in 1 .. Len(CachePieces) : CachePieces[k] \in Seq(FrameInfo)
<1> DEFINE num == Len(m_FrameCacheQueue)
           last(k) == IF k * Piece < num THEN k * Piece ELSE num
           cnt == (num + Piece - 1) \div Piece
           piece(k) == SubSeq(m_FrameCacheQueue, (k - 1) * Piece + 1, last(k))
<1>1. num \in Nat /\ m_FrameCacheQueue \in Seq(FrameInfo) /\ Piece \in Nat \ {0}
  BY SceneAssumption DEF GameTypeOK
<1>2. CachePieces = [k \in 1 .. cnt |-> piece(k)]
  BY DEF CachePieces
<1>3. cnt \in Nat
  BY <1>1
<1>4. ASSUME NEW k \in 1 .. cnt PROVE piece(k) \in Seq(FrameInfo)
  <2>1. k - 1 \in Nat /\ k \in Nat
    BY <1>3
  <2>2. (k - 1) * Piece \in Nat /\ k * Piece \in Nat
    BY <1>1, <2>1
  <2>3. last(k) \in Nat /\ last(k) <= num
    BY <1>1, <2>2
  <2> DEFINE lo == (k - 1) * Piece + 1
             hi == last(k)
  <2>4. lo \in Nat \ {0} /\ hi \in Nat /\ hi <= num
    BY <2>2, <2>3
  <2> HIDE DEF lo, hi, num
  <2>5. \A i \in lo .. hi : m_FrameCacheQueue[i] \in FrameInfo
    BY <1>1, <2>4 DEF num
  <2>6. SubSeq(m_FrameCacheQueue, lo, hi) \in Seq(FrameInfo)
    BY <1>1, <2>4, <2>5, SubSeqProperties
  <2> QED BY <2>6 DEF lo, hi
<1> HIDE DEF cnt, piece
<1> QED BY <1>2, <1>3, <1>4

LEMMA AddPlayerMail ==
  ASSUME GameTypeOK, bcq \in Seq(BCMsg), NEW pid \in Pids, add_player(pid)
  PROVE  bcq' \in Seq(BCMsg)
<1> DEFINE pieces == CachePieces
           cache == [k \in 1 .. Len(pieces) |->
                       SendTo({pid}, FrameCacheData(pieces[k]))]
           first == SendTo({pid}, LoginSuc(Len(m_FrameCacheQueue)))
<1>1. bcq' = Append(bcq, first) \o cache
  BY DEF add_player
<1>2. first \in BCMsg
  <2>1. Len(m_FrameCacheQueue) \in Nat
    BY DEF GameTypeOK
  <2>2. <<>> \in Seq(FrameInfo)
    OBVIOUS
  <2>3. [frame_number |-> 0, ctrl_data |-> <<>>] \in FrameInfo
    BY DEF FrameInfo
  <2> QED BY <2>1, <2>2, <2>3, PackageTypes
<1>3. Len(pieces) \in Nat
  BY PieceType
<1>4. ASSUME NEW k \in 1 .. Len(pieces)
      PROVE  SendTo({pid}, FrameCacheData(pieces[k])) \in BCMsg
  <2>1. pieces[k] \in Seq(FrameInfo)
    BY PieceType
  <2>2. [frame_number |-> 0, ctrl_data |-> <<>>] \in FrameInfo
    BY DEF FrameInfo
  <2> HIDE DEF pieces
  <2> QED BY <2>1, <2>2, PackageTypes
<1>5. cache \in Seq(BCMsg)
  <2> DEFINE n == Len(pieces)
             e(k) == SendTo({pid}, FrameCacheData(pieces[k]))
  <2>1. n \in Nat /\ \A k \in 1 .. n : e(k) \in BCMsg
    BY <1>3, <1>4
  <2> HIDE DEF n, e
  <2>2. [k \in 1 .. n |-> e(k)] \in Seq(BCMsg)
    BY <2>1
  <2> QED BY <2>2 DEF n, e
<1> HIDE DEF cache, first
<1> QED BY <1>1, <1>2, <1>5

LEMMA FrameMail ==
  ASSUME GameTypeOK, bcq \in Seq(BCMsg), frame_skip
  PROVE  bcq' \in Seq(BCMsg)
<1> DEFINE f == [frame_number |-> m_CurFrameNo, ctrl_data |-> m_CtrlDataQueue]
           m == SendTo(m_Players, FrameData(f))
<1>1. bcq' = Append(bcq, m)
  BY DEF frame_skip
<1>2. m \in BCMsg
  <2>1. f \in FrameInfo /\ m_Players \in SUBSET Pids
    BY DEF GameTypeOK, FrameInfo
  <2>2. <<>> \in Seq(FrameInfo) /\ 0 \in Nat
    OBVIOUS
  <2> HIDE DEF f
  <2> QED BY <2>1, <2>2, PackageTypes
<1> HIDE DEF m
<1> QED BY <1>1, <1>2

-----------------------------------------------------------------------------
(* The client's handlers.                                                   *)
LEMMA QueueType ==
  ASSUME NEW c \in Client, NEW queue \in Seq(FrameInfo)
  PROVE  [c EXCEPT !.m_FrameQueue = queue] \in Client
BY DEF Client

LEMMA CacheDataType ==
  ASSUME NEW c \in Client, NEW frames \in Seq(FrameInfo)
  PROVE  gs2c_frame_cache_data(c, frames) \in Client
<1> DEFINE queue == c.m_FrameQueue \o frames
<1>1. /\ c.m_FrameQueue \in Seq(FrameInfo)
      /\ c.executed \in Seq(FrameInfo)
      /\ Len(c.executed) \in Nat
      /\ c.m_FsmInitData \in Nat \cup {nil}
      /\ c.seededAt \in Nat \cup {nil}
      /\ c = [m_FsmInitData |-> c.m_FsmInitData, m_FrameQueue |-> c.m_FrameQueue,
              executed |-> c.executed, seededAt |-> c.seededAt]
  BY DEF Client
<1>2. queue \in Seq(FrameInfo)
  BY <1>1
<1> HIDE DEF queue
<1>3. [c EXCEPT !.m_FrameQueue = queue] \in Client
  BY <1>2, QueueType
<1>4. [c EXCEPT !.m_FrameQueue = queue, !.m_FsmInitData = nil,
                !.seededAt = Len(c.executed)] \in Client
  BY <1>1, <1>2 DEF Client
<1> QED BY <1>3, <1>4 DEF gs2c_frame_cache_data, queue

LEMMA DispatchType ==
  ASSUME NEW c \in Client, NEW data \in Package
  PROVE  _dispatch_request(c, data) \in Client
<1>1. CASE data.proto = "gs2c_loginsuc"
  <2>1. data.frame_cache_num \in Nat
    BY <1>1 DEF Package
  <2> DEFINE d == [c EXCEPT !.m_FsmInitData = data.frame_cache_num]
  <2>2. d \in Client
    BY <2>1 DEF Client
  <2>3. <<>> \in Seq(FrameInfo)
    OBVIOUS
  <2>4. init_fsm(c, data.frame_cache_num) = gs2c_frame_cache_data(d, <<>>)
    BY DEF init_fsm
  <2> HIDE DEF d
  <2>5. gs2c_frame_cache_data(d, <<>>) \in Client
    BY <2>2, <2>3, CacheDataType
  <2> QED BY <1>1, <2>4, <2>5 DEF _dispatch_request
<1>2. CASE data.proto = "gs2c_frame_cache_data"
  <2>1. data.frame_cache \in Seq(FrameInfo)
    BY <1>2 DEF Package
  <2> QED BY <1>2, <2>1, CacheDataType DEF _dispatch_request
<1>3. CASE data.proto = "gs2c_frame_data"
  <2>1. data.frame_data \in FrameInfo
    BY <1>3 DEF Package
  <2>2. c.m_FrameQueue \in Seq(FrameInfo)
    BY DEF Client
  <2> DEFINE queue == Append(c.m_FrameQueue, data.frame_data)
  <2>3. queue \in Seq(FrameInfo)
    BY <2>1, <2>2
  <2>4. recv_frame(c, data.frame_data) = [c EXCEPT !.m_FrameQueue = queue]
    BY DEF recv_frame
  <2> HIDE DEF queue
  <2>5. [c EXCEPT !.m_FrameQueue = queue] \in Client
    BY <2>3, QueueType
  <2> QED BY <1>3, <2>4, <2>5 DEF _dispatch_request
<1> QED BY <1>1, <1>2, <1>3 DEF Package

LEMMA NewClientType == NewClient \in Client
BY DEF NewClient, Client

-----------------------------------------------------------------------------
(* The inductive invariant.                                                 *)
LEMMA InitInv == Init => IInv
<1> SUFFICES ASSUME Init PROVE IInv
  OBVIOUS
<1>1. GameInv
  BY GameStart DEF Init
<1>2. GameTypeOK
  BY <1>1 DEF GameInv
<1>3. 1 \in Fds
  BY FrameSyncAssumption DEF Fds
<1>4. PICK pid \in Pids :
        /\ m_Pid = [fd \in Fds |-> IF fd = 1 THEN pid ELSE nil]
        /\ playerlist = [p \in Pids |-> IF p = pid THEN 1 ELSE nil]
        /\ bcq = <<Register(pid, 1)>>
        /\ mgrq = <<EnterPlayer(pid, 1)>>
  BY DEF Init
<1>5. bcq \in Seq(BCMsg)
  <2>1. Register(pid, 1) \in BCMsg
    BY <1>3, RouteTypes
  <2> QED BY <1>4, <2>1
<1>6. mgrq \in Seq(MgrMsg)
  <2>1. EnterPlayer(pid, 1) \in MgrMsg
    BY <1>3 DEF EnterPlayer, MgrMsg
  <2> QED BY <1>4, <2>1
<1>7. m_Pid \in [Fds -> Pids \cup {nil}] /\ playerlist \in [Pids -> Fds \cup {nil}]
  BY <1>3, <1>4
<1>8. /\ nfd \in Fds /\ conlist \subseteq 1 .. nfd
      /\ logins \subseteq (1 .. nfd) \X Pids
      /\ m_SceneAgent \subseteq Pids
  BY <1>3 DEF Init
<1>9. /\ agentq \in [Agents -> Seq(AgentMsg)]
      /\ sceneq \in Seq(SceneMsg)
      /\ inputs \in [Pids -> Seq(Controls)]
      /\ fd_map \in [Pids -> Fds \cup {nil}]
  BY DEF Init
<1>10. client \in [Fds -> Client]
  BY NewClientType DEF Init
<1> QED BY <1>1, <1>2, <1>5, <1>6, <1>7, <1>8, <1>9, <1>10 DEF IInv, TypeOK

(* A step of GAMEGATE keeps it.                                             *)
LEMMA GateStep ==
  ASSUME IInv, Gate
  PROVE  IInv'
<1>1. TypeOK /\ GameInv
  BY DEF IInv
<1>2. UNCHANGED gameVars
  BY DEF Gate, NewConnection, loginsuc, DelConnection, touch_key
<1>3. GameInv' /\ GameTypeOK'
  BY <1>1, <1>2, GameUnchanged DEF GameInv
<1>4. ASSUME NEW pid \in Pids, NewConnection(pid) PROVE TypeOK'
  <2>1. /\ nfd \in Nat /\ nfd + 1 \in Fds /\ nfd' = nfd + 1
        /\ conlist' = conlist \cup {nfd + 1}
        /\ logins' = logins \cup {<<nfd + 1, pid>>}
    BY <1>1, <1>4, FrameSyncAssumption DEF NewConnection, UpackData, TypeOK, Fds
  <2>2. conlist \subseteq 1 .. nfd /\ logins \subseteq (1 .. nfd) \X Pids
    BY <1>1 DEF TypeOK
  <2>3. 1 .. nfd \subseteq 1 .. nfd + 1 /\ nfd + 1 \in 1 .. nfd + 1
    BY <2>1
  <2>4. nfd' \in Fds /\ conlist' \subseteq 1 .. nfd'
        /\ logins' \subseteq (1 .. nfd') \X Pids
    BY <2>1, <2>2, <2>3
  <2> QED BY <1>1, <1>3, <1>4, <2>4 DEF NewConnection, TypeOK, agentVars
<1>5. ASSUME NEW fd \in Fds, NEW pid \in Pids, loginsuc(fd, pid) PROVE TypeOK'
  <2>1. m_Pid' \in [Fds -> Pids \cup {nil}] /\ logins' \subseteq (1 .. nfd) \X Pids
    BY <1>1, <1>5 DEF loginsuc, TypeOK
  <2>2. agentq' \in [Agents -> Seq(AgentMsg)]
    <3>1. Start(pid, fd) \in AgentMsg
      BY DEF AgentMsg, Start
    <3>2. agentq \in [Agents -> Seq(AgentMsg)]
      BY <1>1 DEF TypeOK
    <3>3. agentq' = SendAgent(agentq, pid, Start(pid, fd)) \/ agentq' = agentq
      BY <1>5 DEF loginsuc
    <3> QED BY <3>1, <3>2, <3>3, SendAgentType
  <2> QED BY <1>1, <1>3, <1>5, <2>1, <2>2 DEF loginsuc, TypeOK, agentVars
<1>6. ASSUME NEW fd \in Fds, DelConnection(fd) PROVE TypeOK'
  <2>1. m_Pid' \in [Fds -> Pids \cup {nil}] /\ conlist' \subseteq 1 .. nfd
    BY <1>1, <1>6 DEF DelConnection, TypeOK
  <2>2. agentq' \in [Agents -> Seq(AgentMsg)]
    <3>1. m_Pid[fd] # nil => m_Pid[fd] \in Pids
      BY <1>1 DEF TypeOK
    <3>2. m_Pid[fd] # nil => Msg("kick", m_Pid[fd]) \in AgentMsg
      BY <3>1 DEF AgentMsg, Msg
    <3>3. agentq \in [Agents -> Seq(AgentMsg)]
      BY <1>1 DEF TypeOK
    <3>4. agentq' = IF m_Pid[fd] # nil
                    THEN SendAgent(agentq, m_Pid[fd], Msg("kick", m_Pid[fd]))
                    ELSE agentq
      BY <1>6 DEF DelConnection
    <3>5. CASE m_Pid[fd] # nil
      BY <3>2, <3>3, <3>4, <3>5, SendAgentType
    <3> QED BY <3>3, <3>4, <3>5
  <2>3. client' \in [Fds -> Client]
    BY <1>1, <1>6, NewClientType DEF DelConnection, TypeOK
  <2> QED BY <1>1, <1>3, <1>6, <2>1, <2>2, <2>3 DEF DelConnection, TypeOK, agentVars
<1>7. ASSUME NEW fd \in Fds, NEW action \in Controls, touch_key(fd, action)
      PROVE  TypeOK'
  <2>1. m_Pid[fd] \in Pids
    BY <1>1, <1>7 DEF touch_key, TypeOK
  <2>2. agentq' \in [Agents -> Seq(AgentMsg)]
    <3>1. Unpack(m_Pid[fd], action) \in AgentMsg
      BY <2>1, <1>7 DEF AgentMsg, Unpack
    <3>2. agentq' = SendAgent(agentq, m_Pid[fd], Unpack(m_Pid[fd], action))
      BY <1>7 DEF touch_key, dispatch_msg
    <3>3. agentq \in [Agents -> Seq(AgentMsg)]
      BY <1>1 DEF TypeOK
    <3> QED BY <3>1, <3>2, <3>3, SendAgentType
  <2>3. inputs' \in [Pids -> Seq(Controls)]
    <3>1. inputs \in [Pids -> Seq(Controls)]
      BY <1>1 DEF TypeOK
    <3>2. inputs' = [inputs EXCEPT ![m_Pid[fd]] = Append(@, action)]
      BY <1>7 DEF touch_key
    <3>3. Append(inputs[m_Pid[fd]], action) \in Seq(Controls)
      BY <1>7, <2>1, <3>1
    <3> QED BY <3>1, <3>2, <3>3
  <2> QED BY <1>1, <1>3, <1>7, <2>2, <2>3 DEF touch_key, TypeOK, gateVars, agentVars
<1> QED BY <1>3, <1>4, <1>5, <1>6, <1>7 DEF Gate, IInv

(* A step of an agent service keeps it.                                     *)
LEMMA AgentStep ==
  ASSUME IInv, NEW a \in Agents, Agent(a)
  PROVE  IInv'
<1>1. TypeOK /\ GameInv
  BY DEF IInv
<1>2. UNCHANGED gameVars
  BY DEF Agent, start, enterwar, kick, Analysis
<1>3. GameInv' /\ GameTypeOK'
  BY <1>1, <1>2, GameUnchanged DEF GameInv
<1> DEFINE m == Head(agentq[a])
           q == [agentq EXCEPT ![a] = Tail(@)]
<1>4. CASE start(a)
  <2>1. m \in AgentMsg /\ m.cmd = "start" /\ q \in [Agents -> Seq(AgentMsg)]
    BY <1>1, <1>4, AgentReceives DEF start
  <2>2. m.pid \in Pids /\ m.fd \in Fds
    BY <2>1, AgentHead
  <2>3. /\ playerlist' = [playerlist EXCEPT ![m.pid] = m.fd]
        /\ m_SceneAgent' = m_SceneAgent \ {m.pid}
        /\ bcq' = Append(bcq, Register(m.pid, m.fd))
        /\ mgrq' = Append(mgrq, EnterPlayer(m.pid, m.fd))
        /\ agentq' = q
    BY <1>4 DEF start, login
  <2> HIDE DEF m, q
  <2>4. playerlist' \in [Pids -> Fds \cup {nil}] /\ m_SceneAgent' \subseteq Pids
    BY <1>1, <2>2, <2>3 DEF TypeOK
  <2>5. bcq' \in Seq(BCMsg)
    BY <1>1, <2>2, <2>3, RouteTypes DEF TypeOK
  <2>6. mgrq' \in Seq(MgrMsg)
    <3>1. EnterPlayer(m.pid, m.fd) \in MgrMsg
      BY <2>2 DEF EnterPlayer, MgrMsg
    <3> QED BY <1>1, <2>3, <3>1 DEF TypeOK
  <2>7. agentq' \in [Agents -> Seq(AgentMsg)]
    BY <2>1, <2>3
  <2> QED BY <1>1, <1>3, <1>4, <2>4, <2>5, <2>6, <2>7 DEF start, TypeOK, IInv, gateVars
<1>5. CASE enterwar(a)
  <2>1. m \in AgentMsg /\ q \in [Agents -> Seq(AgentMsg)]
    BY <1>1, <1>5, AgentReceives DEF enterwar
  <2>2. m.pid \in Pids
    BY <2>1, AgentHead
  <2>3. agentq' = q /\ m_SceneAgent' \subseteq Pids
    BY <1>1, <1>5, <2>2 DEF enterwar, TypeOK
  <2> HIDE DEF m, q
  <2> QED BY <1>1, <1>3, <1>5, <2>1, <2>3 DEF enterwar, TypeOK, IInv, gateVars
<1>6. CASE kick(a)
  <2>1. m \in AgentMsg /\ q \in [Agents -> Seq(AgentMsg)]
    BY <1>1, <1>6, AgentReceives DEF kick
  <2>2. m.pid \in Pids
    BY <2>1, AgentHead
  <2>3. agentq' = q
    BY <1>6 DEF kick
  <2> HIDE DEF m, q
  <2>4. sceneq' \in Seq(SceneMsg)
    <3>1. Msg("leave_player", m.pid) \in SceneMsg
      BY <2>2 DEF SceneMsg, Msg
    <3>2. sceneq' = sceneq \/ sceneq' = Append(sceneq, Msg("leave_player", m.pid))
      BY <1>6 DEF kick, leavewar, m
    <3>3. sceneq \in Seq(SceneMsg)
      BY <1>1 DEF TypeOK
    <3> QED BY <3>1, <3>2, <3>3
  <2>5. /\ bcq' \in Seq(BCMsg)
        /\ playerlist' \in [Pids -> Fds \cup {nil}]
        /\ m_SceneAgent' \subseteq Pids
    <3>1. Unregister(m.pid) \in BCMsg
      BY <2>2 DEF BCMsg, Unregister
    <3>2. CASE playerlist[m.pid] # nil
      <4>1. /\ playerlist' = [playerlist EXCEPT ![m.pid] = nil]
            /\ m_SceneAgent' = m_SceneAgent \ {m.pid}
            /\ bcq' = Append(bcq, Unregister(m.pid))
        BY <1>6, <3>2 DEF kick, quit, m
      <4>2. /\ playerlist \in [Pids -> Fds \cup {nil}]
            /\ m_SceneAgent \subseteq Pids
            /\ bcq \in Seq(BCMsg)
        BY <1>1 DEF TypeOK
      <4>3. bcq' \in Seq(BCMsg)
        BY <3>1, <4>1, <4>2
      <4>4. playerlist' \in [Pids -> Fds \cup {nil}] /\ m_SceneAgent' \subseteq Pids
        BY <4>1, <4>2
      <4> QED BY <4>3, <4>4
    <3>3. CASE playerlist[m.pid] = nil
      BY <1>1, <1>6, <3>3 DEF kick, TypeOK, agentVars, m
    <3> QED BY <3>2, <3>3
  <2> QED BY <1>1, <1>3, <1>6, <2>1, <2>3, <2>4, <2>5 DEF kick, TypeOK, IInv, gateVars
<1>7. CASE Analysis(a)
  <2>1. /\ m \in AgentMsg /\ q \in [Agents -> Seq(AgentMsg)]
        /\ m.cmd = "Unpack"
    BY <1>1, <1>7, AgentReceives DEF Analysis
  <2>2. m.pid \in Pids /\ m.action \in Controls
    BY <2>1, AgentHead
  <2>3. agentq' = q
    BY <1>7 DEF Analysis
  <2> DEFINE c == [cmd |-> "sync_ctrl", pid |-> m.pid, action |-> m.action]
  <2>4. sceneq' = sceneq \/ sceneq' = Append(sceneq, c)
    BY <1>7 DEF Analysis, Player_sync_ctrl
  <2> HIDE DEF m, q
  <2>5. c \in SceneMsg
    BY <2>2, SceneTypes
  <2> HIDE DEF c
  <2>6. sceneq' \in Seq(SceneMsg)
    <3>1. sceneq \in Seq(SceneMsg)
      BY <1>1 DEF TypeOK
    <3> QED BY <2>4, <2>5, <3>1
  <2> QED BY <1>1, <1>3, <1>7, <2>1, <2>3, <2>6
       DEF Analysis, TypeOK, IInv, gateVars, agentVars
<1> QED BY <1>4, <1>5, <1>6, <1>7 DEF Agent

(* A step of SCENE_MGR keeps it.                                            *)
LEMMA MgrStep ==
  ASSUME IInv, mgr_enter_player
  PROVE  IInv'
<1>1. TypeOK /\ GameInv
  BY DEF IInv
<1>2. GameInv' /\ GameTypeOK'
  BY <1>1, GameUnchanged DEF GameInv, mgr_enter_player
<1> DEFINE m == Head(mgrq)
<1>3. m \in MgrMsg /\ mgrq' \in Seq(MgrMsg)
  <2>1. mgrq \in Seq(MgrMsg) /\ mgrq # <<>> /\ mgrq' = Tail(mgrq)
    BY <1>1 DEF mgr_enter_player, Receives, TypeOK
  <2> QED BY <2>1, TailType
<1>4. m.pid \in Pids /\ m.fd \in Fds
  BY <1>3 DEF MgrMsg
<1> DEFINE a == get_user_agent(m.pid)
<1>5. /\ sceneq' = Append(sceneq, Msg("enter_player", m.pid))
      /\ \E mailbox \in Answer(agentq[a], Entering(m.pid, m.fd)) :
           agentq' = [agentq EXCEPT ![a] = mailbox]
  BY DEF mgr_enter_player
<1> HIDE DEF m, a
<1>6. sceneq' \in Seq(SceneMsg)
  <2>1. Msg("enter_player", m.pid) \in SceneMsg
    BY <1>4 DEF SceneMsg, Msg
  <2>2. sceneq \in Seq(SceneMsg)
    BY <1>1 DEF TypeOK
  <2> QED BY <1>5, <2>1, <2>2
<1>7. agentq' \in [Agents -> Seq(AgentMsg)]
  <2>1. Entering(m.pid, m.fd) \in AgentMsg
    BY <1>4 DEF AgentMsg, Entering
  <2>2. agentq \in [Agents -> Seq(AgentMsg)]
    BY <1>1 DEF TypeOK
  <2>3. PICK mailbox \in Answer(agentq[a], Entering(m.pid, m.fd)) :
          agentq' = [agentq EXCEPT ![a] = mailbox]
    BY <1>5
  <2>4. a \in Agents => mailbox \in Seq(AgentMsg)
    BY <2>1, <2>2, <2>3, AnswerType
  <2> QED BY <2>2, <2>3, <2>4
<1> QED BY <1>1, <1>2, <1>3, <1>6, <1>7
    DEF mgr_enter_player, TypeOK, IInv, gateVars, agentVars

(* A step of the game's SCENE service or of its timer keeps it.             *)
LEMMA SceneStep ==
  ASSUME IInv, SceneService \/ FrameSkip
  PROVE  IInv'
<1>1. TypeOK /\ GameInv /\ GameTypeOK /\ bcq \in Seq(BCMsg)
  BY DEF IInv, TypeOK
<1>2. ASSUME SceneService
      PROVE  /\ Head(sceneq) \in SceneMsg
             /\ sceneq' \in Seq(SceneMsg)
             /\ Head(sceneq).pid \in Pids
  <2>1. sceneq # <<>> /\ sceneq' = Tail(sceneq)
    BY <1>2 DEF SceneService, scene_enter_player, scene_leave_player,
                scene_sync_ctrl, Receives
  <2>2. sceneq \in Seq(SceneMsg)
    BY <1>1 DEF TypeOK
  <2>3. Head(sceneq) \in SceneMsg /\ Tail(sceneq) \in Seq(SceneMsg)
    BY <2>1, <2>2, TailType
  <2> QED BY <2>1, <2>3, SceneHead
<1>3. ASSUME GameInv', bcq' \in Seq(BCMsg), sceneq' \in Seq(SceneMsg),
             UNCHANGED outsideScene
      PROVE  IInv'
  BY <1>1, <1>3 DEF IInv, TypeOK, GameInv, outsideScene, gateVars, agentVars
<1>4. CASE scene_enter_player
  <2>1. SceneService /\ UNCHANGED outsideScene
    BY <1>4 DEF SceneService, scene_enter_player
  <2> DEFINE pid == Head(sceneq).pid
  <2>2. add_player(pid) /\ pid \in Pids
    BY <1>2, <1>4, <2>1 DEF scene_enter_player
  <2> HIDE DEF pid
  <2>3. GameInv'
    BY <1>1, <2>2, GameStep DEF GameNext
  <2>4. bcq' \in Seq(BCMsg)
    BY <1>1, <2>2, AddPlayerMail
  <2> QED BY <1>2, <1>3, <2>1, <2>3, <2>4
<1>5. CASE scene_leave_player
  <2>1. SceneService /\ UNCHANGED outsideScene
    BY <1>5 DEF SceneService, scene_leave_player
  <2> DEFINE pid == Head(sceneq).pid
  <2>2. del_player(pid) /\ pid \in Pids
    BY <1>2, <1>5, <2>1 DEF scene_leave_player
  <2> HIDE DEF pid
  <2>3. GameInv'
    BY <1>1, <2>2, GameStep DEF GameNext
  <2>4. bcq' \in Seq(BCMsg)
    BY <1>1, <2>2 DEF del_player
  <2> QED BY <1>2, <1>3, <2>1, <2>3, <2>4
<1>6. CASE scene_sync_ctrl
  <2>1. SceneService /\ UNCHANGED outsideScene
    BY <1>6 DEF SceneService, scene_sync_ctrl
  <2> DEFINE pid == Head(sceneq).pid
             action == Head(sceneq).action
  <2>2. sync_ctrl(pid, action) /\ pid \in Pids /\ Head(sceneq).cmd = "sync_ctrl"
    BY <1>2, <1>6, <2>1 DEF scene_sync_ctrl, Receives
  <2>3. action \in Controls
    BY <1>2, <2>1, <2>2, SceneHead
  <2> HIDE DEF pid, action
  <2>4. GameInv'
    BY <1>1, <2>2, <2>3, GameStep DEF GameNext
  <2>5. bcq' \in Seq(BCMsg)
    BY <1>1, <2>2 DEF sync_ctrl
  <2> QED BY <1>2, <1>3, <2>1, <2>4, <2>5
<1>7. CASE FrameSkip
  <2>1. frame_skip /\ UNCHANGED outsideScene /\ UNCHANGED sceneq
    BY <1>7 DEF FrameSkip
  <2>2. GameInv'
    BY <1>1, <2>1, GameStep DEF GameNext
  <2>3. bcq' \in Seq(BCMsg)
    BY <1>1, <2>1, FrameMail
  <2>4. sceneq' \in Seq(SceneMsg)
    BY <1>1, <2>1 DEF TypeOK
  <2> QED BY <1>3, <2>1, <2>2, <2>3, <2>4
<1> QED BY <1>4, <1>5, <1>6, <1>7 DEF SceneService

(* A step of the game's SCENE_BC service, with the clients that receive     *)
(* what it sends, keeps it.                                                 *)
LEMMA BroadcastStep ==
  ASSUME IInv, Broadcast
  PROVE  IInv'
<1>1. TypeOK /\ GameInv
  BY DEF IInv
<1>2. UNCHANGED outsideBC /\ bcq # <<>> /\ bcq' = Tail(bcq)
  BY DEF Broadcast, register_fd, unregister_fd, send_to_list, Receives
<1>3. GameInv' /\ GameTypeOK'
  BY <1>1, <1>2, GameUnchanged DEF GameInv, outsideBC
<1> DEFINE m == Head(bcq)
<1>4. m \in BCMsg /\ bcq' \in Seq(BCMsg)
  <2>1. bcq \in Seq(BCMsg)
    BY <1>1 DEF TypeOK
  <2> QED BY <1>2, <2>1, TailType
<1>5. ASSUME fd_map' \in [Pids -> Fds \cup {nil}], client' \in [Fds -> Client]
      PROVE  IInv'
  BY <1>1, <1>2, <1>3, <1>4, <1>5
     DEF IInv, TypeOK, outsideBC, gateVars, agentVars
<1>6. fd_map \in [Pids -> Fds \cup {nil}] /\ client \in [Fds -> Client]
  BY <1>1 DEF TypeOK
<1>7. CASE register_fd
  <2>1. /\ m.cmd = "register_fd" /\ client' = client
        /\ fd_map' = [fd_map EXCEPT ![m.uuid] = m.fd]
    BY <1>7 DEF register_fd, Receives
  <2> HIDE DEF m
  <2>2. m.uuid \in Pids /\ m.fd \in Fds
    BY <1>4, <2>1, BCHead
  <2> QED BY <1>5, <1>6, <2>1, <2>2
<1>8. CASE unregister_fd
  <2>1. client' = client /\ fd_map' = [fd_map EXCEPT ![m.uuid] = nil]
    BY <1>8 DEF unregister_fd
  <2> HIDE DEF m
  <2> QED BY <1>5, <1>6, <2>1
<1>9. CASE send_to_list
  <2>1. /\ m.cmd = "send" /\ fd_map' = fd_map
        /\ client' = [fd \in Fds |->
              IF fd \in conlist /\ \E uuid \in m.uuids : fd_map[uuid] = fd
              THEN _dispatch_request(client[fd], m.data)
              ELSE client[fd]]
    BY <1>9 DEF send_to_list, Receives
  <2> HIDE DEF m
  <2>2. m.data \in Package
    BY <1>4, <2>1, BCHead
  <2>3. \A fd \in Fds : _dispatch_request(client[fd], m.data) \in Client
    BY <1>6, <2>2, DispatchType
  <2>4. client' \in [Fds -> Client]
    BY <1>6, <2>1, <2>3
  <2> QED BY <1>5, <1>6, <2>1, <2>4
<1> QED BY <1>7, <1>8, <1>9 DEF Broadcast

(* A step of a client keeps it.                                             *)
LEMMA ClientStep ==
  ASSUME IInv, NEW fd \in Fds, update_logic(fd)
  PROVE  IInv'
<1>1. TypeOK /\ GameInv
  BY DEF IInv
<1>2. GameInv' /\ GameTypeOK'
  BY <1>1, GameUnchanged DEF GameInv, update_logic
<1> DEFINE c == client[fd]
           d == [c EXCEPT !.executed = Append(@, Head(c.m_FrameQueue)),
                          !.m_FrameQueue = Tail(@)]
<1>3. client \in [Fds -> Client]
  BY <1>1 DEF TypeOK
<1>4. client' = [client EXCEPT ![fd] = d]
  BY <1>3 DEF update_logic
<1>5. d \in Client
  <2>1. c \in Client /\ c.m_FrameQueue # <<>>
    BY <1>3 DEF update_logic
  <2> HIDE DEF c
  <2>2. c.m_FrameQueue \in Seq(FrameInfo) /\ c.executed \in Seq(FrameInfo)
    BY <2>1 DEF Client
  <2> DEFINE run  == Append(c.executed, Head(c.m_FrameQueue))
             rest == Tail(c.m_FrameQueue)
  <2>3. rest \in Seq(FrameInfo) /\ run \in Seq(FrameInfo)
    BY <2>1, <2>2, TailType
  <2>4. d = [c EXCEPT !.executed = run, !.m_FrameQueue = rest]
    BY <2>1 DEF Client
  <2> HIDE DEF d, run, rest
  <2> QED BY <2>1, <2>3, <2>4 DEF Client
<1> HIDE DEF d
<1>6. client' \in [Fds -> Client]
  BY <1>3, <1>4, <1>5
<1> QED BY <1>1, <1>2, <1>6 DEF update_logic, TypeOK, IInv, gateVars, agentVars

LEMMA StepInv == IInv /\ [Next]_vars => IInv'
<1> SUFFICES ASSUME IInv, [Next]_vars PROVE IInv'
  OBVIOUS
<1>1. CASE UNCHANGED vars
  <2>1. GameInv'
    BY <1>1, GameUnchanged DEF IInv, vars
  <2> QED BY <1>1, <2>1 DEF IInv, TypeOK, GameInv, vars, gateVars, agentVars
<1> QED BY <1>1, GateStep, AgentStep, MgrStep, SceneStep, BroadcastStep,
           ClientStep DEF Next

-----------------------------------------------------------------------------
THEOREM Invariance == Spec => []IInv
BY InitInv, StepInv, PTL DEF Spec

(* For any number of players, agents and connections: no service is sent a  *)
(* message it has no handler for, and the frames FrameMgr:frame_skip keeps  *)
(* are numbered by their place in the log.                                  *)
THEOREM Typing == Spec => []TypeOK
<1>1. IInv => TypeOK
  BY DEF IInv
<1> QED BY <1>1, Invariance, PTL

(* However logins, kicks, reconnections and ticks interleave, a client that *)
(* replays the frames it is sent, the cache and then the broadcasts, ends   *)
(* up with the player table of the FighterWar object: add_player and        *)
(* del_player push a control for every change of the table.                 *)
THEOREM ReplayIsComplete == Spec => []ReplayRebuildsPlayers
<1>1. IInv => ReplayRebuildsPlayers
  BY DEF IInv, GameInv
<1> QED BY <1>1, Invariance, PTL

(* However late a leave_player or a sync_ctrl reaches the scene, no frame   *)
(* ever holds a control for a player the replicas do not have then          *)
(* (the guards of FighterWar:del_player and FighterWar:sync_ctrl).          *)
THEOREM ReplayIsSound == Spec => []ControlsFindTheirPlayer
<1>1. IInv => ControlsFindTheirPlayer
  BY DEF IInv, GameInv
<1> QED BY <1>1, Invariance, PTL

-----------------------------------------------------------------------------
(* The broadcast service's fd_map follows the agents' player table.         *)

(* m sets or clears the route of pid, and what it sets it to.               *)
IsRoute(m, pid) == m.cmd \in {"register_fd", "unregister_fd"} /\ m.uuid = pid

Says(m) == IF m.cmd = "register_fd" THEN m.fd ELSE nil

Routes(pid) == {m \in BCMsg : IsRoute(m, pid)}
Saying(fd) == {m \in BCMsg : Says(m) = fd}

(* With mailbox q to be worked off, the route of pid ends up as fd.         *)
EndsAs(q, pid, route, fd) == Ends(q, Routes(pid), Saying(fd), route = fd)

RoutingInv ==
  \A pid \in Pids : EndsAs(bcq, pid, fd_map[pid], playerlist[pid])

-----------------------------------------------------------------------------
LEMMA RoutingStart == Init => RoutingInv
<1> SUFFICES ASSUME Init, NEW p \in Pids
             PROVE  EndsAs(bcq, p, fd_map[p], playerlist[p])
  BY DEF RoutingInv
<1>1. PICK pid \in Pids :
        /\ playerlist = [x \in Pids |-> IF x = pid THEN 1 ELSE nil]
        /\ bcq = <<Register(pid, 1)>>
  BY DEF Init
<1>2. fd_map[p] = nil
  BY DEF Init
<1>3. DOMAIN bcq = {1} /\ bcq[1] = Register(pid, 1)
  BY <1>1
<1>4. Register(pid, 1) \in Routes(pid) \cap Saying(1)
  <2>1. 1 \in Fds
    BY FrameSyncAssumption DEF Fds
  <2>2. Register(pid, 1) \in BCMsg
    BY <2>1, RouteTypes
  <2> QED BY <2>2 DEF Routes, Saying, Says, IsRoute, Register
<1>5. CASE p = pid
  BY <1>1, <1>3, <1>4, <1>5 DEF EndsAs, Ends
<1>6. CASE p # pid
  <2>1. bcq[1] \notin Routes(p)
    BY <1>3, <1>6 DEF Routes, IsRoute, Register
  <2> QED BY <1>1, <1>2, <1>3, <1>6, <2>1 DEF EndsAs, Ends
<1> QED BY <1>5, <1>6

LEMMA RoutingKept ==
  ASSUME TypeOK, RoutingInv, UNCHANGED <<fd_map, playerlist>>,
         NEW s \in Seq(BCMsg), bcq' = bcq \o s,
         \A k \in 1 .. Len(s) : s[k].cmd = "send"
  PROVE  RoutingInv'
<1> SUFFICES ASSUME NEW pid \in Pids
             PROVE  EndsAs(bcq', pid, fd_map'[pid], playerlist'[pid])
  BY DEF RoutingInv
<1>1. bcq \in Seq(BCMsg) /\ EndsAs(bcq, pid, fd_map[pid], playerlist[pid])
  BY DEF TypeOK, RoutingInv
<1>2. \A k \in DOMAIN s : s[k] \notin Routes(pid)
  BY DEF Routes, IsRoute
<1>3. EndsAs(bcq \o s, pid, fd_map[pid], playerlist[pid])
  BY <1>1, <1>2, EndsMore DEF EndsAs
<1> QED BY <1>3

(* login and quit: the player table and the route of x change together.     *)
LEMMA RoutingChanged ==
  ASSUME TypeOK, RoutingInv, fd_map' = fd_map, NEW x \in Pids, NEW m \in BCMsg,
         IsRoute(m, x), bcq' = Append(bcq, m),
         playerlist' = [playerlist EXCEPT ![x] = Says(m)]
  PROVE  RoutingInv'
<1> SUFFICES ASSUME NEW pid \in Pids
             PROVE  EndsAs(bcq', pid, fd_map[pid], playerlist'[pid])
  BY DEF RoutingInv
<1>1. /\ bcq \in Seq(BCMsg) /\ EndsAs(bcq, pid, fd_map[pid], playerlist[pid])
      /\ playerlist \in [Pids -> Fds \cup {nil}]
  BY DEF TypeOK, RoutingInv
<1>2. CASE pid = x
  <2>1. playerlist'[pid] = Says(m)
    BY <1>1, <1>2
  <2>2. m \in Routes(pid) \cap Saying(Says(m))
    BY <1>2 DEF Routes, Saying
  <2> QED BY <1>1, <2>1, <2>2, EndsOwn DEF EndsAs
<1>3. CASE pid # x
  <2>1. playerlist'[pid] = playerlist[pid]
    BY <1>1, <1>3
  <2>2. m \notin Routes(pid)
    BY <1>3 DEF Routes, IsRoute
  <2> QED BY <1>1, <2>1, <2>2, EndsOther DEF EndsAs
<1> QED BY <1>2, <1>3

LEMMA RoutingWorkedOff ==
  ASSUME TypeOK, RoutingInv, bcq # <<>>, bcq' = Tail(bcq),
         playerlist' = playerlist,
         \A pid \in Pids : fd_map'[pid] = IF IsRoute(Head(bcq), pid)
                                          THEN Says(Head(bcq))
                                          ELSE fd_map[pid]
  PROVE  RoutingInv'
<1> SUFFICES ASSUME NEW pid \in Pids
             PROVE  EndsAs(bcq', pid, fd_map'[pid], playerlist[pid])
  BY DEF RoutingInv
<1>1. bcq \in Seq(BCMsg) /\ EndsAs(bcq, pid, fd_map[pid], playerlist[pid])
  BY DEF TypeOK, RoutingInv
<1>2. Head(bcq) \in BCMsg
  BY <1>1, TailType
<1>3. Ends(bcq', Routes(pid), Saying(playerlist[pid]),
           IF Head(bcq) \in Routes(pid)
           THEN Head(bcq) \in Saying(playerlist[pid])
           ELSE fd_map[pid] = playerlist[pid])
  BY <1>1, EndsTail DEF EndsAs
<1> QED BY <1>2, <1>3 DEF EndsAs, Routes, Saying

LEMMA RoutingUntouched ==
  ASSUME TypeOK, RoutingInv, UNCHANGED <<fd_map, playerlist, bcq>>
  PROVE  RoutingInv'
BY DEF RoutingInv

LEMMA AddPlayerRoutes ==
  ASSUME IInv, RoutingInv, UNCHANGED <<fd_map, playerlist>>,
         NEW pid \in Pids, add_player(pid)
  PROVE  RoutingInv'
<1>1. TypeOK /\ GameTypeOK /\ bcq \in Seq(BCMsg)
  BY DEF IInv, TypeOK
<1> DEFINE pieces == CachePieces
           n == Len(pieces)
           e(k) == SendTo({pid}, FrameCacheData(pieces[k]))
           first == SendTo({pid}, LoginSuc(Len(m_FrameCacheQueue)))
           cache == [k \in 1 .. n |-> e(k)]
<1>2. bcq' = Append(bcq, first) \o cache
  BY DEF add_player
<1>3. n \in Nat
  BY <1>1, PieceType
<1>4. first.cmd = "send" /\ \A k \in 1 .. n : e(k).cmd = "send"
  BY DEF SendTo
<1>5. first \in BCMsg
  <2>1. [frame_number |-> 0, ctrl_data |-> <<>>] \in FrameInfo
    BY DEF FrameInfo
  <2>2. <<>> \in Seq(FrameInfo) /\ Len(m_FrameCacheQueue) \in Nat
    BY <1>1 DEF GameTypeOK
  <2> QED BY <2>1, <2>2, PackageTypes
<1>6. \A k \in 1 .. n : e(k) \in BCMsg
  <2>1. [frame_number |-> 0, ctrl_data |-> <<>>] \in FrameInfo
    BY DEF FrameInfo
  <2>2. \A k \in 1 .. n : pieces[k] \in Seq(FrameInfo)
    BY <1>1, PieceType
  <2> HIDE DEF pieces
  <2> QED BY <2>1, <2>2, PackageTypes
<1> HIDE DEF pieces, n, e, first
<1>7. cache \in Seq(BCMsg) /\ Len(cache) = n /\ \A k \in 1 .. n : cache[k] = e(k)
  BY <1>3, <1>6
<1> HIDE DEF cache
<1> DEFINE s == <<first>> \o cache
<1>8. s \in Seq(BCMsg) /\ bcq' = bcq \o s
  BY <1>1, <1>2, <1>5, <1>7
<1>9. \A k \in 1 .. Len(s) : s[k].cmd = "send"
  <2>1. /\ Len(s) = 1 + n /\ s[1] = first
        /\ \A k \in 2 .. Len(s) : s[k] = cache[k - 1] /\ k - 1 \in 1 .. n
    BY <1>3, <1>5, <1>7
  <2>2. \A k \in 1 .. Len(s) : k = 1 \/ k \in 2 .. Len(s)
    BY <1>3, <2>1
  <2> HIDE DEF s
  <2> QED BY <1>4, <1>7, <2>1, <2>2
<1> HIDE DEF s
<1> QED BY <1>1, <1>8, <1>9, RoutingKept

LEMMA FrameRoutes ==
  ASSUME IInv, RoutingInv, UNCHANGED <<fd_map, playerlist>>, frame_skip
  PROVE  RoutingInv'
<1>1. TypeOK /\ GameTypeOK /\ bcq \in Seq(BCMsg)
  BY DEF IInv, TypeOK
<1> DEFINE f == [frame_number |-> m_CurFrameNo, ctrl_data |-> m_CtrlDataQueue]
           m == SendTo(m_Players, FrameData(f))
<1>2. bcq' = Append(bcq, m) /\ m.cmd = "send"
  BY DEF frame_skip, SendTo
<1>3. m \in BCMsg
  <2>1. f \in FrameInfo /\ m_Players \in SUBSET Pids
    BY <1>1 DEF GameTypeOK, FrameInfo
  <2>2. <<>> \in Seq(FrameInfo) /\ 0 \in Nat
    OBVIOUS
  <2> HIDE DEF f
  <2> QED BY <2>1, <2>2, PackageTypes
<1> HIDE DEF m
<1>4. /\ <<m>> \in Seq(BCMsg) /\ bcq' = bcq \o <<m>>
      /\ \A k \in 1 .. Len(<<m>>) : <<m>>[k].cmd = "send"
  BY <1>1, <1>2, <1>3
<1> QED BY <1>1, <1>4, RoutingKept

LEMMA RoutingStep ==
  ASSUME IInv, RoutingInv, [Next]_vars
  PROVE  RoutingInv'
<1>1. TypeOK
  BY DEF IInv
<1>2. CASE Gate \/ mgr_enter_player \/ UNCHANGED vars
  <2>1. UNCHANGED <<fd_map, playerlist, bcq>>
    BY <1>2 DEF Gate, NewConnection, loginsuc, DelConnection, touch_key,
                mgr_enter_player, vars, agentVars
  <2> QED BY <1>1, <2>1, RoutingUntouched
<1>3. ASSUME NEW a \in Agents, start(a) PROVE RoutingInv'
  <2> DEFINE pid == Head(agentq[a]).pid
             fd == Head(agentq[a]).fd
  <2>1. /\ playerlist' = [playerlist EXCEPT ![pid] = fd]
        /\ bcq' = Append(bcq, Register(pid, fd)) /\ fd_map' = fd_map
    BY <1>3 DEF start, login
  <2>2. pid \in Pids /\ fd \in Fds
    BY <1>1, <1>3, AgentReceives, AgentHead DEF start
  <2> HIDE DEF pid, fd
  <2>3. Register(pid, fd) \in BCMsg
    BY <2>2, RouteTypes
  <2>4. IsRoute(Register(pid, fd), pid) /\ Says(Register(pid, fd)) = fd
    BY DEF IsRoute, Says, Register
  <2> QED BY <1>1, <2>1, <2>2, <2>3, <2>4, RoutingChanged
<1>4. ASSUME NEW a \in Agents, enterwar(a) \/ Analysis(a) PROVE RoutingInv'
  <2>1. UNCHANGED <<fd_map, playerlist, bcq>>
    BY <1>4 DEF enterwar, Analysis, agentVars
  <2> QED BY <1>1, <2>1, RoutingUntouched
<1>5. ASSUME NEW a \in Agents, kick(a) PROVE RoutingInv'
  <2> DEFINE pid == Head(agentq[a]).pid
  <2>1. pid \in Pids
    BY <1>1, <1>5, AgentReceives, AgentHead DEF kick
  <2>2. CASE playerlist[pid] # nil
    <3>1. /\ playerlist' = [playerlist EXCEPT ![pid] = nil]
          /\ bcq' = Append(bcq, Unregister(pid)) /\ fd_map' = fd_map
      BY <1>5, <2>2 DEF kick, quit
    <3> HIDE DEF pid
    <3>2. Unregister(pid) \in BCMsg
      BY <2>1 DEF BCMsg, Unregister
    <3>3. IsRoute(Unregister(pid), pid) /\ Says(Unregister(pid)) = nil
      BY DEF IsRoute, Says, Unregister
    <3> QED BY <1>1, <2>1, <3>1, <3>2, <3>3, RoutingChanged
  <2>3. CASE playerlist[pid] = nil
    <3>1. UNCHANGED <<fd_map, playerlist, bcq>>
      BY <1>5, <2>3 DEF kick, agentVars
    <3> QED BY <1>1, <3>1, RoutingUntouched
  <2> QED BY <2>2, <2>3
<1>6. CASE scene_enter_player
  <2>1. /\ add_player(Head(sceneq).pid) /\ UNCHANGED <<fd_map, playerlist>>
        /\ sceneq # <<>>
    BY <1>6 DEF scene_enter_player, outsideScene, agentVars, Receives
  <2>2. Head(sceneq).pid \in Pids
    BY <1>1, <2>1, TailType, SceneHead DEF TypeOK
  <2> QED BY <2>1, <2>2, AddPlayerRoutes
<1>7. CASE scene_leave_player \/ scene_sync_ctrl
  <2>1. UNCHANGED <<fd_map, playerlist, bcq>>
    BY <1>7 DEF scene_leave_player, scene_sync_ctrl, del_player, sync_ctrl,
                outsideScene, agentVars
  <2> QED BY <1>1, <2>1, RoutingUntouched
<1>8. CASE FrameSkip
  BY <1>8, FrameRoutes DEF FrameSkip, outsideScene, agentVars
<1>9. CASE Broadcast
  <2>1. bcq # <<>> /\ bcq' = Tail(bcq) /\ playerlist' = playerlist
    BY <1>9 DEF Broadcast, register_fd, unregister_fd, send_to_list, Receives,
                outsideBC, agentVars
  <2> DEFINE m == Head(bcq)
  <2>2. m \in BCMsg /\ fd_map \in [Pids -> Fds \cup {nil}]
    BY <1>1, <2>1, TailType DEF TypeOK
  <2>3. \/ m.cmd = "register_fd" /\ fd_map' = [fd_map EXCEPT ![m.uuid] = m.fd]
        \/ m.cmd = "unregister_fd" /\ fd_map' = [fd_map EXCEPT ![m.uuid] = nil]
        \/ m.cmd = "send" /\ fd_map' = fd_map
    BY <1>9 DEF Broadcast, register_fd, unregister_fd, send_to_list, Receives
  <2>4. m.cmd \in {"register_fd", "unregister_fd"} => m.uuid \in Pids
    BY <2>2, BCHead
  <2> HIDE DEF m
  <2>5. \A pid \in Pids : fd_map'[pid] = IF IsRoute(m, pid) THEN Says(m)
                                         ELSE fd_map[pid]
    BY <2>2, <2>3, <2>4 DEF IsRoute, Says
  <2> QED BY <1>1, <2>1, <2>5, RoutingWorkedOff DEF m
<1>10. ASSUME NEW fd \in Fds, update_logic(fd) PROVE RoutingInv'
  <2>1. UNCHANGED <<fd_map, playerlist, bcq>>
    BY <1>10 DEF update_logic, agentVars
  <2> QED BY <1>1, <2>1, RoutingUntouched
<1> QED BY <1>2, <1>3, <1>4, <1>5, <1>6, <1>7, <1>8, <1>9, <1>10
        DEF Next, Agent, SceneService

LEMMA RoutingInvImplies ==
  ASSUME TypeOK, RoutingInv
  PROVE  RoutingConverges
<1> SUFFICES ASSUME NEW pid \in Pids
             PROVE  IF LastRouting(pid) = {}
                    THEN fd_map[pid] = playerlist[pid]
                    ELSE \A i \in LastRouting(pid) : playerlist[pid] = Says(bcq[i])
  BY Zenon DEF RoutingConverges, Says
<1>1. /\ EndsAs(bcq, pid, fd_map[pid], playerlist[pid])
      /\ bcq \in Seq(BCMsg) /\ DOMAIN bcq = 1 .. Len(bcq) /\ Len(bcq) \in Nat
  BY DEF RoutingInv, TypeOK
<1>2. LastRouting(pid) = {i \in DOMAIN bcq :
                            /\ bcq[i] \in Routes(pid)
                            /\ \A j \in DOMAIN bcq : j > i => bcq[j] \notin Routes(pid)}
  <2>1. \A i \in DOMAIN bcq : bcq[i] \in BCMsg
    BY <1>1
  <2>2. \A i \in DOMAIN bcq : bcq[i] \in Routes(pid) <=> IsRoute(bcq[i], pid)
    BY <2>1 DEF Routes
  <2>3. \A i, j \in DOMAIN bcq : j \in i + 1 .. Len(bcq) <=> j > i
    BY <1>1
  <2>4. \A i \in DOMAIN bcq : i + 1 .. Len(bcq) \subseteq DOMAIN bcq
    BY <1>1
  <2> QED BY <1>1, <2>2, <2>3, <2>4 DEF LastRouting, IsRoute
<1>3. CASE \A i \in DOMAIN bcq : bcq[i] \notin Routes(pid)
  <2>1. LastRouting(pid) = {}
    BY <1>2, <1>3
  <2> QED BY <1>1, <1>3, <2>1 DEF EndsAs, Ends
<1>4. ASSUME NEW i \in DOMAIN bcq, bcq[i] \in Routes(pid) \cap Saying(playerlist[pid]),
             \A j \in DOMAIN bcq : j > i => bcq[j] \notin Routes(pid)
      PROVE  /\ LastRouting(pid) # {}
             /\ \A k \in LastRouting(pid) : playerlist[pid] = Says(bcq[k])
  <2>1. i \in LastRouting(pid)
    BY <1>2, <1>4
  <2>2. ASSUME NEW k \in LastRouting(pid) PROVE k = i
    <3>1. /\ k \in DOMAIN bcq /\ bcq[k] \in Routes(pid)
          /\ \A j \in DOMAIN bcq : j > k => bcq[j] \notin Routes(pid)
      BY <1>2
    <3>2. ~(k < i) /\ ~(i < k)
      BY <1>1, <1>4, <3>1
    <3> QED BY <1>1, <3>1, <3>2
  <2> QED BY <1>4, <2>1, <2>2 DEF Saying
<1> QED BY <1>1, <1>3, <1>4 DEF EndsAs, Ends

(* Whatever logins, kicks and reconnections interleave, the broadcast       *)
(* service's fd_map ends up as the agents' player table: Player:login and   *)
(* Player:quit send it each change of the table, in the order of the        *)
(* changes.                                                                 *)
THEOREM RoutesFollowPlayers == Spec => []RoutingConverges
<1>1. IInv /\ RoutingInv /\ [Next]_vars => RoutingInv'
  BY RoutingStep
<1>2. IInv /\ RoutingInv => RoutingConverges
  BY RoutingInvImplies DEF IInv
<1> QED BY <1>1, <1>2, RoutingStart, Invariance, PTL DEF Spec

-----------------------------------------------------------------------------
(* A player object that knows its scene is known to the scene.  The answer  *)
(* that tells it may still be in the agent's mailbox, so the invariant      *)
(* speaks of that as well; and for the answer to be of this player object   *)
(* and of no earlier one, each connection is started once.                  *)

(* The i-th message to agent a starts fd.                                   *)
Starts(a, i, fd) ==
  /\ i \in DOMAIN agentq[a]
  /\ agentq[a][i].cmd = "start" /\ agentq[a][i].fd = fd

(* SCENE_MGR has been asked for fd, or has answered.                        *)
IsCall(m, fd) == m.cmd = "entering" /\ m.fd = fd

Called(fd) ==
  \/ \E m \in Range(mgrq) : m.fd = fd
  \/ \E a \in Agents : \E m \in Range(agentq[a]) : IsCall(m, fd)

(* Nobody has used fd yet, or it is not logged in.                          *)
ToStart(fd) == fd > nfd \/ (fd \in conlist /\ m_Pid[fd] = nil)

StartedOnce(fd) ==
  /\ \A a \in Agents, i \in Nat : Starts(a, i, fd) =>
       /\ ~ToStart(fd) /\ ~Called(fd)
       /\ \A b \in Agents, j \in Nat : Starts(b, j, fd) => a = b /\ i = j
  /\ ToStart(fd) => ~Called(fd)

(* The messages that move pid into the scene or out of it.                  *)
Moves(pid) == {m \in SceneMsg : /\ m.cmd \in {"enter_player", "leave_player"}
                                /\ m.pid = pid}
Entrances(pid) == {Msg("enter_player", pid)}

EndsInScene(pid) == Ends(sceneq, Moves(pid), Entrances(pid), pid \in m_Players)

KnowsScene(pid) ==
  \/ pid \in m_SceneAgent
  \/ \E a \in Agents : Entering(pid, playerlist[pid]) \in Range(agentq[a])

SceneInv ==
  /\ \A fd \in Fds : StartedOnce(fd)
  /\ \A pid \in Pids : KnowsScene(pid) => EndsInScene(pid)

-----------------------------------------------------------------------------
(* What a step does to the mailboxes of the agents.                         *)
LEMMA AgentOfPid ==
  ASSUME NEW pid \in Pids
  PROVE  get_user_agent(pid) \in Agents
<1>1. pid \in Nat /\ AGENT_CNT \in Nat \ {0}
  BY SceneAssumption, FrameSyncAssumption
<1>2. pid % AGENT_CNT \in 0 .. AGENT_CNT - 1
  BY <1>1
<1> QED BY <1>1, <1>2 DEF get_user_agent, Agents

LEMMA Sent ==
  ASSUME TypeOK, NEW pid \in Pids, NEW m \in AgentMsg,
         agentq' = SendAgent(agentq, pid, m)
  PROVE  /\ \A a \in Agents : \A i \in DOMAIN agentq'[a] :
              \/ i \in DOMAIN agentq[a] /\ agentq'[a][i] = agentq[a][i]
              \/ i = Len(agentq[a]) + 1 /\ a = get_user_agent(pid) /\ agentq'[a][i] = m
         /\ \A a \in Agents : Range(agentq'[a]) \subseteq Range(agentq[a]) \cup {m}
         /\ \A a \in Agents : a # get_user_agent(pid) => agentq'[a] = agentq[a]
         /\ agentq'[get_user_agent(pid)] = Append(agentq[get_user_agent(pid)], m)
<1> DEFINE x == get_user_agent(pid)
<1>1. x \in Agents /\ agentq \in [Agents -> Seq(AgentMsg)]
  BY AgentOfPid DEF TypeOK
<1>2. agentq' = [agentq EXCEPT ![x] = Append(agentq[x], m)]
  BY DEF SendAgent
<1> HIDE DEF x
<1>3. agentq'[x] = Append(agentq[x], m) /\ agentq[x] \in Seq(AgentMsg)
  BY <1>1, <1>2
<1>4. \A a \in Agents : a # x => agentq'[a] = agentq[a]
  BY <1>1, <1>2
<1>5. /\ \A i \in DOMAIN agentq'[x] :
           \/ i \in DOMAIN agentq[x] /\ agentq'[x][i] = agentq[x][i]
           \/ i = Len(agentq[x]) + 1 /\ agentq'[x][i] = m
      /\ Range(agentq'[x]) = Range(agentq[x]) \cup {m}
  BY <1>3, AppendFacts
<1> QED BY <1>1, <1>3, <1>4, <1>5 DEF x

LEMMA Taken ==
  ASSUME TypeOK, NEW a \in Agents, agentq[a] # <<>>,
         agentq' = [agentq EXCEPT ![a] = Tail(@)]
  PROVE  /\ Head(agentq[a]) \in Range(agentq[a]) /\ Head(agentq[a]) \in AgentMsg
         /\ 1 \in DOMAIN agentq[a] /\ Head(agentq[a]) = agentq[a][1]
         /\ \A b \in Agents : b # a => agentq'[b] = agentq[b]
         /\ \A i \in DOMAIN agentq'[a] :
              i \in Nat /\ i + 1 \in DOMAIN agentq[a] /\ agentq'[a][i] = agentq[a][i + 1]
         /\ \A b \in Agents : Range(agentq'[b]) \subseteq Range(agentq[b])
<1>1. /\ agentq \in [Agents -> Seq(AgentMsg)] /\ agentq[a] \in Seq(AgentMsg)
      /\ agentq'[a] = Tail(agentq[a])
      /\ \A b \in Agents : b # a => agentq'[b] = agentq[b]
  BY DEF TypeOK
<1> QED BY <1>1, TailFacts

LEMMA Answered ==
  ASSUME TypeOK, NEW a \in Agents, NEW m \in AgentMsg,
         NEW mailbox \in Answer(agentq[a], m),
         agentq' = [agentq EXCEPT ![a] = mailbox]
  PROVE  /\ \A b \in Agents : b # a => agentq'[b] = agentq[b]
         /\ \A b \in Agents : Range(agentq'[b]) \subseteq Range(agentq[b]) \cup {m}
         /\ \E k \in 1 .. Len(agentq[a]) + 1 :
              agentq'[a] = InsertAt(agentq[a], k, m) /\ GotIn(agentq[a], m, agentq'[a], k)
<1>1. /\ agentq \in [Agents -> Seq(AgentMsg)] /\ agentq[a] \in Seq(AgentMsg)
      /\ agentq'[a] = mailbox
      /\ \A b \in Agents : b # a => agentq'[b] = agentq[b]
  BY DEF TypeOK
<1>2. PICK k \in 1 .. Len(agentq[a]) + 1 : mailbox = InsertAt(agentq[a], k, m)
  BY DEF Answer
<1>3. Range(mailbox) = Range(agentq[a]) \cup {m} /\ GotIn(agentq[a], m, mailbox, k)
  BY <1>1, <1>2, InsertFacts
<1> QED BY <1>1, <1>2, <1>3

-----------------------------------------------------------------------------
(* A step that starts nothing and calls nothing new keeps the starts apart: *)
(* f says where a start was before the step.                                *)
LEMMA StartedKept ==
  ASSUME NEW fd, StartedOnce(fd), ToStart(fd)' => ToStart(fd),
         Called(fd)' => Called(fd), NEW f,
         \A b \in Agents, i \in Nat :
           Starts(b, i, fd)' => f[b][i] \in Nat /\ Starts(b, f[b][i], fd),
         \A b \in Agents, i, j \in Nat :
           Starts(b, i, fd)' /\ Starts(b, j, fd)' /\ f[b][i] = f[b][j] => i = j
  PROVE  StartedOnce(fd)'
<1>1. ASSUME NEW a \in Agents, NEW i \in Nat, Starts(a, i, fd)'
      PROVE  /\ ~ToStart(fd)' /\ ~Called(fd)'
             /\ \A b \in Agents, j \in Nat : Starts(b, j, fd)' => a = b /\ i = j
  <2>1. f[a][i] \in Nat /\ Starts(a, f[a][i], fd)
    BY <1>1
  <2>2. ~ToStart(fd) /\ ~Called(fd)
    BY <2>1 DEF StartedOnce
  <2>3. ASSUME NEW b \in Agents, NEW j \in Nat, Starts(b, j, fd)'
        PROVE  a = b /\ i = j
    <3>1. f[b][j] \in Nat /\ Starts(b, f[b][j], fd)
      BY <2>3
    <3>2. a = b /\ f[a][i] = f[b][j]
      BY <2>1, <3>1 DEF StartedOnce
    <3> QED BY <1>1, <2>3, <3>2
  <2> QED BY <2>2, <2>3
<1>2. ToStart(fd)' => ~Called(fd)'
  BY DEF StartedOnce
<1> QED BY <1>1, <1>2 DEF StartedOnce

(* The places of the starts stay the same.                                  *)
LEMMA StartedSame ==
  ASSUME NEW fd, StartedOnce(fd), ToStart(fd)' => ToStart(fd),
         Called(fd)' => Called(fd),
         \A b \in Agents, i \in Nat : Starts(b, i, fd)' => Starts(b, i, fd)
  PROVE  StartedOnce(fd)'
BY DEF StartedOnce

(* GAMEGATE sends an agent something else than a start.                     *)
LEMMA StartedSent ==
  ASSUME TypeOK, NEW fd, StartedOnce(fd), ToStart(fd)' => ToStart(fd),
         mgrq' = mgrq, NEW pid \in Pids, NEW m \in AgentMsg,
         m.cmd \in {"kick", "Unpack"}, agentq' = SendAgent(agentq, pid, m)
  PROVE  StartedOnce(fd)'
<1>1. \A b \in Agents, i \in Nat : Starts(b, i, fd)' => Starts(b, i, fd)
  BY Sent DEF Starts
<1>2. Called(fd)' => Called(fd)
  BY Sent DEF Called, IsCall
<1> QED BY <1>1, <1>2, StartedSame

(* An agent takes a message and SCENE_MGR is sent nothing.                  *)
LEMMA StartedTaken ==
  ASSUME TypeOK, NEW fd, StartedOnce(fd), ToStart(fd)' => ToStart(fd),
         NEW a \in Agents, agentq[a] # <<>>,
         agentq' = [agentq EXCEPT ![a] = Tail(@)],
         Called(fd)' => Called(fd)
  PROVE  StartedOnce(fd)'
<1> DEFINE f == [b \in Agents |-> [i \in Nat |-> IF b = a THEN i + 1 ELSE i]]
<1>1. \A b \in Agents, i \in Nat : f[b][i] = IF b = a THEN i + 1 ELSE i
  OBVIOUS
<1> HIDE DEF f
<1>2. ASSUME NEW b \in Agents, NEW i \in Nat, Starts(b, i, fd)'
      PROVE  f[b][i] \in Nat /\ Starts(b, f[b][i], fd)
  <2>1. CASE b = a
    <3>1. f[b][i] = i + 1
      BY <1>1, <2>1
    <3>2. i \in DOMAIN agentq'[a] /\ agentq'[a][i].cmd = "start" /\ agentq'[a][i].fd = fd
      BY <1>2, <2>1 DEF Starts
    <3>3. i + 1 \in DOMAIN agentq[a] /\ agentq'[a][i] = agentq[a][i + 1]
      BY <3>2, Taken
    <3> QED BY <2>1, <3>1, <3>2, <3>3 DEF Starts
  <2>2. CASE b # a
    <3>1. f[b][i] = i /\ agentq'[b] = agentq[b]
      BY <1>1, <2>2, Taken
    <3> QED BY <1>2, <3>1 DEF Starts
  <2> QED BY <2>1, <2>2
<1>3. ASSUME NEW b \in Agents, NEW i \in Nat, NEW j \in Nat, f[b][i] = f[b][j]
      PROVE  i = j
  <2>1. \/ f[b][i] = i + 1 /\ f[b][j] = j + 1
        \/ f[b][i] = i /\ f[b][j] = j
    BY <1>1
  <2> QED BY <1>3, <2>1
<1> QED BY <1>2, <1>3, StartedKept

LEMMA StartedGate ==
  ASSUME TypeOK, NEW fd \in Fds, StartedOnce(fd), Gate
  PROVE  StartedOnce(fd)'
<1>1. /\ nfd \in Nat /\ fd \in Nat /\ conlist \subseteq 1 .. nfd
      /\ m_Pid \in [Fds -> Pids \cup {nil}]
  BY FrameSyncAssumption DEF TypeOK, Fds
<1>2. ASSUME NEW pid \in Pids, NewConnection(pid) PROVE StartedOnce(fd)'
  <2>1. /\ nfd' = nfd + 1 /\ conlist' = conlist \cup {nfd + 1}
        /\ m_Pid' = m_Pid /\ agentq' = agentq /\ mgrq' = mgrq
    BY <1>2 DEF NewConnection
  <2>2. ToStart(fd)' => ToStart(fd)
    BY <1>1, <2>1 DEF ToStart
  <2> QED BY <2>1, <2>2, StartedSame DEF Starts, Called
<1>3. ASSUME NEW x \in Fds, NEW pid \in Pids, loginsuc(x, pid) PROVE StartedOnce(fd)'
  <2>1. nfd' = nfd /\ conlist' = conlist /\ mgrq' = mgrq
    BY <1>3 DEF loginsuc
  <2>2. CASE ~(x \in conlist /\ m_Pid[x] = nil)
    <3>1. m_Pid' = m_Pid /\ agentq' = agentq
      BY <1>3, <2>2 DEF loginsuc
    <3> QED BY <2>1, <3>1, StartedSame DEF Starts, Called, ToStart
  <2>3. CASE x \in conlist /\ m_Pid[x] = nil
    <3> DEFINE m == Start(pid, x)
    <3>1. /\ m_Pid' = [m_Pid EXCEPT ![x] = pid]
          /\ agentq' = SendAgent(agentq, pid, m)
      BY <1>3, <2>3 DEF loginsuc
    <3>2. m \in AgentMsg /\ m.cmd = "start" /\ m.fd = x
      BY DEF AgentMsg, Start
    <3> HIDE DEF m
    <3>3. ToStart(fd)' => ToStart(fd) /\ fd # x
      <4>1. pid # nil
        BY SceneAssumption, FrameSyncAssumption
      <4>2. m_Pid'[x] = pid /\ ~(x > nfd)
        BY <1>1, <2>3, <3>1
      <4>3. fd # x => m_Pid'[fd] = m_Pid[fd]
        BY <1>1, <3>1
      <4> QED BY <2>1, <4>1, <4>2, <4>3 DEF ToStart
    <3>4. \A b \in Agents : \A i \in DOMAIN agentq'[b] :
            \/ i \in DOMAIN agentq[b] /\ agentq'[b][i] = agentq[b][i]
            \/ /\ i = Len(agentq[b]) + 1 /\ b = get_user_agent(pid)
               /\ agentq'[b][i] = m
      BY <3>1, <3>2, Sent
    <3>5. Called(fd)' => Called(fd)
      <4>1. \A a \in Agents : Range(agentq'[a]) \subseteq Range(agentq[a]) \cup {m}
        BY <3>1, <3>2, Sent
      <4> QED BY <2>1, <3>2, <4>1 DEF Called, IsCall
    <3>6. CASE fd # x
      <4>1. \A b \in Agents, i \in Nat : Starts(b, i, fd)' => Starts(b, i, fd)
        BY <3>2, <3>4, <3>6 DEF Starts
      <4> QED BY <3>3, <3>5, <4>1, StartedSame
    <3>7. CASE fd = x
      <4>1. ToStart(fd)
        BY <2>3, <3>7 DEF ToStart
      <4>2. ~Called(fd) /\ \A b \in Agents, i \in Nat : ~Starts(b, i, fd)
        BY <4>1 DEF StartedOnce
      <4>3. \A b \in Agents, i \in Nat :
              Starts(b, i, fd)' => b = get_user_agent(pid) /\ i = Len(agentq[b]) + 1
        BY <3>4, <4>2 DEF Starts
      <4> QED BY <3>3, <3>5, <3>7, <4>2, <4>3 DEF StartedOnce
    <3> QED BY <3>6, <3>7
  <2> QED BY <2>2, <2>3
<1>4. ASSUME NEW x \in Fds, DelConnection(x) PROVE StartedOnce(fd)'
  <2>1. /\ nfd' = nfd /\ conlist' = conlist \ {x} /\ mgrq' = mgrq
        /\ m_Pid' = [m_Pid EXCEPT ![x] = nil]
        /\ agentq' = IF m_Pid[x] # nil
                     THEN SendAgent(agentq, m_Pid[x], Msg("kick", m_Pid[x]))
                     ELSE agentq
    BY <1>4 DEF DelConnection
  <2>2. ToStart(fd)' => ToStart(fd)
    BY <1>1, <2>1 DEF ToStart
  <2>3. CASE m_Pid[x] = nil
    BY <2>1, <2>2, <2>3, StartedSame DEF Starts, Called
  <2>4. CASE m_Pid[x] # nil
    <3>1. m_Pid[x] \in Pids
      BY <1>1, <2>4
    <3>2. Msg("kick", m_Pid[x]) \in AgentMsg /\ Msg("kick", m_Pid[x]).cmd = "kick"
      BY <3>1 DEF AgentMsg, Msg
    <3> QED BY <2>1, <2>2, <2>4, <3>1, <3>2, StartedSent
  <2> QED BY <2>3, <2>4
<1>5. ASSUME NEW x \in Fds, NEW action \in Controls, touch_key(x, action)
      PROVE  StartedOnce(fd)'
  <2> DEFINE m == Unpack(m_Pid[x], action)
  <2>1. /\ UNCHANGED <<nfd, conlist, m_Pid, mgrq>> /\ m_Pid[x] \in Pids
        /\ agentq' = SendAgent(agentq, m_Pid[x], m)
    BY <1>1, <1>5 DEF touch_key, dispatch_msg, gateVars
  <2>2. m \in AgentMsg /\ m.cmd = "Unpack"
    BY <2>1 DEF AgentMsg, Unpack
  <2> HIDE DEF m
  <2>3. ToStart(fd)' => ToStart(fd)
    BY <2>1 DEF ToStart
  <2> QED BY <2>1, <2>2, <2>3, StartedSent
<1> QED BY <1>2, <1>3, <1>4, <1>5 DEF Gate

LEMMA StartedAgent ==
  ASSUME TypeOK, NEW fd \in Fds, StartedOnce(fd), NEW a \in Agents, Agent(a)
  PROVE  StartedOnce(fd)'
<1> DEFINE m == Head(agentq[a])
<1>1. /\ agentq[a] # <<>> /\ agentq' = [agentq EXCEPT ![a] = Tail(@)]
      /\ UNCHANGED <<nfd, conlist, m_Pid>>
  BY DEF Agent, start, enterwar, kick, Analysis, Receives, gateVars
<1>2. ToStart(fd)' => ToStart(fd)
  BY <1>1 DEF ToStart
<1>3. \A b \in Agents : Range(agentq'[b]) \subseteq Range(agentq[b])
  BY <1>1, Taken
<1>4. CASE enterwar(a) \/ kick(a) \/ Analysis(a)
  <2>1. mgrq' = mgrq
    BY <1>4 DEF enterwar, kick, Analysis
  <2>2. Called(fd)' => Called(fd)
    BY <1>3, <2>1 DEF Called
  <2> QED BY <1>1, <1>2, <2>2, StartedTaken
<1>5. CASE start(a)
  <2>1. /\ m.cmd = "start" /\ mgrq' = Append(mgrq, EnterPlayer(m.pid, m.fd))
    BY <1>5 DEF start, Receives
  <2>2. m \in AgentMsg /\ 1 \in DOMAIN agentq[a] /\ m = agentq[a][1]
    BY <1>1, Taken
  <2>3. Starts(a, 1, m.fd)
    BY <2>1, <2>2 DEF Starts
  <2> HIDE DEF m
  <2>4. m.pid \in Pids /\ m.fd \in Fds
    BY <2>1, <2>2, AgentHead
  <2> DEFINE e == EnterPlayer(m.pid, m.fd)
  <2>5. e \in MgrMsg /\ e.fd = m.fd
    BY <2>4 DEF EnterPlayer, MgrMsg
  <2> HIDE DEF e
  <2>6. Range(mgrq') = Range(mgrq) \cup {e}
    BY <2>1, <2>5, AppendFacts DEF TypeOK, e
  <2>7. CASE fd # m.fd
    <3>1. Called(fd)' => Called(fd)
      BY <1>3, <2>5, <2>6, <2>7 DEF Called
    <3> QED BY <1>1, <1>2, <3>1, StartedTaken
  <2>8. CASE fd = m.fd
    <3>1. ~ToStart(fd)
      BY <2>3, <2>8 DEF StartedOnce
    <3>2. ASSUME NEW b \in Agents, NEW i \in Nat PROVE ~Starts(b, i, fd)'
      <4>1. SUFFICES ASSUME Starts(b, i, fd)' PROVE FALSE
        OBVIOUS
      <4>2. CASE b = a
        <5>1. /\ i \in DOMAIN agentq'[a] /\ agentq'[a][i].cmd = "start"
              /\ agentq'[a][i].fd = fd
          BY <4>1, <4>2 DEF Starts
        <5>2. i + 1 \in DOMAIN agentq[a] /\ agentq'[a][i] = agentq[a][i + 1]
          BY <1>1, <5>1, Taken
        <5>3. Starts(a, i + 1, fd) /\ i + 1 \in Nat
          BY <5>1, <5>2 DEF Starts
        <5>4. i + 1 = 1
          BY <2>3, <2>8, <5>3 DEF StartedOnce
        <5>5. i \in DOMAIN agentq'[a] /\ agentq'[a] = Tail(agentq[a])
          BY <1>1, <5>1 DEF TypeOK
        <5>6. i >= 1
          BY <1>1, <5>5, TailPlaces DEF TypeOK
        <5> QED BY <5>4, <5>6
      <4>3. CASE b # a
        <5>1. agentq'[b] = agentq[b]
          BY <1>1, <4>3, Taken
        <5>2. Starts(b, i, fd)
          BY <4>1, <5>1 DEF Starts
        <5> QED BY <2>3, <2>8, <4>3, <5>2 DEF StartedOnce
      <4> QED BY <4>2, <4>3
    <3> QED BY <1>2, <3>1, <3>2 DEF StartedOnce
  <2> QED BY <2>7, <2>8
<1> QED BY <1>4, <1>5 DEF Agent

LEMMA StartedMgr ==
  ASSUME TypeOK, NEW fd \in Fds, StartedOnce(fd), mgr_enter_player
  PROVE  StartedOnce(fd)'
<1> DEFINE h == Head(mgrq)
           a == get_user_agent(h.pid)
           m == Entering(h.pid, h.fd)
<1>1. /\ mgrq # <<>> /\ mgrq \in Seq(MgrMsg) /\ mgrq' = Tail(mgrq)
      /\ UNCHANGED <<nfd, conlist, m_Pid>>
  BY DEF mgr_enter_player, Receives, gateVars, TypeOK
<1>2. /\ h \in MgrMsg /\ h \in Range(mgrq) /\ Range(mgrq') \subseteq Range(mgrq)
  BY <1>1, TailFacts
<1>3. PICK mailbox \in Answer(agentq[a], m) : agentq' = [agentq EXCEPT ![a] = mailbox]
  BY DEF mgr_enter_player
<1> HIDE DEF h
<1>4. h.pid \in Pids /\ h.fd \in Fds /\ a \in Agents
  BY <1>2, AgentOfPid DEF MgrMsg
<1>5. m \in AgentMsg /\ m.cmd = "entering" /\ m.fd = h.fd
  BY <1>4 DEF Entering, AgentMsg
<1> HIDE DEF a, m
<1>6. /\ \A b \in Agents : b # a => agentq'[b] = agentq[b]
      /\ \A b \in Agents : Range(agentq'[b]) \subseteq Range(agentq[b]) \cup {m}
      /\ \E k \in 1 .. Len(agentq[a]) + 1 : GotIn(agentq[a], m, agentq'[a], k)
  BY <1>3, <1>4, <1>5, Answered
<1>7. PICK k \in 1 .. Len(agentq[a]) + 1 : GotIn(agentq[a], m, agentq'[a], k)
  BY <1>6
<1>8. k \in Nat
  OBVIOUS
<1>9. Called(fd)' => Called(fd)
  BY <1>2, <1>5, <1>6 DEF Called, IsCall
<1>10. ToStart(fd)' => ToStart(fd)
  BY <1>1 DEF ToStart
<1> DEFINE f == [b \in Agents |-> [i \in Nat |-> IF b = a /\ i > k THEN i - 1 ELSE i]]
<1>11. \A b \in Agents, i \in Nat : f[b][i] = IF b = a /\ i > k THEN i - 1 ELSE i
  OBVIOUS
<1> HIDE DEF f
<1>12. ASSUME NEW b \in Agents, NEW i \in Nat, Starts(b, i, fd)'
       PROVE  /\ f[b][i] \in Nat /\ Starts(b, f[b][i], fd)
              /\ b = a => i # k
  <2>1. CASE b = a
    <3>1. i \in DOMAIN agentq'[a] /\ agentq'[a][i].cmd = "start" /\ agentq'[a][i].fd = fd
      BY <1>12, <2>1 DEF Starts
    <3>2. i # k
      BY <1>5, <1>7, <3>1 DEF GotIn
    <3>3. CASE i < k
      <4>1. i \in DOMAIN agentq[a] /\ agentq'[a][i] = agentq[a][i] /\ f[b][i] = i
        BY <1>7, <1>8, <1>11, <2>1, <3>1, <3>3 DEF GotIn
      <4> QED BY <2>1, <3>1, <3>2, <4>1 DEF Starts
    <3>4. CASE i > k
      <4>1. /\ i - 1 \in DOMAIN agentq[a] /\ agentq'[a][i] = agentq[a][i - 1]
            /\ f[b][i] = i - 1 /\ i - 1 \in Nat
        BY <1>7, <1>8, <1>11, <2>1, <3>1, <3>4 DEF GotIn
      <4> QED BY <2>1, <3>1, <3>2, <4>1 DEF Starts
    <3> QED BY <1>8, <3>2, <3>3, <3>4
  <2>2. CASE b # a
    <3>1. f[b][i] = i /\ agentq'[b] = agentq[b]
      BY <1>6, <1>11, <2>2
    <3> QED BY <1>12, <2>2, <3>1 DEF Starts
  <2> QED BY <2>1, <2>2
<1>13. ASSUME NEW b \in Agents, NEW i \in Nat, NEW j \in Nat,
              Starts(b, i, fd)', Starts(b, j, fd)', f[b][i] = f[b][j]
       PROVE  i = j
  <2>1. b = a => i # k /\ j # k
    BY <1>12, <1>13
  <2>2. CASE b # a
    BY <1>11, <1>13, <2>2
  <2>3. CASE b = a
    <3>1. f[b][i] = IF i > k THEN i - 1 ELSE i
      BY <1>11, <2>3
    <3>2. f[b][j] = IF j > k THEN j - 1 ELSE j
      BY <1>11, <2>3
    <3> QED BY <1>8, <1>13, <2>1, <2>3, <3>1, <3>2
  <2> QED BY <2>2, <2>3
<1> QED BY <1>9, <1>10, <1>12, <1>13, StartedKept

LEMMA StartedStep ==
  ASSUME TypeOK, NEW fd \in Fds, StartedOnce(fd), [Next]_vars
  PROVE  StartedOnce(fd)'
<1>1. ASSUME UNCHANGED <<agentq, mgrq, nfd, conlist, m_Pid>> PROVE StartedOnce(fd)'
  BY <1>1, StartedSame DEF Starts, Called, ToStart
<1>2. CASE SceneService \/ FrameSkip \/ Broadcast \/ UNCHANGED vars
  BY <1>1, <1>2 DEF SceneService, scene_enter_player, scene_leave_player,
     scene_sync_ctrl, FrameSkip, outsideScene, Broadcast, register_fd,
     unregister_fd, send_to_list, outsideBC, vars, gateVars
<1>3. ASSUME NEW x \in Fds, update_logic(x) PROVE StartedOnce(fd)'
  BY <1>1, <1>3 DEF update_logic, gateVars
<1> QED BY <1>2, <1>3, StartedGate, StartedAgent, StartedMgr DEF Next

-----------------------------------------------------------------------------
(* The last message that moves pid, or else the player table, has it in the *)
(* scene: what a step does to that.                                         *)
LEMMA EndsAppended ==
  ASSUME TypeOK, NEW pid \in Pids, EndsInScene(pid), NEW m \in SceneMsg,
         m \notin Moves(pid), sceneq' = Append(sceneq, m), m_Players' = m_Players
  PROVE  EndsInScene(pid)'
<1>1. sceneq \in Seq(SceneMsg)
  BY DEF TypeOK
<1>2. Ends(Append(sceneq, m), Moves(pid), Entrances(pid), pid \in m_Players)
  BY <1>1, EndsOther DEF EndsInScene
<1> QED BY <1>2 DEF EndsInScene

LEMMA EndsEntered ==
  ASSUME TypeOK, NEW pid \in Pids, sceneq' = Append(sceneq, Msg("enter_player", pid))
  PROVE  EndsInScene(pid)'
<1> DEFINE m == Msg("enter_player", pid)
<1>1. sceneq \in Seq(SceneMsg) /\ m \in SceneMsg
  BY DEF TypeOK, SceneMsg, Msg
<1>2. m \in Moves(pid) \cap Entrances(pid)
  BY <1>1 DEF Moves, Entrances, Msg
<1> HIDE DEF m
<1>3. Ends(Append(sceneq, m), Moves(pid), Entrances(pid), pid \in m_Players')
  BY <1>1, <1>2, EndsOwn
<1> QED BY <1>3 DEF EndsInScene, m

LEMMA EndsTaken ==
  ASSUME TypeOK, NEW pid \in Pids, EndsInScene(pid), sceneq # <<>>,
         sceneq' = Tail(sceneq),
         pid \in m_Players' <=>
           IF Head(sceneq) \in Moves(pid) THEN Head(sceneq) \in Entrances(pid)
                                          ELSE pid \in m_Players
  PROVE  EndsInScene(pid)'
<1>1. sceneq \in Seq(SceneMsg)
  BY DEF TypeOK
<1>2. Ends(sceneq', Moves(pid), Entrances(pid),
           IF Head(sceneq) \in Moves(pid) THEN Head(sceneq) \in Entrances(pid)
                                          ELSE pid \in m_Players)
  BY <1>1, EndsTail DEF EndsInScene
<1> QED BY <1>2 DEF EndsInScene, Ends

LEMMA EndsSceneService ==
  ASSUME TypeOK, NEW pid \in Pids, EndsInScene(pid), SceneService
  PROVE  EndsInScene(pid)'
<1> DEFINE m == Head(sceneq)
<1>1. sceneq # <<>> /\ sceneq \in Seq(SceneMsg) /\ sceneq' = Tail(sceneq)
  BY DEF SceneService, scene_enter_player, scene_leave_player, scene_sync_ctrl,
         Receives, TypeOK
<1>2. m \in SceneMsg
  BY <1>1, TailType
<1>3. CASE scene_enter_player
  <2>1. m.cmd = "enter_player" /\ m_Players' = m_Players \cup {m.pid}
    BY <1>3 DEF scene_enter_player, add_player, Receives
  <2> HIDE DEF m
  <2>2. m \in Moves(pid) <=> pid = m.pid
    BY <1>2, <2>1 DEF Moves
  <2>3. pid = m.pid => m \in Entrances(pid)
    BY <1>2, <2>1 DEF Entrances, Msg, SceneMsg
  <2>4. pid \in m_Players' <=> IF m \in Moves(pid) THEN m \in Entrances(pid)
                                                   ELSE pid \in m_Players
    BY <2>1, <2>2, <2>3
  <2> QED BY <1>1, <2>4, EndsTaken DEF m
<1>4. CASE scene_leave_player
  <2>1. /\ m.cmd = "leave_player"
        /\ m_Players' = m_Players \ {m.pid}
    BY <1>4 DEF scene_leave_player, del_player, Receives
  <2> HIDE DEF m
  <2>2. m \in Moves(pid) <=> pid = m.pid
    BY <1>2, <2>1 DEF Moves
  <2>3. m \notin Entrances(pid)
    BY <2>1 DEF Entrances, Msg
  <2>4. pid \in m_Players' <=> IF m \in Moves(pid) THEN m \in Entrances(pid)
                                                   ELSE pid \in m_Players
    BY <2>1, <2>2, <2>3
  <2> QED BY <1>1, <2>4, EndsTaken DEF m
<1>5. CASE scene_sync_ctrl
  <2>1. m.cmd = "sync_ctrl" /\ m_Players' = m_Players
    BY <1>5 DEF scene_sync_ctrl, sync_ctrl, Receives
  <2> HIDE DEF m
  <2>2. m \notin Moves(pid)
    BY <2>1 DEF Moves
  <2>4. pid \in m_Players' <=> IF m \in Moves(pid) THEN m \in Entrances(pid)
                                                   ELSE pid \in m_Players
    BY <2>1, <2>2
  <2> QED BY <1>1, <2>4, EndsTaken DEF m
<1> QED BY <1>3, <1>4, <1>5 DEF SceneService

-----------------------------------------------------------------------------
(* GAMEGATE tells no player object of its scene.                            *)
LEMMA KnowsGate ==
  ASSUME TypeOK, NEW pid \in Pids, Gate
  PROVE  /\ KnowsScene(pid)' => KnowsScene(pid)
         /\ sceneq' = sceneq /\ m_Players' = m_Players
<1>1. UNCHANGED <<playerlist, m_SceneAgent, sceneq, m_Players>>
  BY DEF Gate, NewConnection, loginsuc, DelConnection, touch_key, agentVars,
         gameVars
<1>2. \/ agentq' = agentq
      \/ \E x \in Pids, m \in AgentMsg :
           m.cmd # "entering" /\ agentq' = SendAgent(agentq, x, m)
  <2>1. m_Pid \in [Fds -> Pids \cup {nil}]
    BY DEF TypeOK
  <2>2. ASSUME NEW x \in Pids PROVE Msg("kick", x) \in AgentMsg /\ Msg("kick", x).cmd = "kick"
    BY DEF AgentMsg, Msg
  <2>3. ASSUME NEW x \in Pids, NEW fd \in Fds
        PROVE  Start(x, fd) \in AgentMsg /\ Start(x, fd).cmd = "start"
    BY DEF AgentMsg, Start
  <2>4. ASSUME NEW x \in Pids, NEW action \in Controls
        PROVE  Unpack(x, action) \in AgentMsg /\ Unpack(x, action).cmd = "Unpack"
    BY DEF AgentMsg, Unpack
  <2>5. CASE \E x \in Pids : NewConnection(x)
    BY <2>5 DEF NewConnection
  <2>6. ASSUME NEW fd \in Fds, NEW x \in Pids, loginsuc(fd, x)
        PROVE  agentq' = agentq \/ agentq' = SendAgent(agentq, x, Start(x, fd))
    BY <2>6 DEF loginsuc
  <2>7. ASSUME NEW fd \in Fds, DelConnection(fd)
        PROVE  \/ agentq' = agentq
               \/ /\ m_Pid[fd] \in Pids
                  /\ agentq' = SendAgent(agentq, m_Pid[fd], Msg("kick", m_Pid[fd]))
    BY <2>1, <2>7 DEF DelConnection
  <2>8. ASSUME NEW fd \in Fds, NEW action \in Controls, touch_key(fd, action)
        PROVE  /\ m_Pid[fd] \in Pids
               /\ agentq' = SendAgent(agentq, m_Pid[fd], Unpack(m_Pid[fd], action))
    BY <2>1, <2>8 DEF touch_key, dispatch_msg
  <2> QED BY <2>2, <2>3, <2>4, <2>5, <2>6, <2>7, <2>8 DEF Gate
<1>3. ASSUME NEW x \in Pids, NEW m \in AgentMsg, m.cmd # "entering",
             agentq' = SendAgent(agentq, x, m)
      PROVE  KnowsScene(pid)' => KnowsScene(pid)
  <2>1. \A a \in Agents : Range(agentq'[a]) \subseteq Range(agentq[a]) \cup {m}
    BY <1>3, Sent
  <2>2. m # Entering(pid, playerlist[pid])
    BY <1>3 DEF Entering
  <2> QED BY <1>1, <2>1, <2>2 DEF KnowsScene
<1> QED BY <1>1, <1>2, <1>3 DEF KnowsScene

LEMMA KnowsAgent ==
  ASSUME TypeOK, \A fd \in Fds : StartedOnce(fd), NEW pid \in Pids,
         KnowsScene(pid) => EndsInScene(pid), NEW a \in Agents, Agent(a)
  PROVE  KnowsScene(pid)' => EndsInScene(pid)'
<1> DEFINE m == Head(agentq[a])
<1>1. /\ agentq[a] # <<>> /\ agentq' = [agentq EXCEPT ![a] = Tail(@)]
      /\ m_Players' = m_Players
  BY DEF Agent, start, enterwar, kick, Analysis, Receives, gameVars
<1>2. \A b \in Agents : Range(agentq'[b]) \subseteq Range(agentq[b])
  BY <1>1, Taken
<1>3. m \in AgentMsg /\ m \in Range(agentq[a]) /\ m.pid \in Pids
  BY <1>1, Taken, AgentHead
<1>4. ASSUME KnowsScene(pid)' => KnowsScene(pid), sceneq' = sceneq
      PROVE  KnowsScene(pid)' => EndsInScene(pid)'
  BY <1>1, <1>4 DEF EndsInScene
<1>5. ASSUME KnowsScene(pid)' => KnowsScene(pid), NEW c \in SceneMsg,
             c \notin Moves(pid), sceneq' = Append(sceneq, c)
      PROVE  KnowsScene(pid)' => EndsInScene(pid)'
  BY <1>1, <1>5, EndsAppended
<1>6. playerlist \in [Pids -> Fds \cup {nil}]
  BY DEF TypeOK
<1>7. CASE start(a)
  <2>1. /\ m.cmd = "start" /\ playerlist' = [playerlist EXCEPT ![m.pid] = m.fd]
        /\ m_SceneAgent' = m_SceneAgent \ {m.pid} /\ sceneq' = sceneq
    BY <1>7 DEF start, login, Receives
  <2>2. 1 \in DOMAIN agentq[a] /\ m = agentq[a][1]
    BY <1>1, Taken
  <2>3. Starts(a, 1, m.fd)
    BY <2>1, <2>2 DEF Starts
  <2> HIDE DEF m
  <2>4. m.fd \in Fds
    BY <1>3, <2>1, AgentHead
  <2>5. CASE pid = m.pid
    <3>1. ~Called(m.fd)
      BY <2>3, <2>4 DEF StartedOnce
    <3>2. playerlist'[pid] = m.fd /\ pid \notin m_SceneAgent'
      BY <1>6, <2>1, <2>5
    <3>3. ASSUME NEW b \in Agents PROVE Entering(pid, m.fd) \notin Range(agentq[b])
      BY <3>1 DEF Called, IsCall, Entering
    <3>4. ~KnowsScene(pid)'
      BY <1>2, <3>2, <3>3 DEF KnowsScene
    <3> QED BY <3>4
  <2>6. CASE pid # m.pid
    <3>1. playerlist'[pid] = playerlist[pid]
      BY <1>3, <1>6, <2>1, <2>6
    <3>2. KnowsScene(pid)' => KnowsScene(pid)
      BY <1>2, <2>1, <3>1 DEF KnowsScene
    <3> QED BY <1>4, <2>1, <3>2
  <2> QED BY <2>5, <2>6
<1>8. CASE enterwar(a)
  <2>1. /\ m.cmd = "entering" /\ playerlist' = playerlist /\ sceneq' = sceneq
        /\ m_SceneAgent' = IF playerlist[m.pid] = m.fd
                           THEN m_SceneAgent \cup {m.pid} ELSE m_SceneAgent
    BY <1>8 DEF enterwar, Receives
  <2> HIDE DEF m
  <2>2. m = Entering(m.pid, m.fd)
    BY <1>3, <2>1 DEF AgentMsg, Entering
  <2>3. KnowsScene(pid)' => KnowsScene(pid)
    BY <1>2, <1>3, <2>1, <2>2 DEF KnowsScene
  <2> QED BY <1>4, <2>1, <2>3
<1>9. CASE kick(a) /\ playerlist[m.pid] # nil
  <2>1. /\ playerlist' = [playerlist EXCEPT ![m.pid] = nil]
        /\ m_SceneAgent' = m_SceneAgent \ {m.pid}
        /\ sceneq' = sceneq \/ sceneq' = Append(sceneq, Msg("leave_player", m.pid))
    BY <1>9 DEF kick, quit, leavewar
  <2> HIDE DEF m
  <2>2. CASE pid = m.pid
    <3>1. playerlist'[pid] = nil /\ pid \notin m_SceneAgent'
      BY <1>6, <2>1, <2>2
    <3>2. ASSUME NEW b \in Agents PROVE Entering(pid, nil) \notin Range(agentq[b])
      <4>1. Range(agentq[b]) \subseteq AgentMsg
        BY DEF Range, TypeOK
      <4>2. nil \notin Fds
        BY FrameSyncAssumption DEF Fds
      <4> QED BY <4>1, <4>2 DEF Entering, AgentMsg
    <3>3. ~KnowsScene(pid)'
      BY <1>2, <3>1, <3>2 DEF KnowsScene
    <3> QED BY <3>3
  <2>3. CASE pid # m.pid
    <3>1. playerlist'[pid] = playerlist[pid]
      BY <1>3, <1>6, <2>1, <2>3
    <3>2. KnowsScene(pid)' => KnowsScene(pid)
      BY <1>2, <2>1, <3>1 DEF KnowsScene
    <3>3. /\ Msg("leave_player", m.pid) \in SceneMsg
          /\ Msg("leave_player", m.pid) \notin Moves(pid)
      BY <1>3, <2>3 DEF Moves, Msg, SceneMsg
    <3> QED BY <1>4, <1>5, <2>1, <3>2, <3>3
  <2> QED BY <2>2, <2>3
<1>10. CASE kick(a) /\ playerlist[m.pid] = nil
  <2>1. UNCHANGED <<playerlist, m_SceneAgent, sceneq>>
    BY <1>10 DEF kick, agentVars
  <2>2. KnowsScene(pid)' => KnowsScene(pid)
    BY <1>2, <2>1 DEF KnowsScene
  <2> QED BY <1>4, <2>1, <2>2
<1>11. CASE Analysis(a)
  <2> DEFINE c == [cmd |-> "sync_ctrl", pid |-> m.pid, action |-> m.action]
  <2>1. /\ m.cmd = "Unpack" /\ UNCHANGED <<playerlist, m_SceneAgent>>
        /\ sceneq' = sceneq \/ sceneq' = Append(sceneq, c)
    BY <1>11 DEF Analysis, Player_sync_ctrl, agentVars, Receives
  <2>2. KnowsScene(pid)' => KnowsScene(pid)
    BY <1>2, <2>1 DEF KnowsScene
  <2> HIDE DEF m
  <2>3. c \in SceneMsg /\ c \notin Moves(pid)
    BY <1>3, <2>1, AgentHead DEF SceneMsg, Moves
  <2> HIDE DEF c
  <2> QED BY <1>4, <1>5, <2>1, <2>2, <2>3
<1> QED BY <1>7, <1>8, <1>9, <1>10, <1>11 DEF Agent

LEMMA KnowsMgr ==
  ASSUME TypeOK, NEW pid \in Pids, KnowsScene(pid) => EndsInScene(pid),
         mgr_enter_player
  PROVE  KnowsScene(pid)' => EndsInScene(pid)'
<1> DEFINE h == Head(mgrq)
           a == get_user_agent(h.pid)
           m == Entering(h.pid, h.fd)
<1>1. /\ mgrq # <<>> /\ mgrq \in Seq(MgrMsg)
      /\ sceneq' = Append(sceneq, Msg("enter_player", h.pid))
      /\ UNCHANGED <<playerlist, m_SceneAgent, m_Players>>
  BY DEF mgr_enter_player, Receives, agentVars, gameVars, TypeOK
<1>2. h \in MgrMsg
  BY <1>1, TailFacts
<1>3. PICK mailbox \in Answer(agentq[a], m) : agentq' = [agentq EXCEPT ![a] = mailbox]
  BY DEF mgr_enter_player
<1> HIDE DEF h
<1>4. h.pid \in Pids /\ h.fd \in Fds /\ a \in Agents
  BY <1>2, AgentOfPid DEF MgrMsg
<1>5. m \in AgentMsg /\ m.pid = h.pid
  BY <1>4 DEF Entering, AgentMsg
<1> HIDE DEF a, m
<1>6. \A b \in Agents : Range(agentq'[b]) \subseteq Range(agentq[b]) \cup {m}
  BY <1>3, <1>4, <1>5, Answered
<1>7. CASE pid = h.pid
  BY <1>1, <1>7, EndsEntered
<1>8. CASE pid # h.pid
  <2>1. m # Entering(pid, playerlist[pid])
    BY <1>5, <1>8 DEF Entering
  <2>2. KnowsScene(pid)' => KnowsScene(pid)
    BY <1>1, <1>6, <2>1 DEF KnowsScene
  <2>3. /\ Msg("enter_player", h.pid) \in SceneMsg
        /\ Msg("enter_player", h.pid) \notin Moves(pid)
    BY <1>4, <1>8 DEF Moves, Msg, SceneMsg
  <2> QED BY <1>1, <2>2, <2>3, EndsAppended
<1> QED BY <1>7, <1>8

LEMMA KnowsStep ==
  ASSUME TypeOK, SceneInv, NEW pid \in Pids, [Next]_vars
  PROVE  KnowsScene(pid)' => EndsInScene(pid)'
<1>1. KnowsScene(pid) => EndsInScene(pid)
  BY DEF SceneInv
<1>2. ASSUME UNCHANGED <<playerlist, m_SceneAgent, agentq, sceneq, m_Players>>
      PROVE  KnowsScene(pid)' => EndsInScene(pid)'
  BY <1>1, <1>2 DEF KnowsScene, EndsInScene
<1>3. CASE Gate
  BY <1>1, <1>3, KnowsGate DEF EndsInScene
<1>4. CASE SceneService
  <2>1. UNCHANGED <<playerlist, m_SceneAgent, agentq>>
    BY <1>4 DEF SceneService, scene_enter_player, scene_leave_player,
                scene_sync_ctrl, outsideScene, agentVars
  <2>2. KnowsScene(pid)' => KnowsScene(pid)
    BY <2>1 DEF KnowsScene
  <2> QED BY <1>1, <1>4, <2>2, EndsSceneService
<1>5. CASE FrameSkip \/ Broadcast \/ UNCHANGED vars
  BY <1>2, <1>5 DEF FrameSkip, frame_skip, outsideScene, Broadcast, register_fd,
     unregister_fd, send_to_list, outsideBC, vars, agentVars, gameVars
<1>6. ASSUME NEW x \in Fds, update_logic(x)
      PROVE  KnowsScene(pid)' => EndsInScene(pid)'
  BY <1>2, <1>6 DEF update_logic, agentVars, gameVars
<1> QED BY <1>1, <1>3, <1>4, <1>5, <1>6, KnowsAgent, KnowsMgr DEF Next, SceneInv

LEMMA SceneInvStart == Init => SceneInv
<1> SUFFICES ASSUME Init PROVE SceneInv
  OBVIOUS
<1>1. agentq = [a \in Agents |-> <<>>] /\ m_SceneAgent = {}
  BY DEF Init
<1>2. PICK p \in Pids :
        /\ m_Pid = [fd \in Fds |-> IF fd = 1 THEN p ELSE nil]
        /\ mgrq = <<EnterPlayer(p, 1)>> /\ conlist = {1} /\ nfd = 1
  BY DEF Init
<1>3. ASSUME NEW a \in Agents PROVE Range(agentq[a]) = {} /\ DOMAIN agentq[a] = {}
  BY <1>1 DEF Range
<1>4. ASSUME NEW fd \in Fds PROVE StartedOnce(fd)
  <2>1. \A m \in Range(mgrq) : m.fd = 1
    BY <1>2 DEF Range, EnterPlayer
  <2>2. ToStart(fd) => fd # 1
    <3>1. p # nil
      BY SceneAssumption, FrameSyncAssumption
    <3>2. fd = 1 => m_Pid[fd] = p
      BY <1>2
    <3> QED BY <1>2, <3>1, <3>2 DEF ToStart
  <2> QED BY <1>3, <2>1, <2>2 DEF StartedOnce, Starts, Called
<1>5. ASSUME NEW pid \in Pids PROVE ~KnowsScene(pid)
  BY <1>1, <1>3 DEF KnowsScene
<1> QED BY <1>4, <1>5 DEF SceneInv

LEMMA SceneInvImplies ==
  ASSUME TypeOK, SceneInv
  PROVE  SceneKnowsPlayer
<1> DEFINE cmds == {"enter_player", "leave_player"}
<1> SUFFICES ASSUME NEW pid \in m_SceneAgent
             PROVE  IF LastOf(sceneq, cmds, pid) = {} THEN pid \in m_Players
                    ELSE \A i \in LastOf(sceneq, cmds, pid) :
                           sceneq[i].cmd = "enter_player"
  BY Zenon DEF SceneKnowsPlayer
<1>1. pid \in Pids /\ EndsInScene(pid)
  BY DEF SceneInv, KnowsScene, TypeOK
<1>2. /\ sceneq \in Seq(SceneMsg) /\ DOMAIN sceneq = 1 .. Len(sceneq)
      /\ Len(sceneq) \in Nat
  BY DEF TypeOK
<1>3. LastOf(sceneq, cmds, pid) =
        {i \in DOMAIN sceneq :
           /\ sceneq[i] \in Moves(pid)
           /\ \A j \in DOMAIN sceneq : j > i => sceneq[j] \notin Moves(pid)}
  <2>1. \A i \in DOMAIN sceneq :
          sceneq[i] \in Moves(pid) <=> sceneq[i].cmd \in cmds /\ sceneq[i].pid = pid
    BY <1>2 DEF Moves
  <2>2. \A i, j \in DOMAIN sceneq : j \in i + 1 .. Len(sceneq) <=> j > i
    BY <1>2
  <2>3. \A i \in DOMAIN sceneq : i + 1 .. Len(sceneq) \subseteq DOMAIN sceneq
    BY <1>2
  <2> HIDE DEF cmds
  <2> QED BY <1>2, <2>1, <2>2, <2>3 DEF LastOf
<1> HIDE DEF cmds
<1>4. CASE pid \in m_Players /\ \A i \in DOMAIN sceneq : sceneq[i] \notin Moves(pid)
  BY <1>3, <1>4
<1>5. ASSUME NEW i \in DOMAIN sceneq, sceneq[i] \in Moves(pid) \cap Entrances(pid),
             \A j \in DOMAIN sceneq : j > i => sceneq[j] \notin Moves(pid)
      PROVE  /\ i \in LastOf(sceneq, cmds, pid)
             /\ \A k \in LastOf(sceneq, cmds, pid) : sceneq[k].cmd = "enter_player"
  <2>1. i \in LastOf(sceneq, cmds, pid)
    BY <1>3, <1>5
  <2>2. ASSUME NEW k \in LastOf(sceneq, cmds, pid) PROVE k = i
    <3>1. /\ k \in DOMAIN sceneq /\ sceneq[k] \in Moves(pid)
          /\ \A j \in DOMAIN sceneq : j > k => sceneq[j] \notin Moves(pid)
      BY <1>3
    <3>2. ~(k < i) /\ ~(i < k)
      BY <1>2, <1>5, <3>1
    <3> QED BY <1>2, <3>1, <3>2
  <2>3. sceneq[i].cmd = "enter_player"
    BY <1>5 DEF Entrances, Msg
  <2> QED BY <2>1, <2>2, <2>3
<1> QED BY <1>1, <1>4, <1>5 DEF EndsInScene, Ends

(* A player object that knows its scene is known to the scene, or will be   *)
(* once the messages under way are worked off, whatever connections come,   *)
(* overlap, come back early or break: Player:enterwar sets m_SceneAgent of  *)
(* the player object that asked, after SCENE_MGR has sent the scene its     *)
(* enter_player, and Player:leavewar sends no leave_player before that.     *)
THEOREM PlayersAreKnown == Spec => []SceneKnowsPlayer
<1>1. IInv /\ SceneInv /\ [Next]_vars => SceneInv'
  BY StartedStep, KnowsStep DEF SceneInv, IInv
<1>2. IInv /\ SceneInv => SceneKnowsPlayer
  BY SceneInvImplies DEF IInv
<1> QED BY <1>1, <1>2, SceneInvStart, Invariance, PTL DEF Spec
=============================================================================
