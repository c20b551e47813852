--------------------------- MODULE GameLifeProofs ----------------------------
(***************************************************************************)
(* The life of a game, for any number of players, logins, services and     *)
(* calls: a game that takes players has its timer, one that is off the     *)
(* list gets nobody any more, and none gets more players than it has room  *)
(* for.  A game has the players whose agents send their controls to it,    *)
(* and when clients behave a player is in one game.  There are no more     *)
(* games than logins.                                                      *)
(*                                                                         *)
(* A game goes through stages, and the invariant says what may be about it *)
(* in the mailboxes at each: a new_game on its way to its service, before  *)
(* which there is nothing else; the answer of that on its way back, which  *)
(* nothing has overtaken; its place on the list; and its end.              *)
(***************************************************************************)
EXTENDS GameLife, MailboxProofs, SequenceTheorems, FiniteSetTheorems

-----------------------------------------------------------------------------
(* Types.  Ids are numbers here; how many there are is a matter of the      *)
(* logins, at the end of this module.                                       *)
AgentMsgs ==
  [cmd : {"start"}, fd : Nat] \cup [cmd : {"kick"}]
    \cup [cmd : {"entering"}, game_id : Nat, fd : Nat]

MgrMsgs ==
  [cmd : {"enter_player"}, pid : Pids, fd : Nat]
    \cup [cmd : {"new_game"}, game_id : Nat, pid : Pids, fd : Nat]
    \cup [cmd : {"game_over"}, game_id : Nat]

SceneMsgs ==
  [cmd : {"new_game"}, game_id : Nat, pid : Pids, fd : Nat]
    \cup [cmd : {"game_over"}, game_id : Nat]
    \cup [cmd : {"enter_player", "leave_player"}, game_id : Nat, pid : Pids]

Proxies == [game_id : Nat, playercnt : Nat]

Types ==
  /\ nfd \in Nat
  /\ agentq \in [Pids -> Seq(AgentMsgs)]
  /\ playerlist \in [Pids -> {nil} \cup [m_FD : Nat, m_GameID : {nil} \cup Nat]]
  /\ mgrq \in Seq(MgrMsgs)
  /\ GAMEID \in Nat
  /\ m_SceneProxyList \in Seq(Proxies)
  /\ sceneq \in [Scenes -> Seq(SceneMsgs)]
  /\ DOMAIN m_Players \subseteq Nat
  /\ checking \subseteq DOMAIN m_Players

-----------------------------------------------------------------------------
(* What is in the mailboxes about a game.                                   *)
MgrHas(cmd, g) == \E m \in Range(mgrq) : m.cmd = cmd /\ m.game_id = g
SceneHas(cmd, g) == \E m \in InScenes : m.cmd = cmd /\ m.game_id = g

AtMost(S, k) == IsFiniteSet(S) /\ Cardinality(S) <= k

ListedWith(g, n) ==
  \E i \in DOMAIN m_SceneProxyList :
    /\ m_SceneProxyList[i].game_id = g
    /\ m_SceneProxyList[i].playercnt = n

(* The id of a game is not used before it is given.                         *)
Given(g) ==
  \/ MgrHas("new_game", g) \/ MgrHas("game_over", g)
  \/ SceneHas("new_game", g) \/ SceneHas("game_over", g)
  \/ SceneHas("enter_player", g) \/ g \in DOMAIN m_Players
  => g <= GAMEID

(* A game that is being created is known to nobody.                         *)
Creating(g) ==
  SceneHas("new_game", g) =>
    /\ ~MgrHas("new_game", g) /\ ~MgrHas("game_over", g)
    /\ ~SceneHas("game_over", g)
    /\ Members(g) = {}
    /\ g \notin DOMAIN m_Players

(* A game that was created, and that SCENE_MGR does not know of yet.        *)
Created(g) ==
  MgrHas("new_game", g) =>
    /\ g \in checking
    /\ \A n \in Nat : ~ListedWith(g, n)
    /\ ~SceneHas("game_over", g)
    /\ Members(g) = {}

(* A game on the list.                                                      *)
OnList(g) ==
  \A n \in Nat :
    ListedWith(g, n) =>
      /\ g \in checking
      /\ ~SceneHas("game_over", g)
      /\ n < MaxPlayers
      /\ AtMost(Members(g), n)

Game(g) ==
  /\ Given(g) /\ Creating(g) /\ Created(g) /\ OnList(g)
  /\ AtMost(Members(g), MaxPlayers)

ListedOnce ==
  \A i, j \in DOMAIN m_SceneProxyList :
    m_SceneProxyList[i].game_id = m_SceneProxyList[j].game_id => i = j

(* The i-th message to a service, or to SCENE_MGR.                          *)
Creates(s, i, g) ==
  /\ i \in DOMAIN sceneq[s]
  /\ sceneq[s][i].cmd = "new_game" /\ sceneq[s][i].game_id = g

Mgr(cmd, i, g) ==
  i \in DOMAIN mgrq /\ mgrq[i].cmd = cmd /\ mgrq[i].game_id = g

(* A game is created once.                                                  *)
CreatedOnce ==
  \A s, t \in Scenes : \A i, j, g \in Nat :
    Creates(s, i, g) /\ Creates(t, j, g) => s = t /\ i = j

(* The answer comes once, and before the game_over calls.                   *)
AnsweredFirst ==
  \A i, j, g \in Nat :
    Mgr("new_game", i, g) =>
      /\ Mgr("new_game", j, g) => i = j
      /\ Mgr("game_over", j, g) => i < j

GameInv ==
  /\ Types
  /\ \A g \in Nat : Game(g)
  /\ ListedOnce /\ CreatedOnce /\ AnsweredFirst

-----------------------------------------------------------------------------
(* Mailboxes.                                                               *)
LEMMA AnswerFacts ==
  ASSUME NEW S, NEW q \in Seq(S), NEW m \in S, NEW r \in Answer(q, m)
  PROVE  /\ r \in Seq(S)
         /\ Range(r) = Range(q) \cup {m}
         /\ \E k \in Nat : GotIn(q, m, r, k)
<1>1. PICK k \in 1 .. Len(q) + 1 : r = InsertAt(q, k, m)
  BY DEF Answer
<1>2. k \in Nat
  OBVIOUS
<1> QED
  BY <1>1, <1>2, InsertFacts

LEMMA RemoveFacts ==
  ASSUME NEW S, NEW q \in Seq(S), NEW k \in DOMAIN q
  PROVE  /\ RemoveAt(q, k) \in Seq(S)
         /\ \A i \in DOMAIN RemoveAt(q, k) :
              /\ i \in Nat
              /\ \/ i < k /\ i \in DOMAIN q /\ RemoveAt(q, k)[i] = q[i]
                 \/ i >= k /\ i + 1 \in DOMAIN q /\ RemoveAt(q, k)[i] = q[i + 1]
<1> DEFINE a == SubSeq(q, 1, k - 1)
           b == SubSeq(q, k + 1, Len(q))
           r == a \o b
<1>1. DOMAIN q = 1 .. Len(q) /\ Len(q) \in Nat /\ k \in 1 .. Len(q)
  OBVIOUS
<1>2. /\ a \in Seq(S) /\ Len(a) = k - 1
      /\ \A i \in 1 .. k - 1 : a[i] = q[i]
  BY <1>1
<1>3. /\ b \in Seq(S) /\ Len(b) = Len(q) - k
      /\ \A i \in 1 .. Len(q) - k : b[i] = q[k + i]
  <2>1. k + 1 \in Nat /\ k + 1 >= 1 /\ k + 1 <= Len(q) + 1
    BY <1>1
  <2> HIDE DEF a, r
  <2>2. Len(b) = Len(q) - k
    BY <1>1, <2>1
  <2>3. b \in Seq(S)
    BY <1>1, <2>1
  <2>4. \A i \in 1 .. Len(q) - k : b[i] = q[k + i]
    BY <1>1, <2>1
  <2> QED
    BY <2>2, <2>3, <2>4
<1> HIDE DEF a, b
<1>4. /\ r \in Seq(S) /\ Len(r) = Len(a) + Len(b)
      /\ \A i \in 1 .. Len(a) : r[i] = a[i]
      /\ \A i \in Len(a) + 1 .. Len(a) + Len(b) : r[i] = b[i - Len(a)]
  <2>1. a \in Seq(S) /\ b \in Seq(S)
    BY <1>2, <1>3
  <2> QED
    BY <2>1
<1> HIDE DEF r
<1>5. /\ DOMAIN r = 1 .. Len(q) - 1
      /\ \A i \in 1 .. k - 1 : r[i] = q[i]
  BY <1>1, <1>2, <1>3, <1>4
<1>6. \A i \in k .. Len(q) - 1 : r[i] = q[i + 1]
  <2> TAKE i \in k .. Len(q) - 1
  <2>1. i - (k - 1) \in 1 .. Len(q) - k /\ k + (i - (k - 1)) = i + 1
    BY <1>1
  <2>2. i \in Len(a) + 1 .. Len(a) + Len(b) /\ i - Len(a) = i - (k - 1)
    BY <1>1, <1>2, <1>3
  <2> QED
    BY <1>3, <1>4, <2>1, <2>2
<1>7. RemoveAt(q, k) = r
  BY DEF RemoveAt, a, b, r
<1>8. \A i \in DOMAIN r :
        /\ i \in Nat
        /\ \/ i < k /\ i \in DOMAIN q /\ r[i] = q[i]
           \/ i >= k /\ i + 1 \in DOMAIN q /\ r[i] = q[i + 1]
  BY <1>1, <1>5, <1>6
<1> QED
  BY <1>4, <1>7, <1>8

LEMMA AtMostSubset ==
  ASSUME NEW T, NEW k \in Nat, AtMost(T, k), NEW S \in SUBSET T,
         NEW l \in Nat, k <= l
  PROVE  AtMost(S, l)
<1>1. IsFiniteSet(S) /\ Cardinality(S) <= Cardinality(T)
  BY FS_Subset DEF AtMost
<1>2. Cardinality(S) \in Nat /\ Cardinality(T) \in Nat /\ Cardinality(T) <= k
  BY <1>1, FS_CardinalityType DEF AtMost
<1> QED
  BY <1>1, <1>2 DEF AtMost

LEMMA AtMostPlus ==
  ASSUME NEW T, NEW k \in Nat, AtMost(T, k), NEW x, NEW S \in SUBSET (T \cup {x})
  PROVE  AtMost(S, k + 1)
<1>1. /\ IsFiniteSet(T \cup {x})
      /\ Cardinality(T \cup {x}) = Cardinality(T)
           \/ Cardinality(T \cup {x}) = Cardinality(T) + 1
  BY FS_AddElement DEF AtMost
<1>2. Cardinality(T) \in Nat /\ Cardinality(T) <= k
  BY FS_CardinalityType DEF AtMost
<1>3. AtMost(T \cup {x}, k + 1)
  BY <1>1, <1>2 DEF AtMost
<1>4. k + 1 \in Nat /\ k + 1 <= k + 1
  OBVIOUS
<1> QED
  BY <1>3, <1>4, AtMostSubset

LEMMA ServiceIsScene ==
  ASSUME NEW g \in Nat
  PROVE  get_scene_service(g) \in Scenes
<1>1. SCENESERVICE_CNT \in Nat \ {0}
  BY GameLifeAssumption
<1> DEFINE n == g % SCENESERVICE_CNT
<1>2. n \in 0 .. SCENESERVICE_CNT - 1
  BY <1>1
<1>3. get_scene_service(g) = IF n = 0 THEN SCENESERVICE_CNT ELSE n
  BY DEF get_scene_service
<1> HIDE DEF n
<1> QED
  BY <1>1, <1>2, <1>3 DEF Scenes

-----------------------------------------------------------------------------
(* A message taken from a scene service's mailbox, one sent to a service,   *)
(* and an answer to one.                                                    *)
LEMMA SceneTaken ==
  ASSUME Types, NEW s \in Scenes, sceneq[s] # <<>>,
         NEW h, h = Head(sceneq[s]),
         sceneq' = [sceneq EXCEPT ![s] = Tail(@)]
  PROVE  /\ sceneq' \in [Scenes -> Seq(SceneMsgs)]
         /\ h \in InScenes /\ h \in SceneMsgs
         /\ InScenes' \subseteq InScenes
         /\ CreatedOnce =>
              /\ CreatedOnce'
              /\ \A g \in Nat : h.cmd = "new_game" /\ h.game_id = g
                                  => ~SceneHas("new_game", g)'
<1>1. sceneq[s] \in Seq(SceneMsgs)
  BY DEF Types
<1>2. /\ h \in Range(sceneq[s]) /\ h \in SceneMsgs
      /\ 1 \in DOMAIN sceneq[s] /\ h = sceneq[s][1]
      /\ Tail(sceneq[s]) \in Seq(SceneMsgs)
      /\ \A i \in DOMAIN Tail(sceneq[s]) :
           i \in Nat /\ i + 1 \in DOMAIN sceneq[s] /\ Tail(sceneq[s])[i] = sceneq[s][i + 1]
      /\ Range(Tail(sceneq[s])) \subseteq Range(sceneq[s])
  BY <1>1, TailFacts
<1>3. /\ sceneq' \in [Scenes -> Seq(SceneMsgs)]
      /\ sceneq'[s] = Tail(sceneq[s])
      /\ \A t \in Scenes : t # s => sceneq'[t] = sceneq[t]
  BY <1>2 DEF Types
<1>4. InScenes' \subseteq InScenes
  BY <1>2, <1>3 DEF InScenes
<1>5. h \in InScenes
  BY <1>2 DEF InScenes
<1>6. ASSUME NEW g \in Nat, NEW i \in Nat, Creates(s, i, g)'
      PROVE  Creates(s, i + 1, g) /\ i + 1 # 1 /\ i + 1 \in Nat
  BY <1>2, <1>3, <1>6 DEF Creates
<1>7. ASSUME NEW t \in Scenes, t # s, NEW g \in Nat, NEW i \in Nat,
             Creates(t, i, g)'
      PROVE  Creates(t, i, g)
  BY <1>3, <1>7 DEF Creates
<1>8. ASSUME CreatedOnce
      PROVE  CreatedOnce'
  <2> SUFFICES ASSUME NEW t \in Scenes, NEW u \in Scenes,
                      NEW i \in Nat, NEW j \in Nat, NEW g \in Nat,
                      Creates(t, i, g)', Creates(u, j, g)'
               PROVE  t = u /\ i = j
    BY DEF CreatedOnce
  <2>1. CASE t = s /\ u = s
    BY <1>6, <1>8, <2>1 DEF CreatedOnce
  <2>2. CASE t = s /\ u # s
    BY <1>6, <1>7, <1>8, <2>2 DEF CreatedOnce
  <2>3. CASE t # s /\ u = s
    BY <1>6, <1>7, <1>8, <2>3 DEF CreatedOnce
  <2>4. CASE t # s /\ u # s
    BY <1>7, <1>8, <2>4 DEF CreatedOnce
  <2> QED
    BY <2>1, <2>2, <2>3, <2>4
<1>9. ASSUME CreatedOnce, NEW g \in Nat, h.cmd = "new_game", h.game_id = g,
             SceneHas("new_game", g)'
      PROVE  FALSE
  <2>1. Creates(s, 1, g)
    BY <1>2, <1>9 DEF Creates
  <2>2. PICK t \in Scenes :
          \E i \in DOMAIN sceneq'[t] :
            sceneq'[t][i].cmd = "new_game" /\ sceneq'[t][i].game_id = g
    BY <1>9 DEF SceneHas, InScenes, Range
  <2>3. PICK i \in Nat : Creates(t, i, g)'
    BY <1>3, <2>2 DEF Creates
  <2>4. CASE t = s
    BY <1>6, <1>9, <2>1, <2>3, <2>4 DEF CreatedOnce
  <2>5. CASE t # s
    BY <1>7, <1>9, <2>1, <2>3, <2>5 DEF CreatedOnce
  <2> QED
    BY <2>4, <2>5
<1> QED
  BY <1>2, <1>3, <1>4, <1>5, <1>8, <1>9

LEMMA SceneSent ==
  ASSUME Types, NEW m \in SceneMsgs, m.game_id \in Nat,
         sceneq' = SendScene(sceneq, m)
  PROVE  /\ sceneq' \in [Scenes -> Seq(SceneMsgs)]
         /\ InScenes' = InScenes \cup {m}
         /\ CreatedOnce /\ (m.cmd = "new_game" => ~SceneHas("new_game", m.game_id))
              => CreatedOnce'
<1> DEFINE s == get_scene_service(m.game_id)
<1>1. s \in Scenes
  BY ServiceIsScene
<1>2. sceneq' = [sceneq EXCEPT ![s] = Append(@, m)]
  BY DEF SendScene
<1> HIDE DEF s
<1>3. sceneq[s] \in Seq(SceneMsgs)
  BY <1>1 DEF Types
<1>4. /\ Append(sceneq[s], m) \in Seq(SceneMsgs)
      /\ \A i \in DOMAIN Append(sceneq[s], m) :
           \/ i \in DOMAIN sceneq[s] /\ Append(sceneq[s], m)[i] = sceneq[s][i]
           \/ i = Len(sceneq[s]) + 1 /\ Append(sceneq[s], m)[i] = m
      /\ Range(Append(sceneq[s], m)) = Range(sceneq[s]) \cup {m}
  BY <1>3, AppendFacts
<1>5. /\ sceneq' \in [Scenes -> Seq(SceneMsgs)]
      /\ sceneq'[s] = Append(sceneq[s], m)
      /\ \A t \in Scenes : t # s => sceneq'[t] = sceneq[t]
  BY <1>1, <1>2, <1>4 DEF Types
<1>6. InScenes' = InScenes \cup {m}
  BY <1>1, <1>4, <1>5 DEF InScenes
<1>7. ASSUME NEW t \in Scenes, NEW i \in Nat, NEW g \in Nat, Creates(t, i, g)'
      PROVE  \/ Creates(t, i, g)
             \/ t = s /\ i = Len(sceneq[s]) + 1 /\ m.cmd = "new_game" /\ m.game_id = g
  BY <1>4, <1>5, <1>7 DEF Creates
<1>8. ASSUME NEW t \in Scenes, NEW i \in Nat, NEW g \in Nat, Creates(t, i, g)
      PROVE  SceneHas("new_game", g)
  BY <1>8 DEF Creates, SceneHas, InScenes, Range
<1>9. ASSUME CreatedOnce,
             m.cmd = "new_game" => ~SceneHas("new_game", m.game_id)
      PROVE  CreatedOnce'
  <2> SUFFICES ASSUME NEW t \in Scenes, NEW u \in Scenes,
                      NEW i \in Nat, NEW j \in Nat, NEW g \in Nat,
                      Creates(t, i, g)', Creates(u, j, g)'
               PROVE  t = u /\ i = j
    BY DEF CreatedOnce
  <2>1. CASE m.cmd = "new_game" /\ m.game_id = g
    <3>1. ~Creates(t, i, g) /\ ~Creates(u, j, g)
      BY <1>8, <1>9, <2>1
    <3> QED
      BY <1>7, <3>1
  <2>2. CASE ~(m.cmd = "new_game" /\ m.game_id = g)
    <3>1. Creates(t, i, g) /\ Creates(u, j, g)
      BY <1>7, <2>2
    <3> QED
      BY <1>9, <3>1 DEF CreatedOnce
  <2> QED
    BY <2>1, <2>2
<1> QED
  BY <1>5, <1>6, <1>9

LEMMA SceneAnswered ==
  ASSUME Types, NEW s \in Scenes, NEW m \in SceneMsgs, m.cmd # "new_game",
         NEW mailbox \in Answer(sceneq[s], m),
         sceneq' = [sceneq EXCEPT ![s] = mailbox]
  PROVE  /\ sceneq' \in [Scenes -> Seq(SceneMsgs)]
         /\ InScenes' = InScenes \cup {m}
         /\ CreatedOnce => CreatedOnce'
<1>1. sceneq[s] \in Seq(SceneMsgs)
  BY DEF Types
<1>2. PICK k \in Nat : GotIn(sceneq[s], m, mailbox, k)
  BY <1>1, AnswerFacts
<1>3. mailbox \in Seq(SceneMsgs) /\ Range(mailbox) = Range(sceneq[s]) \cup {m}
  BY <1>1, AnswerFacts
<1>4. /\ sceneq' \in [Scenes -> Seq(SceneMsgs)]
      /\ sceneq'[s] = mailbox
      /\ \A t \in Scenes : t # s => sceneq'[t] = sceneq[t]
  BY <1>3 DEF Types
<1>5. InScenes' = InScenes \cup {m}
  BY <1>3, <1>4 DEF InScenes
<1>6. ASSUME NEW t \in Scenes, NEW i \in Nat, NEW g \in Nat, Creates(t, i, g)'
      PROVE  \/ t # s /\ Creates(t, i, g)
             \/ t = s /\ i < k /\ Creates(t, i, g)
             \/ t = s /\ i > k /\ Creates(t, i - 1, g)
  <2>1. CASE t # s
    BY <1>4, <1>6, <2>1 DEF Creates
  <2>2. CASE t = s
    BY <1>2, <1>4, <1>6, <2>2 DEF Creates, GotIn
  <2> QED
    BY <2>1, <2>2
<1>7. ASSUME CreatedOnce
      PROVE  CreatedOnce'
  <2> SUFFICES ASSUME NEW t \in Scenes, NEW u \in Scenes,
                      NEW i \in Nat, NEW j \in Nat, NEW g \in Nat,
                      Creates(t, i, g)', Creates(u, j, g)'
               PROVE  t = u /\ i = j
    BY DEF CreatedOnce
  <2>1. PICK x \in Nat : /\ Creates(t, x, g)
                         /\ \/ t # s /\ x = i
                            \/ t = s /\ i < k /\ x = i
                            \/ t = s /\ i > k /\ x = i - 1
    BY <1>6
  <2>2. PICK y \in Nat : /\ Creates(u, y, g)
                         /\ \/ u # s /\ y = j
                            \/ u = s /\ j < k /\ y = j
                            \/ u = s /\ j > k /\ y = j - 1
    BY <1>6
  <2>3. t = u /\ x = y
    BY <1>7, <2>1, <2>2 DEF CreatedOnce
  <2> QED
    BY <2>1, <2>2, <2>3
<1> QED
  BY <1>4, <1>5, <1>7

(* The same for SCENE_MGR's mailbox.                                        *)
LEMMA MgrTaken ==
  ASSUME Types, mgrq # <<>>, NEW h, h = Head(mgrq), mgrq' = Tail(mgrq)
  PROVE  /\ mgrq' \in Seq(MgrMsgs)
         /\ h \in Range(mgrq) /\ h \in MgrMsgs
         /\ Range(mgrq)' \subseteq Range(mgrq)
         /\ AnsweredFirst =>
              /\ AnsweredFirst'
              /\ \A g \in Nat : h.cmd \in {"new_game", "game_over"} /\ h.game_id = g
                                  => ~MgrHas("new_game", g)'
<1>1. mgrq \in Seq(MgrMsgs)
  BY DEF Types
<1>2. /\ h \in Range(mgrq) /\ h \in MgrMsgs
      /\ 1 \in DOMAIN mgrq /\ h = mgrq[1]
      /\ mgrq' \in Seq(MgrMsgs)
      /\ \A i \in DOMAIN mgrq' :
           i \in Nat /\ i + 1 \in DOMAIN mgrq /\ mgrq'[i] = mgrq[i + 1]
      /\ Range(mgrq') \subseteq Range(mgrq)
  BY <1>1, TailFacts
<1>3. ASSUME NEW cmd, NEW i \in Nat, NEW g \in Nat, Mgr(cmd, i, g)'
      PROVE  Mgr(cmd, i + 1, g) /\ i + 1 \in Nat /\ i # 0
  <2>1. i \in DOMAIN mgrq' /\ mgrq'[i].cmd = cmd /\ mgrq'[i].game_id = g
    BY <1>3 DEF Mgr
  <2> QED
    BY <1>2, <2>1 DEF Mgr
<1>4. ASSUME AnsweredFirst
      PROVE  AnsweredFirst'
  BY <1>3, <1>4 DEF AnsweredFirst
<1>5. ASSUME AnsweredFirst, NEW g \in Nat, h.cmd \in {"new_game", "game_over"},
             h.game_id = g, MgrHas("new_game", g)'
      PROVE  FALSE
  <2>1. Mgr(h.cmd, 1, g)
    BY <1>2, <1>5 DEF Mgr
  <2>2. PICK i \in Nat : Mgr("new_game", i, g)'
    BY <1>2, <1>5 DEF MgrHas, Range, Mgr
  <2>3. Mgr("new_game", i + 1, g) /\ i + 1 \in Nat /\ i # 0
    BY <1>3, <2>2
  <2> QED
    BY <1>5, <2>1, <2>3 DEF AnsweredFirst
<1> QED
  BY <1>2, <1>4, <1>5

LEMMA MgrSent ==
  ASSUME Types, NEW m \in MgrMsgs, m.cmd # "new_game", mgrq' = Append(mgrq, m)
  PROVE  /\ mgrq' \in Seq(MgrMsgs)
         /\ Range(mgrq)' = Range(mgrq) \cup {m}
         /\ AnsweredFirst => AnsweredFirst'
<1>1. mgrq \in Seq(MgrMsgs)
  BY DEF Types
<1>2. /\ mgrq' \in Seq(MgrMsgs)
      /\ \A i \in DOMAIN mgrq' :
           \/ i \in DOMAIN mgrq /\ mgrq'[i] = mgrq[i]
           \/ i = Len(mgrq) + 1 /\ mgrq'[i] = m
      /\ Range(mgrq') = Range(mgrq) \cup {m}
  BY <1>1, AppendFacts
<1>3. ASSUME NEW cmd, NEW i \in Nat, NEW g \in Nat, Mgr(cmd, i, g)'
      PROVE  Mgr(cmd, i, g) \/ (cmd # "new_game" /\ i = Len(mgrq) + 1)
  BY <1>2, <1>3 DEF Mgr
<1>4. ASSUME NEW cmd, NEW i \in Nat, NEW g \in Nat, Mgr(cmd, i, g)
      PROVE  i < Len(mgrq) + 1
  BY <1>1, <1>4 DEF Mgr
<1>5. ASSUME AnsweredFirst
      PROVE  AnsweredFirst'
  BY <1>3, <1>4, <1>5 DEF AnsweredFirst
<1> QED
  BY <1>2, <1>5

LEMMA MgrAnswered ==
  ASSUME Types, NEW m \in MgrMsgs, m.game_id \in Nat, m.cmd = "new_game",
         ~MgrHas("new_game", m.game_id), ~MgrHas("game_over", m.game_id),
         mgrq' \in Answer(mgrq, m)
  PROVE  /\ mgrq' \in Seq(MgrMsgs)
         /\ Range(mgrq)' = Range(mgrq) \cup {m}
         /\ AnsweredFirst => AnsweredFirst'
<1>1. mgrq \in Seq(MgrMsgs)
  BY DEF Types
<1>2. PICK k \in Nat : GotIn(mgrq, m, mgrq', k)
  BY <1>1, AnswerFacts
<1>3. mgrq' \in Seq(MgrMsgs) /\ Range(mgrq') = Range(mgrq) \cup {m}
  BY <1>1, AnswerFacts
<1>4. ASSUME NEW cmd, NEW i \in Nat, NEW g \in Nat, Mgr(cmd, i, g)'
      PROVE  \/ i < k /\ Mgr(cmd, i, g)
             \/ i = k /\ cmd = "new_game" /\ g = m.game_id
             \/ i > k /\ Mgr(cmd, i - 1, g)
  <2>1. i \in DOMAIN mgrq' /\ mgrq'[i].cmd = cmd /\ mgrq'[i].game_id = g
    BY <1>4 DEF Mgr
  <2> QED
    BY <1>2, <2>1 DEF Mgr, GotIn
<1>5. ASSUME NEW cmd \in {"new_game", "game_over"}, NEW i \in Nat
      PROVE  ~Mgr(cmd, i, m.game_id)
  BY DEF Mgr, MgrHas, Range
<1>6. ASSUME AnsweredFirst
      PROVE  AnsweredFirst'
  <2> SUFFICES ASSUME NEW i \in Nat, NEW j \in Nat, NEW g \in Nat,
                      NEW cmd \in {"new_game", "game_over"},
                      Mgr("new_game", i, g)', Mgr(cmd, j, g)'
               PROVE  (i = j /\ cmd = "new_game") \/ (i < j /\ cmd = "game_over")
    BY DEF AnsweredFirst
  <2>1. CASE g = m.game_id
    <3>1. ASSUME NEW l \in Nat, NEW c \in {"new_game", "game_over"}, Mgr(c, l, g)'
          PROVE  l = k /\ c = "new_game"
      <4>1. l > k => l - 1 \in Nat
        OBVIOUS
      <4> QED
        BY <1>4, <1>5, <2>1, <3>1, <4>1
    <3> QED
      BY <3>1
  <2>2. CASE g # m.game_id
    <3>1. PICK x \in Nat : /\ Mgr("new_game", x, g)
                           /\ (i < k /\ x = i) \/ (i > k /\ x = i - 1)
      BY <1>4, <2>2
    <3>2. PICK y \in Nat : /\ Mgr(cmd, y, g)
                           /\ (j < k /\ y = j) \/ (j > k /\ y = j - 1)
      BY <1>4, <2>2
    <3>3. CASE cmd = "new_game"
      <4>1. x = y
        BY <1>6, <3>1, <3>2, <3>3 DEF AnsweredFirst
      <4> QED
        BY <3>1, <3>2, <3>3, <4>1
    <3>4. CASE cmd = "game_over"
      <4>1. x < y
        BY <1>6, <3>1, <3>2, <3>4 DEF AnsweredFirst
      <4> QED
        BY <3>1, <3>2, <3>4, <4>1
    <3> QED
      BY <3>3, <3>4
  <2> QED
    BY <2>1, <2>2
<1> QED
  BY <1>3, <1>6

-----------------------------------------------------------------------------
(* A game that nothing is added to stays as it has to be.                   *)
LEMMA Undisturbed ==
  ASSUME NEW g \in Nat, Game(g), GAMEID \in Nat, GAMEID' \in Nat, GAMEID <= GAMEID',
         \A cmd \in {"new_game", "game_over"} : MgrHas(cmd, g)' => MgrHas(cmd, g),
         \A cmd \in {"new_game", "game_over", "enter_player"} :
           SceneHas(cmd, g)' => SceneHas(cmd, g),
         g \in (DOMAIN m_Players)' => g \in DOMAIN m_Players,
         g \in checking => g \in checking',
         \A n \in Nat : ListedWith(g, n)' => ListedWith(g, n),
         Members(g)' \subseteq Members(g)
  PROVE  Game(g)'
<1>1. MaxPlayers \in Nat
  BY GameLifeAssumption
<1>2. \A k \in Nat : AtMost(Members(g), k) => AtMost(Members(g)', k)
  BY AtMostSubset
<1>3. Given(g)'
  BY DEF Game, Given
<1>4. Creating(g)'
  BY DEF Game, Creating
<1>5. Created(g)'
  BY DEF Game, Created
<1>6. OnList(g)'
  BY <1>2 DEF Game, OnList, AtMost
<1>7. AtMost(Members(g), MaxPlayers)'
  BY <1>1, <1>2 DEF Game, AtMost
<1> QED
  BY <1>3, <1>4, <1>5, <1>6, <1>7 DEF Game

-----------------------------------------------------------------------------
(* Types.                                                                   *)
LEMMA Fields ==
  /\ \A m \in AgentMsgs :
       /\ m.cmd = "start" => m.fd \in Nat
       /\ m.cmd = "entering" => m.fd \in Nat /\ m.game_id \in Nat
  /\ \A m \in MgrMsgs :
       /\ m.cmd \in {"enter_player", "new_game"} => m.pid \in Pids /\ m.fd \in Nat
       /\ m.cmd \in {"new_game", "game_over"} => m.game_id \in Nat
  /\ \A m \in SceneMsgs :
       /\ m.game_id \in Nat
       /\ m.cmd = "new_game" => m \in MgrMsgs /\ m.pid \in Pids /\ m.fd \in Nat
       /\ m.cmd \in {"enter_player", "leave_player"} => m.pid \in Pids
  BY DEF AgentMsgs, MgrMsgs, SceneMsgs

LEMMA Messages ==
  /\ \A g \in Nat : /\ AboutGame("game_over", g) \in MgrMsgs
                    /\ AboutGame("game_over", g) \in SceneMsgs
                    /\ AboutGame("game_over", g).cmd = "game_over"
                    /\ AboutGame("game_over", g).game_id = g
  /\ \A g \in Nat, pid \in Pids, cmd \in {"enter_player", "leave_player"} :
       /\ AboutPlayer(cmd, g, pid) \in SceneMsgs
       /\ AboutPlayer(cmd, g, pid).cmd = cmd
       /\ AboutPlayer(cmd, g, pid).game_id = g
       /\ AboutPlayer(cmd, g, pid).pid = pid
  /\ \A pid \in Pids, fd \in Nat :
       /\ EnterPlayer(pid, fd) \in MgrMsgs
       /\ EnterPlayer(pid, fd).cmd = "enter_player"
  /\ \A g \in Nat, pid \in Pids, fd \in Nat :
       /\ NewGame(g, pid, fd) \in SceneMsgs
       /\ NewGame(g, pid, fd).cmd = "new_game"
       /\ NewGame(g, pid, fd).game_id = g
  /\ \A g \in Nat, fd \in Nat : Entering(g, fd) \in AgentMsgs
  BY DEF AgentMsgs, MgrMsgs, SceneMsgs, AboutGame, AboutPlayer, EnterPlayer,
         NewGame, Entering

LEMMA EnterMessage ==
  ASSUME NEW g \in Nat, NEW pid \in Pids,
         NEW m, m = AboutPlayer("enter_player", g, pid)
  PROVE  /\ m \in SceneMsgs /\ m.cmd = "enter_player"
         /\ m.game_id = g /\ m.pid = pid
  BY DEF SceneMsgs, AboutPlayer

(* What Enter does to the list, and to the mailboxes.                       *)
LEMMA CountedFacts ==
  ASSUME NEW list \in Seq(Proxies), NEW i \in DOMAIN list
  PROVE  /\ counted(list, i) \in Seq(Proxies)
         /\ \A j \in DOMAIN counted(list, i) :
              \E k \in DOMAIN list :
                /\ counted(list, i)[j].game_id = list[k].game_id
                /\ counted(list, i)[j].playercnt =
                     IF k = i THEN list[k].playercnt + 1 ELSE list[k].playercnt
                /\ list[i].playercnt + 1 >= MaxPlayers
                     => k = j + 1 /\ k # 1
                /\ list[i].playercnt + 1 < MaxPlayers => k = j
<1> DEFINE plus == [list EXCEPT ![i].playercnt = @ + 1]
<1>1. /\ list[i].playercnt \in Nat /\ MaxPlayers \in Nat
      /\ \A k \in DOMAIN list : k \in Nat /\ list[k] \in Proxies
  <2>1. \A k \in DOMAIN list : k \in Nat /\ list[k] \in Proxies
    OBVIOUS
  <2>2. list[i].playercnt \in Nat
    BY <2>1 DEF Proxies
  <2> QED
    BY <2>1, <2>2, GameLifeAssumption
<1>2. /\ DOMAIN plus = DOMAIN list
      /\ \A k \in DOMAIN list :
           /\ plus[k] \in Proxies
           /\ plus[k].game_id = list[k].game_id
           /\ plus[k].playercnt =
                IF k = i THEN list[k].playercnt + 1 ELSE list[k].playercnt
  <2>1. DOMAIN plus = DOMAIN list
    OBVIOUS
  <2>2. ASSUME NEW k \in DOMAIN list, k # i
        PROVE  plus[k] = list[k]
    BY <2>2
  <2>3. plus[i] = [list[i] EXCEPT !.playercnt = @ + 1]
    OBVIOUS
  <2>4. /\ plus[i] \in Proxies /\ plus[i].game_id = list[i].game_id
        /\ plus[i].playercnt = list[i].playercnt + 1
    BY <1>1, <2>3 DEF Proxies
  <2> QED
    BY <1>1, <2>1, <2>2, <2>4
<1>3. plus \in Seq(Proxies) /\ plus # <<>>
  BY <1>2
<1>4. counted(list, i) = IF plus[i].playercnt >= MaxPlayers THEN Tail(plus) ELSE plus
  BY DEF counted
<1>5. plus[i].playercnt = list[i].playercnt + 1
  BY <1>2
<1> HIDE DEF plus
<1>6. /\ Tail(plus) \in Seq(Proxies)
      /\ \A j \in DOMAIN Tail(plus) :
           j \in Nat /\ j + 1 \in DOMAIN plus /\ Tail(plus)[j] = plus[j + 1]
  BY <1>3, TailFacts
<1>7. CASE list[i].playercnt + 1 >= MaxPlayers
  <2>1. counted(list, i) = Tail(plus)
    BY <1>4, <1>5, <1>7
  <2>2. ASSUME NEW j \in DOMAIN Tail(plus)
        PROVE  /\ j + 1 \in DOMAIN list /\ j + 1 # 1
               /\ Tail(plus)[j] = plus[j + 1]
    BY <1>2, <1>6
  <2> QED
    BY <1>1, <1>2, <1>6, <1>7, <2>1, <2>2
<1>8. CASE list[i].playercnt + 1 < MaxPlayers
  <2>1. counted(list, i) = plus
    BY <1>1, <1>4, <1>5, <1>8
  <2> QED
    BY <1>1, <1>2, <1>3, <1>8, <2>1
<1> QED
  BY <1>1, <1>7, <1>8

LEMMA AgentTaken ==
  ASSUME Types, NEW pid \in Pids, agentq[pid] # <<>>,
         agentq' = [agentq EXCEPT ![pid] = Tail(@)]
  PROVE  /\ agentq' \in [Pids -> Seq(AgentMsgs)]
         /\ Head(agentq[pid]) \in AgentMsgs
<1>1. agentq[pid] \in Seq(AgentMsgs)
  BY DEF Types
<1>2. Tail(agentq[pid]) \in Seq(AgentMsgs) /\ Head(agentq[pid]) \in AgentMsgs
  BY <1>1, TailFacts
<1> QED
  BY <1>2 DEF Types

LEMMA Entered ==
  ASSUME Types, NEW list \in Seq(Proxies), NEW i \in DOMAIN list,
         NEW pid \in Pids, NEW fd \in Nat, Enter(list, i, pid, fd)
  PROVE  /\ list[i].game_id \in Nat
         /\ m_SceneProxyList' = counted(list, i)
         /\ m_SceneProxyList' \in Seq(Proxies)
         /\ agentq' \in [Pids -> Seq(AgentMsgs)]
         /\ sceneq' = SendScene(sceneq, AboutPlayer("enter_player",
                                                     list[i].game_id, pid))
         /\ sceneq' \in [Scenes -> Seq(SceneMsgs)]
<1>1. list[i].game_id \in Nat
  <2>1. list[i] \in Proxies
    OBVIOUS
  <2> QED
    BY <2>1 DEF Proxies
<1>2. m_SceneProxyList' = counted(list, i) /\ m_SceneProxyList' \in Seq(Proxies)
  BY CountedFacts DEF Enter
<1>3. agentq' \in [Pids -> Seq(AgentMsgs)]
  <2>1. PICK mailbox \in Answer(agentq[pid], Entering(list[i].game_id, fd)) :
          agentq' = [agentq EXCEPT ![pid] = mailbox]
    BY DEF Enter
  <2>2. agentq[pid] \in Seq(AgentMsgs) /\ Entering(list[i].game_id, fd) \in AgentMsgs
    BY <1>1, Messages DEF Types
  <2>3. mailbox \in Seq(AgentMsgs)
    BY <2>2, AnswerFacts
  <2> QED
    BY <2>1, <2>3 DEF Types
<1>4. sceneq' = SendScene(sceneq, AboutPlayer("enter_player", list[i].game_id, pid))
  BY DEF Enter
<1>5. sceneq' \in [Scenes -> Seq(SceneMsgs)]
  <2>1. /\ AboutPlayer("enter_player", list[i].game_id, pid) \in SceneMsgs
        /\ AboutPlayer("enter_player", list[i].game_id, pid).game_id \in Nat
    BY <1>1, Messages
  <2> QED
    BY <1>4, <2>1, SceneSent
<1> QED
  BY <1>1, <1>2, <1>3, <1>4, <1>5

LEMMA TypesStep == Types /\ [Next]_vars => Types'
<1> SUFFICES ASSUME Types, [Next]_vars
             PROVE  Types'
  OBVIOUS
<1>1. ASSUME NEW pid \in Pids, Connect(pid)
      PROVE  Types'
  <2>1. [cmd |-> "start", fd |-> nfd + 1] \in AgentMsgs
    BY DEF Types, AgentMsgs
  <2>2. agentq[pid] \in Seq(AgentMsgs)
    BY DEF Types
  <2>3. Append(agentq[pid], [cmd |-> "start", fd |-> nfd + 1]) \in Seq(AgentMsgs)
    BY <2>1, <2>2, AppendFacts
  <2> QED
    BY <1>1, <2>3 DEF Connect, Types, mgrVars, sceneVars
<1>2. ASSUME NEW pid \in Pids, Disconnect(pid)
      PROVE  Types'
  <2>1. [cmd |-> "kick"] \in AgentMsgs
    BY DEF AgentMsgs
  <2>2. agentq[pid] \in Seq(AgentMsgs)
    BY DEF Types
  <2>3. Append(agentq[pid], [cmd |-> "kick"]) \in Seq(AgentMsgs)
    BY <2>1, <2>2, AppendFacts
  <2> QED
    BY <1>2, <2>3 DEF Disconnect, Types, mgrVars, sceneVars
<1>3. ASSUME NEW pid \in Pids, start(pid)
      PROVE  Types'
  <2>1. agentq' \in [Pids -> Seq(AgentMsgs)] /\ Head(agentq[pid]) \in AgentMsgs
    BY <1>3, AgentTaken DEF start, Receives
  <2>2. Head(agentq[pid]).fd \in Nat
    BY <1>3, <2>1, Fields DEF start, Receives
  <2>3. EnterPlayer(pid, Head(agentq[pid]).fd) \in MgrMsgs
    BY <2>2, Messages
  <2>4. mgrq' \in Seq(MgrMsgs)
    BY <1>3, <2>3, AppendFacts DEF start, Types
  <2>5. playerlist' \in [Pids -> {nil} \cup [m_FD : Nat, m_GameID : {nil} \cup Nat]]
    BY <1>3, <2>2 DEF start, Types
  <2> QED
    BY <1>3, <2>1, <2>4, <2>5 DEF start, Types, sceneVars
<1>4. ASSUME NEW pid \in Pids, enterwar(pid)
      PROVE  Types'
  <2>1. agentq' \in [Pids -> Seq(AgentMsgs)] /\ Head(agentq[pid]) \in AgentMsgs
    BY <1>4, AgentTaken DEF enterwar, Receives
  <2>2. Head(agentq[pid]).game_id \in Nat
    BY <1>4, <2>1, Fields DEF enterwar, Receives
  <2>3. playerlist' \in [Pids -> {nil} \cup [m_FD : Nat, m_GameID : {nil} \cup Nat]]
    <3>1. CASE playerlist[pid] # nil
      <4>1. playerlist[pid] \in [m_FD : Nat, m_GameID : {nil} \cup Nat]
        BY <3>1 DEF Types
      <4>2. [playerlist[pid] EXCEPT !.m_GameID = Head(agentq[pid]).game_id]
              \in [m_FD : Nat, m_GameID : {nil} \cup Nat]
        BY <2>2, <4>1
      <4> QED
        BY <1>4, <4>2 DEF enterwar, Types
    <3>2. CASE playerlist[pid] = nil
      BY <1>4, <3>2 DEF enterwar, Types
    <3> QED
      BY <3>1, <3>2
  <2> QED
    BY <1>4, <2>1, <2>3 DEF enterwar, Types, mgrVars, sceneVars
<1>5. ASSUME NEW pid \in Pids, kick(pid)
      PROVE  Types'
  <2>1. agentq' \in [Pids -> Seq(AgentMsgs)]
    BY <1>5, AgentTaken DEF kick, Receives
  <2>2. sceneq' \in [Scenes -> Seq(SceneMsgs)]
    <3>1. CASE InGame(pid)
      <4> DEFINE m == AboutPlayer("leave_player", playerlist[pid].m_GameID, pid)
      <4>1. playerlist[pid].m_GameID \in Nat
        BY <3>1 DEF Types, InGame
      <4>2. m \in SceneMsgs /\ m.game_id \in Nat
        BY <4>1, Messages
      <4>3. sceneq' = SendScene(sceneq, m)
        BY <1>5, <3>1 DEF kick
      <4> QED
        BY <4>2, <4>3, SceneSent
    <3>2. CASE ~InGame(pid)
      BY <1>5, <3>2 DEF kick, Types
    <3> QED
      BY <3>1, <3>2
  <2>3. playerlist' \in [Pids -> {nil} \cup [m_FD : Nat, m_GameID : {nil} \cup Nat]]
    BY <1>5 DEF kick, Types
  <2> QED
    BY <1>5, <2>1, <2>2, <2>3 DEF kick, Types, mgrVars
<1>6. CASE enter_player
  <2> DEFINE m == Head(mgrq)
  <2>1. mgrq' \in Seq(MgrMsgs) /\ m \in MgrMsgs
    BY <1>6, MgrTaken DEF enter_player, Receives
  <2>2. m.pid \in Pids /\ m.fd \in Nat
    BY <1>6, <2>1, Fields DEF enter_player, Receives
  <2>3. 1 \in DOMAIN m_SceneProxyList /\ m_SceneProxyList \in Seq(Proxies)
    BY <1>6 DEF enter_player, Types
  <2>4. /\ m_SceneProxyList' \in Seq(Proxies) /\ agentq' \in [Pids -> Seq(AgentMsgs)]
        /\ sceneq' \in [Scenes -> Seq(SceneMsgs)]
    BY <1>6, <2>2, <2>3, Entered DEF enter_player
  <2> QED
    BY <1>6, <2>1, <2>4 DEF enter_player, Types
<1>7. CASE new_proxy
  <2> DEFINE m == Head(mgrq)
             new == NewGame(NewServiceUniqID(GAMEID), m.pid, m.fd)
  <2>1. mgrq' \in Seq(MgrMsgs) /\ m \in MgrMsgs
    BY <1>7, MgrTaken DEF new_proxy, Receives
  <2>2. m.pid \in Pids /\ m.fd \in Nat
    BY <1>7, <2>1, Fields DEF new_proxy, Receives
  <2>3. NewServiceUniqID(GAMEID) \in Nat
    BY DEF NewServiceUniqID, Types
  <2>4. new \in SceneMsgs /\ new.game_id \in Nat
    BY <2>2, <2>3, Messages
  <2>5. sceneq' \in [Scenes -> Seq(SceneMsgs)]
    BY <1>7, <2>4, SceneSent DEF new_proxy
  <2> QED
    BY <1>7, <2>1, <2>3, <2>5 DEF new_proxy, Types, agentVars
<1>8. CASE new_game_answer
  <2> DEFINE m == Head(mgrq)
             new == [game_id |-> m.game_id, playercnt |-> 0]
             list == Append(m_SceneProxyList, new)
  <2>1. mgrq' \in Seq(MgrMsgs) /\ m \in MgrMsgs
    BY <1>8, MgrTaken DEF new_game_answer, Receives
  <2>2. m.pid \in Pids /\ m.fd \in Nat /\ m.game_id \in Nat
    BY <1>8, <2>1, Fields DEF new_game_answer, Receives
  <2>3. new \in Proxies
    BY <2>2 DEF Proxies
  <2>4. list \in Seq(Proxies) /\ Len(list) \in DOMAIN list
    BY <2>3, AppendFacts DEF Types
  <2>5. Enter(list, Len(list), m.pid, m.fd)
    BY <1>8 DEF new_game_answer
  <2> HIDE DEF list, m
  <2>6. /\ m_SceneProxyList' \in Seq(Proxies) /\ agentq' \in [Pids -> Seq(AgentMsgs)]
        /\ sceneq' \in [Scenes -> Seq(SceneMsgs)]
    BY <2>2, <2>4, <2>5, Entered
  <2> QED
    BY <1>8, <2>1, <2>6 DEF new_game_answer, Types
<1>9. CASE mgr_game_over
  <2> DEFINE m == Head(mgrq)
             s == get_scene_service(m.game_id)
             list == m_SceneProxyList
             at == {i \in DOMAIN list : list[i].game_id = m.game_id}
  <2>1. mgrq' \in Seq(MgrMsgs) /\ m \in MgrMsgs
    BY <1>9, MgrTaken DEF mgr_game_over, Receives
  <2>2. m.game_id \in Nat
    BY <1>9, <2>1, Fields DEF mgr_game_over, Receives
  <2>3. s \in Scenes
    BY <2>2, ServiceIsScene
  <2>4. PICK mailbox \in Answer(sceneq[s], AboutGame("game_over", m.game_id)) :
          sceneq' = [sceneq EXCEPT ![s] = mailbox]
    BY <1>9 DEF mgr_game_over
  <2>5. /\ AboutGame("game_over", m.game_id) \in SceneMsgs
        /\ AboutGame("game_over", m.game_id).cmd # "new_game"
    BY <2>2, Messages
  <2>6. sceneq' \in [Scenes -> Seq(SceneMsgs)]
    BY <2>3, <2>4, <2>5, SceneAnswered
  <2>7. del_proxy(list, m.game_id) \in Seq(Proxies)
    <3>1. CASE at = {}
      BY <3>1 DEF del_proxy, Types
    <3>2. CASE at # {}
      <4>1. PICK k \in at : del_proxy(list, m.game_id) = RemoveAt(list, k)
        BY <3>2 DEF del_proxy
      <4>2. k \in DOMAIN list /\ list \in Seq(Proxies)
        BY <4>1 DEF Types
      <4> QED
        BY <4>1, <4>2, RemoveFacts
    <3> QED
      BY <3>1, <3>2
  <2> QED
    BY <1>9, <2>1, <2>6, <2>7 DEF mgr_game_over, Types, agentVars
<1>10. ASSUME NEW s \in Scenes, new_game(s)
       PROVE  Types'
  <2>1. PICK m : m = Head(sceneq[s])
    OBVIOUS
  <2>2. sceneq' \in [Scenes -> Seq(SceneMsgs)] /\ m \in SceneMsgs /\ m.cmd = "new_game"
    BY <1>10, <2>1, SceneTaken DEF new_game, Receives
  <2>3. m.game_id \in Nat /\ m \in MgrMsgs
    BY <2>2, Fields
  <2>4. mgrq' \in Seq(MgrMsgs)
    <3>1. mgrq' \in Answer(mgrq, m)
      BY <1>10, <2>1 DEF new_game
    <3> QED
      BY <2>3, <3>1, AnswerFacts DEF Types
  <2>5. /\ DOMAIN m_Players' = DOMAIN m_Players \cup {m.game_id}
        /\ checking' = checking \cup {m.game_id}
    BY <1>10, <2>1 DEF new_game
  <2> QED
    BY <1>10, <2>2, <2>3, <2>4, <2>5 DEF new_game, Types, agentVars
<1>11. ASSUME NEW s \in Scenes,
              scene_enter_player(s) \/ scene_leave_player(s) \/ game_over_answer(s)
       PROVE  Types'
  <2>1. sceneq' \in [Scenes -> Seq(SceneMsgs)]
    BY <1>11, SceneTaken
       DEF scene_enter_player, scene_leave_player, game_over_answer, Receives
  <2>2. DOMAIN m_Players' = DOMAIN m_Players /\ checking' \subseteq checking
    BY <1>11 DEF scene_enter_player, scene_leave_player, game_over_answer
  <2> QED
    BY <1>11, <2>1, <2>2
       DEF scene_enter_player, scene_leave_player, game_over_answer, Types,
           agentVars, mgrVars
<1>12. ASSUME NEW game_id \in checking, check_over(game_id)
       PROVE  Types'
  <2>1. game_id \in Nat
    BY DEF Types
  <2>2. mgrq' \in Seq(MgrMsgs)
    BY <1>12, <2>1, Messages, AppendFacts DEF check_over, Types
  <2> QED
    BY <1>12, <2>2 DEF check_over, Types, agentVars, sceneVars
<1>13. CASE UNCHANGED vars
  BY <1>13 DEF vars, agentVars, mgrVars, sceneVars, Types
<1> QED
  BY <1>1, <1>2, <1>3, <1>4, <1>5, <1>6, <1>7, <1>8, <1>9, <1>10, <1>11, <1>12,
     <1>13
     DEF Next, Agent, SceneMgr, SceneService

-----------------------------------------------------------------------------
(* What OffListIsFinal says of a game.                                      *)
StaysOff(g) == OffList(g) => OffList(g)' /\ Members(g)' \subseteq Members(g)

LEMMA ListedFacts ==
  /\ Types => \A g \in Nat : g \in Listed <=> \E n \in Nat : ListedWith(g, n)
  /\ Types' => \A g \in Nat : g \in Listed' <=> \E n \in Nat : ListedWith(g, n)'
<1>1. ASSUME Types, NEW g \in Nat
      PROVE  g \in Listed <=> \E n \in Nat : ListedWith(g, n)
  <2>1. ASSUME NEW i \in DOMAIN m_SceneProxyList
        PROVE  m_SceneProxyList[i].playercnt \in Nat
    <3>1. m_SceneProxyList[i] \in Proxies
      BY <1>1 DEF Types
    <3> QED
      BY <3>1 DEF Proxies
  <2> QED
    BY <2>1 DEF Listed, ListedWith
<1>2. ASSUME Types', NEW g \in Nat
      PROVE  g \in Listed' <=> \E n \in Nat : ListedWith(g, n)'
  <2>1. ASSUME NEW i \in DOMAIN m_SceneProxyList'
        PROVE  m_SceneProxyList'[i].playercnt \in Nat
    <3>1. m_SceneProxyList'[i] \in Proxies
      BY <1>2 DEF Types
    <3> QED
      BY <3>1 DEF Proxies
  <2> QED
    BY <2>1 DEF Listed, ListedWith
<1> QED
  BY <1>1, <1>2

LEMMA MembersFacts ==
  \A g \in Nat :
    /\ \A x : x \in Members(g) <=>
         \/ \E m \in InScenes : m.cmd = "enter_player" /\ m.game_id = g /\ m.pid = x
         \/ g \in DOMAIN m_Players /\ x \in m_Players[g]
    /\ \A x : x \in Members(g)' <=>
         \/ \E m \in InScenes' : m.cmd = "enter_player" /\ m.game_id = g /\ m.pid = x
         \/ g \in DOMAIN m_Players' /\ x \in m_Players'[g]
  BY DEF Members, Entrants

LEMMA OffListFacts ==
  \A g \in Nat :
    /\ OffList(g) <=> /\ g \in DOMAIN m_Players /\ g \notin Listed
                      /\ ~MgrHas("new_game", g)
    /\ OffList(g)' <=> /\ g \in DOMAIN m_Players' /\ g \notin Listed'
                       /\ ~MgrHas("new_game", g)'
  BY DEF OffList, MgrHas, Range

(* A step that concerns other games.                                        *)
LEMMA Untouched ==
  ASSUME NEW g \in Nat, Game(g), Types, Types', GAMEID <= GAMEID',
         \A m \in Range(mgrq)' :
           m \in Range(mgrq) \/ m.cmd = "enter_player" \/ m.game_id # g,
         \A m \in InScenes' :
           m \in InScenes \/ m.cmd = "leave_player" \/ m.game_id # g,
         g \in DOMAIN m_Players <=> g \in DOMAIN m_Players',
         g \in DOMAIN m_Players => m_Players'[g] \subseteq Members(g),
         g \in checking => g \in checking',
         \A n \in Nat : ListedWith(g, n)' => ListedWith(g, n)
  PROVE  Game(g)' /\ StaysOff(g)
<1>1. \A cmd \in {"new_game", "game_over"} : MgrHas(cmd, g)' => MgrHas(cmd, g)
  BY DEF MgrHas
<1>2. \A cmd \in {"new_game", "game_over", "enter_player"} :
        SceneHas(cmd, g)' => SceneHas(cmd, g)
  BY DEF SceneHas
<1>3. Members(g)' \subseteq Members(g)
  BY MembersFacts
<1>4. Game(g)'
  BY <1>1, <1>2, <1>3, Undisturbed DEF Types
<1>5. StaysOff(g)
  BY <1>1, <1>3, ListedFacts, OffListFacts DEF StaysOff
<1> QED
  BY <1>4, <1>5

(* Steps about no game at all, and what scenes do with players that come    *)
(* and go.                                                                  *)
LEMMA QuietStep ==
  ASSUME GameInv, Types', CreatedOnce', AnsweredFirst',
         \A m \in Range(mgrq)' : m \in Range(mgrq) \/ m.cmd = "enter_player",
         \A m \in InScenes' : m \in InScenes \/ m.cmd = "leave_player",
         DOMAIN m_Players = DOMAIN m_Players',
         \A g \in DOMAIN m_Players : m_Players'[g] \subseteq Members(g),
         UNCHANGED <<GAMEID, checking, m_SceneProxyList>>
  PROVE  GameInv' /\ \A g \in Nat : StaysOff(g)
<1>1. ASSUME NEW g \in Nat
      PROVE  Game(g)' /\ StaysOff(g)
  <2>1. \A n \in Nat : ListedWith(g, n)' => ListedWith(g, n)
    BY DEF ListedWith
  <2>2. GAMEID <= GAMEID'
    BY DEF GameInv, Types
  <2> QED
    BY <2>1, <2>2, Untouched DEF GameInv
<1>2. ListedOnce'
  BY DEF GameInv, ListedOnce
<1> QED
  BY <1>1, <1>2 DEF GameInv

(* Clients and agents: a login asks SCENE_MGR, a logout tells the service.  *)
LEMMA QuietAgents ==
  ASSUME GameInv, Types', NEW pid \in Pids,
         Connect(pid) \/ Disconnect(pid) \/ start(pid) \/ enterwar(pid) \/ kick(pid)
  PROVE  GameInv' /\ \A g \in Nat : StaysOff(g)
<1>1. UNCHANGED <<GAMEID, checking, m_SceneProxyList, m_Players>>
  BY DEF Connect, Disconnect, start, enterwar, kick, mgrVars, sceneVars
<1>2. \A g \in DOMAIN m_Players : m_Players'[g] \subseteq Members(g)
  BY <1>1, MembersFacts DEF GameInv, Types
<1>3. /\ AnsweredFirst'
      /\ \A m \in Range(mgrq)' : m \in Range(mgrq) \/ m.cmd = "enter_player"
  <2>1. CASE start(pid)
    <3>1. PICK m : m = Head(agentq[pid])
      OBVIOUS
    <3>2. m \in AgentMsgs /\ m.cmd = "start"
      BY <2>1, <3>1, AgentTaken DEF start, Receives, GameInv
    <3>3. EnterPlayer(pid, m.fd) \in MgrMsgs /\ EnterPlayer(pid, m.fd).cmd = "enter_player"
      BY <3>2, Fields, Messages
    <3>4. mgrq' = Append(mgrq, EnterPlayer(pid, m.fd))
      BY <2>1, <3>1 DEF start
    <3> QED
      BY <3>3, <3>4, MgrSent DEF GameInv
  <2>2. CASE ~start(pid)
    <3>1. mgrq' = mgrq
      BY <2>2 DEF Connect, Disconnect, enterwar, kick, mgrVars
    <3> QED
      BY <3>1 DEF GameInv, AnsweredFirst, Mgr
  <2> QED
    BY <2>1, <2>2
<1>4. /\ CreatedOnce'
      /\ \A m \in InScenes' : m \in InScenes \/ m.cmd = "leave_player"
  <2>1. CASE sceneq' = sceneq
    BY <2>1 DEF GameInv, CreatedOnce, Creates, InScenes
  <2>2. CASE sceneq' # sceneq
    <3>1. kick(pid) /\ InGame(pid)
      BY <2>2 DEF Connect, Disconnect, start, enterwar, kick, sceneVars
    <3>2. PICK m : m = AboutPlayer("leave_player", playerlist[pid].m_GameID, pid)
      OBVIOUS
    <3>3. playerlist[pid].m_GameID \in Nat
      BY <3>1 DEF GameInv, Types, InGame
    <3>4. m \in SceneMsgs /\ m.game_id \in Nat /\ m.cmd = "leave_player"
      BY <3>2, <3>3, Messages
    <3>5. sceneq' = SendScene(sceneq, m)
      BY <3>1, <3>2 DEF kick
    <3> QED
      BY <3>4, <3>5, SceneSent DEF GameInv
  <2> QED
    BY <2>1, <2>2
<1> QED
  BY <1>1, <1>2, <1>3, <1>4, QuietStep

(* A player on the way into a game is in it, or one leaves.                 *)
LEMMA QuietPlayers ==
  ASSUME GameInv, Types', NEW s \in Scenes,
         scene_enter_player(s) \/ scene_leave_player(s)
  PROVE  GameInv' /\ \A g \in Nat : StaysOff(g)
<1>1. PICK m : m = Head(sceneq[s])
  OBVIOUS
<1>2. /\ UNCHANGED <<GAMEID, checking, m_SceneProxyList, mgrq>>
      /\ DOMAIN m_Players = DOMAIN m_Players'
  BY DEF scene_enter_player, scene_leave_player, mgrVars
<1>3. m \in InScenes /\ InScenes' \subseteq InScenes /\ CreatedOnce'
  BY <1>1, SceneTaken DEF scene_enter_player, scene_leave_player, Receives, GameInv
<1>4. AnsweredFirst'
  BY <1>2 DEF GameInv, AnsweredFirst, Mgr
<1>5. ASSUME NEW g \in DOMAIN m_Players
      PROVE  m_Players'[g] \subseteq Members(g)
  <2>1. g \in Nat
    BY DEF GameInv, Types
  <2>2. CASE scene_enter_player(s)
    <3>1. /\ m.cmd = "enter_player"
          /\ m_Players'[g] = IF g = m.game_id THEN m_Players[g] \cup {m.pid}
                             ELSE m_Players[g]
      BY <1>1, <2>2 DEF scene_enter_player, Receives
    <3> QED
      BY <1>3, <2>1, <3>1, MembersFacts
  <2>3. CASE scene_leave_player(s)
    <3>1. m_Players'[g] \subseteq m_Players[g]
      BY <2>3 DEF scene_leave_player
    <3> QED
      BY <2>1, <3>1, MembersFacts
  <2> QED
    BY <2>2, <2>3
<1> QED
  BY <1>2, <1>3, <1>4, <1>5, QuietStep

(* A player is sent to the first game of the list, which goes off the list  *)
(* when it is full.                                                         *)
LEMMA Step_enter_player ==
  ASSUME GameInv, Types', enter_player
  PROVE  GameInv' /\ \A g \in Nat : StaysOff(g)
<1>1. PICK m : m = Head(mgrq)
  OBVIOUS
<1>2. PICK g0 : g0 = m_SceneProxyList[1].game_id
  OBVIOUS
<1>3. PICK n0 : n0 = m_SceneProxyList[1].playercnt
  OBVIOUS
<1>4. /\ m \in MgrMsgs /\ m.cmd = "enter_player"
      /\ Range(mgrq)' \subseteq Range(mgrq) /\ AnsweredFirst'
  BY <1>1, MgrTaken DEF enter_player, Receives, GameInv
<1>5. m.pid \in Pids /\ m.fd \in Nat
  BY <1>4, Fields
<1>6. 1 \in DOMAIN m_SceneProxyList /\ m_SceneProxyList \in Seq(Proxies)
  BY DEF enter_player, GameInv, Types
<1>7. Enter(m_SceneProxyList, 1, m.pid, m.fd)
  BY <1>1 DEF enter_player
<1>8. PICK x : x = AboutPlayer("enter_player", g0, m.pid)
  OBVIOUS
<1>9. /\ g0 \in Nat /\ n0 \in Nat /\ ListedWith(g0, n0)
      /\ m_SceneProxyList' = counted(m_SceneProxyList, 1)
      /\ sceneq' = SendScene(sceneq, x)
  <2>1. m_SceneProxyList[1] \in Proxies
    BY <1>6
  <2> QED
    BY <1>2, <1>3, <1>5, <1>6, <1>7, <1>8, <2>1, Entered DEF Proxies, ListedWith, GameInv
<1>10. /\ x \in SceneMsgs /\ x.cmd = "enter_player" /\ x.game_id = g0
       /\ x.pid = m.pid
  BY <1>5, <1>8, <1>9, EnterMessage
<1>11. InScenes' = InScenes \cup {x} /\ CreatedOnce'
  BY <1>9, <1>10, SceneSent DEF GameInv
<1>12. UNCHANGED <<GAMEID, checking, m_Players>>
  BY DEF enter_player
<1>13. /\ MaxPlayers \in Nat
       /\ Game(g0) /\ g0 \in checking /\ g0 \in DOMAIN m_Players
       /\ n0 < MaxPlayers /\ AtMost(Members(g0), n0)
       /\ ~SceneHas("game_over", g0)
       /\ ~SceneHas("new_game", g0) /\ ~MgrHas("new_game", g0)
  <2>1. Game(g0)
    BY <1>9 DEF GameInv
  <2>2. /\ g0 \in checking /\ n0 < MaxPlayers /\ AtMost(Members(g0), n0)
        /\ ~SceneHas("game_over", g0)
    BY <1>9, <2>1 DEF Game, OnList
  <2>3. g0 \in DOMAIN m_Players
    BY <2>2 DEF GameInv, Types
  <2>4. ~SceneHas("new_game", g0) /\ ~MgrHas("new_game", g0)
    BY <1>9, <2>1, <2>3 DEF Game, Creating, Created
  <2> QED
    BY <2>1, <2>2, <2>3, <2>4, GameLifeAssumption
(* The list: the other games as they were, this one with one more.          *)
<1>14. ASSUME NEW j \in DOMAIN m_SceneProxyList'
       PROVE  \E k \in DOMAIN m_SceneProxyList :
                /\ m_SceneProxyList'[j].game_id = m_SceneProxyList[k].game_id
                /\ m_SceneProxyList'[j].playercnt =
                     IF k = 1 THEN n0 + 1 ELSE m_SceneProxyList[k].playercnt
                /\ n0 + 1 >= MaxPlayers => k = j + 1 /\ k # 1
                /\ n0 + 1 < MaxPlayers => k = j
  <2> DEFINE list == counted(m_SceneProxyList, 1)
  <2>1. \A i \in DOMAIN list :
          \E k \in DOMAIN m_SceneProxyList :
            /\ list[i].game_id = m_SceneProxyList[k].game_id
            /\ list[i].playercnt = IF k = 1 THEN m_SceneProxyList[k].playercnt + 1
                                   ELSE m_SceneProxyList[k].playercnt
            /\ m_SceneProxyList[1].playercnt + 1 >= MaxPlayers
                 => k = i + 1 /\ k # 1
            /\ m_SceneProxyList[1].playercnt + 1 < MaxPlayers => k = i
    BY <1>6, CountedFacts
  <2> HIDE DEF list
  <2>2. m_SceneProxyList' = list
    BY <1>9 DEF list
  <2>3. PICK k \in DOMAIN m_SceneProxyList :
          /\ m_SceneProxyList'[j].game_id = m_SceneProxyList[k].game_id
          /\ m_SceneProxyList'[j].playercnt =
               IF k = 1 THEN m_SceneProxyList[k].playercnt + 1
               ELSE m_SceneProxyList[k].playercnt
          /\ m_SceneProxyList[1].playercnt + 1 >= MaxPlayers
               => k = j + 1 /\ k # 1
          /\ m_SceneProxyList[1].playercnt + 1 < MaxPlayers => k = j
    BY <2>1, <2>2
  <2> QED
    BY <1>3, <2>3
<1>15. ListedOnce'
  <2> SUFFICES ASSUME NEW i \in DOMAIN m_SceneProxyList',
                      NEW j \in DOMAIN m_SceneProxyList',
                      m_SceneProxyList'[i].game_id = m_SceneProxyList'[j].game_id
               PROVE  i = j
    BY DEF ListedOnce
  <2>1. i \in Nat /\ j \in Nat /\ MaxPlayers \in Nat /\ n0 \in Nat
    BY <1>9, <1>13 DEF Types
  <2> QED
    BY <1>14, <2>1 DEF GameInv, ListedOnce
<1>16. ASSUME NEW g \in Nat, g # g0, NEW n \in Nat, ListedWith(g, n)'
       PROVE  ListedWith(g, n)
  BY <1>2, <1>14, <1>16 DEF ListedWith
<1>17. ASSUME NEW n \in Nat, ListedWith(g0, n)'
       PROVE  n = n0 + 1 /\ n < MaxPlayers
  <2>1. PICK j \in DOMAIN m_SceneProxyList' :
          /\ m_SceneProxyList'[j].game_id = g0
          /\ m_SceneProxyList'[j].playercnt = n
    BY <1>17 DEF ListedWith
  <2>2. PICK k \in DOMAIN m_SceneProxyList :
          /\ g0 = m_SceneProxyList[k].game_id
          /\ n = IF k = 1 THEN n0 + 1 ELSE m_SceneProxyList[k].playercnt
          /\ n0 + 1 >= MaxPlayers => k = j + 1 /\ k # 1
    BY <1>14, <2>1
  <2>3. k = 1
    BY <1>2, <1>6, <2>2 DEF GameInv, ListedOnce
  <2> QED
    BY <1>9, <1>13, <2>2, <2>3
<1>18. ASSUME NEW g \in Nat, g # g0
       PROVE  Game(g)' /\ StaysOff(g)
  <2>1. g \in DOMAIN m_Players => m_Players'[g] \subseteq Members(g)
    BY <1>12, MembersFacts
  <2>2. GAMEID <= GAMEID'
    BY <1>12 DEF GameInv, Types
  <2> QED
    BY <1>4, <1>10, <1>11, <1>12, <1>16, <1>18, <2>1, <2>2, Untouched DEF GameInv
<1>19. Members(g0)' \subseteq Members(g0) \cup {m.pid}
  BY <1>9, <1>10, <1>11, <1>12, MembersFacts
<1>20. AtMost(Members(g0)', n0 + 1)
  BY <1>9, <1>13, <1>19, AtMostPlus
<1>21. Game(g0)'
  <2>1. \A cmd : MgrHas(cmd, g0)' => MgrHas(cmd, g0)
    BY <1>4 DEF MgrHas
  <2>2. \A cmd : cmd # "enter_player" /\ SceneHas(cmd, g0)' => SceneHas(cmd, g0)
    BY <1>10, <1>11 DEF SceneHas
  <2>3. Given(g0)'
    BY <1>12, <1>13 DEF Game, Given
  <2>4. Creating(g0)' /\ Created(g0)'
    BY <1>13, <2>1, <2>2 DEF Creating, Created
  <2>5. OnList(g0)'
    BY <1>12, <1>13, <1>17, <1>20, <2>2 DEF OnList, AtMost
  <2>6. AtMost(Members(g0), MaxPlayers)'
    <3>1. n0 + 1 \in Nat /\ n0 + 1 <= MaxPlayers
      BY <1>9, <1>13
    <3>2. AtMost(Members(g0)', MaxPlayers)
      BY <1>13, <1>20, <3>1, AtMostSubset
    <3> QED
      BY <3>2 DEF AtMost
  <2> QED
    BY <2>3, <2>4, <2>5, <2>6 DEF Game
<1>22. StaysOff(g0)
  BY <1>9, ListedFacts, OffListFacts DEF StaysOff, GameInv
<1> QED
  BY <1>4, <1>11, <1>15, <1>18, <1>21, <1>22 DEF GameInv

(* A game without members has room.                                         *)
LEMMA Nobody == \A S : S = {} => AtMost(S, 0) /\ AtMost(S, MaxPlayers)
<1>1. IsFiniteSet({}) /\ Cardinality({}) = 0
  BY FS_EmptySet
<1> QED
  BY <1>1, GameLifeAssumption DEF AtMost

(* A game gets an id that nothing is known of.                              *)
LEMMA Step_new_proxy ==
  ASSUME GameInv, Types', new_proxy
  PROVE  GameInv' /\ \A g \in Nat : StaysOff(g)
<1>1. PICK m : m = Head(mgrq)
  OBVIOUS
<1>2. PICK g0 : g0 = GAMEID + 1
  OBVIOUS
<1>3. PICK x : x = NewGame(g0, m.pid, m.fd)
  OBVIOUS
<1>4. GAMEID \in Nat /\ g0 \in Nat /\ ~(g0 <= GAMEID)
  BY <1>2 DEF GameInv, Types
<1>5. /\ m \in MgrMsgs /\ m.cmd = "enter_player"
      /\ Range(mgrq)' \subseteq Range(mgrq) /\ AnsweredFirst'
  BY <1>1, MgrTaken DEF new_proxy, Receives, GameInv
<1>6. x \in SceneMsgs /\ x.cmd = "new_game" /\ x.game_id = g0
  BY <1>3, <1>4, <1>5, Fields, Messages
<1>7. /\ sceneq' = SendScene(sceneq, x) /\ GAMEID' = g0
      /\ UNCHANGED <<m_SceneProxyList, m_Players, checking>>
  BY <1>1, <1>2, <1>3 DEF new_proxy, NewServiceUniqID
(* Nothing is known of an id that was not given yet.                        *)
<1>8. /\ ~MgrHas("new_game", g0) /\ ~MgrHas("game_over", g0)
      /\ ~SceneHas("new_game", g0) /\ ~SceneHas("game_over", g0)
      /\ ~SceneHas("enter_player", g0) /\ g0 \notin DOMAIN m_Players
  BY <1>4 DEF GameInv, Game, Given
<1>9. InScenes' = InScenes \cup {x} /\ CreatedOnce'
  BY <1>4, <1>6, <1>7, <1>8, SceneSent DEF GameInv
<1>10. ASSUME NEW g \in Nat, g # g0
       PROVE  Game(g)' /\ StaysOff(g)
  <2>1. g \in DOMAIN m_Players => m_Players'[g] \subseteq Members(g)
    BY <1>7, MembersFacts
  <2>2. GAMEID <= GAMEID'
    BY <1>2, <1>4, <1>7
  <2>3. \A n \in Nat : ListedWith(g, n)' => ListedWith(g, n)
    BY <1>7 DEF ListedWith
  <2> QED
    BY <1>5, <1>6, <1>7, <1>9, <1>10, <2>1, <2>2, <2>3, Untouched DEF GameInv
<1>11. Members(g0)' = {}
  <2>1. \A y : y \notin Members(g0)'
    BY <1>4, <1>6, <1>7, <1>8, <1>9, MembersFacts DEF SceneHas
  <2> QED
    BY <2>1
<1>12. Game(g0)'
  <2>1. ~MgrHas("new_game", g0)' /\ ~MgrHas("game_over", g0)'
    BY <1>5, <1>8 DEF MgrHas
  <2>2. ~SceneHas("game_over", g0)'
    BY <1>6, <1>8, <1>9 DEF SceneHas
  <2>3. Given(g0)'
    BY <1>4, <1>7 DEF Given
  <2>4. Creating(g0)' /\ Created(g0)'
    BY <1>7, <1>8, <1>11, <2>1, <2>2 DEF Creating, Created
  <2>5. OnList(g0)'
    <3>1. ASSUME NEW n \in Nat, ListedWith(g0, n)'
          PROVE  FALSE
      <4>1. ListedWith(g0, n)
        BY <1>7, <3>1 DEF ListedWith
      <4>2. g0 \in checking
        BY <1>4, <4>1 DEF GameInv, Game, OnList
      <4> QED
        BY <1>8, <4>2 DEF GameInv, Types
    <3> QED
      BY <3>1 DEF OnList
  <2>6. AtMost(Members(g0), MaxPlayers)'
    BY <1>11, Nobody DEF AtMost
  <2> QED
    BY <2>3, <2>4, <2>5, <2>6 DEF Game
<1>13. StaysOff(g0)
  BY <1>4, <1>8, OffListFacts DEF StaysOff
<1>14. ListedOnce'
  BY <1>7 DEF GameInv, ListedOnce
<1> QED
  BY <1>5, <1>9, <1>10, <1>12, <1>13, <1>14 DEF GameInv

(* The game that was created is listed, with its first player.              *)
LEMMA Step_new_game_answer ==
  ASSUME GameInv, Types', new_game_answer
  PROVE  GameInv' /\ \A g \in Nat : StaysOff(g)
<1>1. PICK m : m = Head(mgrq)
  OBVIOUS
<1>2. PICK g0 : g0 = m.game_id
  OBVIOUS
<1>3. PICK new : new = [game_id |-> g0, playercnt |-> 0]
  OBVIOUS
<1>4. PICK list : list = Append(m_SceneProxyList, new)
  OBVIOUS
<1>5. PICK last : last = Len(list)
  OBVIOUS
<1>6. /\ m \in Range(mgrq) /\ m \in MgrMsgs /\ m.cmd = "new_game"
      /\ Range(mgrq)' \subseteq Range(mgrq) /\ AnsweredFirst'
  BY <1>1, MgrTaken DEF new_game_answer, Receives, GameInv
<1>7. g0 \in Nat /\ m.pid \in Pids /\ m.fd \in Nat
  BY <1>2, <1>6, Fields
<1>8. MgrHas("new_game", g0) /\ ~MgrHas("new_game", g0)'
  <2>1. MgrHas("new_game", g0)
    BY <1>2, <1>6 DEF MgrHas
  <2>2. ~MgrHas("new_game", g0)'
    BY <1>1, <1>2, <1>6, <1>7, MgrTaken DEF new_game_answer, Receives, GameInv
  <2> QED
    BY <2>1, <2>2
<1>9. /\ Game(g0) /\ g0 \in checking
      /\ \A n \in Nat : ~ListedWith(g0, n)
      /\ ~SceneHas("game_over", g0) /\ ~SceneHas("new_game", g0)
      /\ Members(g0) = {}
  BY <1>7, <1>8 DEF GameInv, Game, Creating, Created
<1>10. new \in Proxies /\ new.game_id = g0 /\ new.playercnt = 0
  BY <1>3, <1>7 DEF Proxies
<1>11. /\ list \in Seq(Proxies) /\ last \in DOMAIN list /\ list[last] = new
       /\ \A i \in DOMAIN list :
            \/ i \in DOMAIN m_SceneProxyList /\ list[i] = m_SceneProxyList[i]
            \/ i = last /\ list[i] = new
  <2>1. m_SceneProxyList \in Seq(Proxies)
    BY DEF GameInv, Types
  <2>2. /\ list \in Seq(Proxies) /\ last = Len(m_SceneProxyList) + 1
        /\ \A i \in DOMAIN list :
             \/ i \in DOMAIN m_SceneProxyList /\ list[i] = m_SceneProxyList[i]
             \/ i = Len(m_SceneProxyList) + 1 /\ list[i] = new
    BY <1>4, <1>5, <1>10, <2>1, AppendFacts
  <2>3. DOMAIN list = 1 .. Len(list) /\ Len(list) \in Nat
    BY <2>2
  <2>4. last \in DOMAIN list
    <3>1. Len(m_SceneProxyList) \in Nat
      BY <2>1
    <3> QED
      BY <1>5, <2>2, <2>3, <3>1
  <2>5. last \notin DOMAIN m_SceneProxyList
    BY <2>1, <2>2
  <2> QED
    BY <2>2, <2>4, <2>5
<1>12. Enter(list, last, m.pid, m.fd)
  BY <1>1, <1>2, <1>3, <1>4, <1>5 DEF new_game_answer
<1>13. PICK x : x = AboutPlayer("enter_player", g0, m.pid)
  OBVIOUS
<1>14. m_SceneProxyList' = counted(list, last) /\ sceneq' = SendScene(sceneq, x)
  BY <1>7, <1>10, <1>11, <1>12, <1>13, Entered DEF GameInv
<1>15. /\ x \in SceneMsgs /\ x.cmd = "enter_player" /\ x.game_id = g0
       /\ x.pid = m.pid
  BY <1>7, <1>13, EnterMessage
<1>16. InScenes' = InScenes \cup {x} /\ CreatedOnce'
  BY <1>7, <1>14, <1>15, SceneSent DEF GameInv
<1>17. UNCHANGED <<GAMEID, checking, m_Players>>
  BY DEF new_game_answer
<1>18. g0 \in DOMAIN m_Players
  BY <1>9 DEF GameInv, Types
(* The list: this game is put behind the others, with one player, for whom  *)
(* there is room.                                                           *)
<1>19. MaxPlayers \in Nat /\ 1 < MaxPlayers
  BY GameLifeAssumption
<1>20. ASSUME NEW j \in DOMAIN m_SceneProxyList'
       PROVE  /\ j \in DOMAIN list
              /\ m_SceneProxyList'[j].game_id = list[j].game_id
              /\ m_SceneProxyList'[j].playercnt =
                   IF j = last THEN 1 ELSE list[j].playercnt
  <2> DEFINE c == counted(list, last)
  <2>1. \A i \in DOMAIN c :
          \E k \in DOMAIN list :
            /\ c[i].game_id = list[k].game_id
            /\ c[i].playercnt =
                 IF k = last THEN list[k].playercnt + 1 ELSE list[k].playercnt
            /\ list[last].playercnt + 1 < MaxPlayers => k = i
    <3>1. list \in Seq(Proxies) /\ last \in DOMAIN list
      BY <1>11
    <3> QED
      BY <3>1, CountedFacts
  <2> HIDE DEF c
  <2>2. c = m_SceneProxyList'
    BY <1>14 DEF c
  <2>3. PICK k \in DOMAIN list :
          /\ c[j].game_id = list[k].game_id
          /\ c[j].playercnt =
               IF k = last THEN list[k].playercnt + 1 ELSE list[k].playercnt
          /\ list[last].playercnt + 1 < MaxPlayers => k = j
    BY <2>1, <2>2
  <2>4. list[last].playercnt + 1 = 1
    BY <1>10, <1>11
  <2>5. k = j
    BY <1>19, <2>3, <2>4
  <2> QED
    BY <2>2, <2>3, <2>4, <2>5
<1>21. ASSUME NEW i \in DOMAIN m_SceneProxyList
       PROVE  m_SceneProxyList[i].game_id # g0
  <2>1. m_SceneProxyList[i] \in Proxies
    BY DEF GameInv, Types
  <2>2. m_SceneProxyList[i].playercnt \in Nat
    BY <2>1 DEF Proxies
  <2> QED
    BY <1>9, <2>2 DEF ListedWith
<1>22. ListedOnce'
  <2> SUFFICES ASSUME NEW i \in DOMAIN m_SceneProxyList',
                      NEW j \in DOMAIN m_SceneProxyList',
                      m_SceneProxyList'[i].game_id = m_SceneProxyList'[j].game_id
               PROVE  i = j
    BY DEF ListedOnce
  <2>1. /\ i \in DOMAIN list /\ j \in DOMAIN list
        /\ list[i].game_id = list[j].game_id
    BY <1>20
  <2> QED
    BY <1>10, <1>11, <1>21, <2>1 DEF GameInv, ListedOnce
<1>23. ASSUME NEW g \in Nat, g # g0, NEW n \in Nat, ListedWith(g, n)'
       PROVE  ListedWith(g, n)
  <2>1. PICK j \in DOMAIN m_SceneProxyList' :
          /\ m_SceneProxyList'[j].game_id = g
          /\ m_SceneProxyList'[j].playercnt = n
    BY <1>23 DEF ListedWith
  <2>2. j # last
    BY <1>10, <1>11, <1>20, <1>23, <2>1
  <2> QED
    BY <1>11, <1>20, <2>1, <2>2 DEF ListedWith
<1>24. ASSUME NEW n \in Nat, ListedWith(g0, n)'
       PROVE  n = 1
  <2>1. PICK j \in DOMAIN m_SceneProxyList' :
          /\ m_SceneProxyList'[j].game_id = g0
          /\ m_SceneProxyList'[j].playercnt = n
    BY <1>24 DEF ListedWith
  <2>2. j = last
    BY <1>11, <1>20, <1>21, <2>1
  <2> QED
    BY <1>20, <2>1, <2>2
<1>25. ASSUME NEW g \in Nat, g # g0
       PROVE  Game(g)' /\ StaysOff(g)
  <2>1. g \in DOMAIN m_Players => m_Players'[g] \subseteq Members(g)
    BY <1>17, MembersFacts
  <2>2. GAMEID <= GAMEID'
    BY <1>17 DEF GameInv, Types
  <2> QED
    BY <1>6, <1>15, <1>16, <1>17, <1>23, <1>25, <2>1, <2>2, Untouched DEF GameInv
<1>26. Members(g0)' \subseteq Members(g0) \cup {m.pid}
  BY <1>7, <1>15, <1>16, <1>17, MembersFacts
<1>27. AtMost(Members(g0)', 1)
  <2>1. AtMost(Members(g0), 0)
    BY <1>9, Nobody
  <2>2. AtMost(Members(g0)', 0 + 1)
    BY <1>26, <2>1, AtMostPlus
  <2> QED
    BY <2>2
<1>28. Game(g0)'
  <2>1. \A cmd : cmd # "enter_player" /\ SceneHas(cmd, g0)' => SceneHas(cmd, g0)
    BY <1>15, <1>16 DEF SceneHas
  <2>2. Given(g0)'
    BY <1>9, <1>17, <1>18 DEF Game, Given
  <2>3. Creating(g0)' /\ Created(g0)'
    BY <1>8, <1>9, <2>1 DEF Creating, Created
  <2>4. OnList(g0)'
    BY <1>9, <1>17, <1>19, <1>24, <1>27, <2>1 DEF OnList, AtMost
  <2>5. AtMost(Members(g0), MaxPlayers)'
    <3>1. 1 \in Nat /\ 1 <= MaxPlayers
      BY <1>19
    <3>2. AtMost(Members(g0)', MaxPlayers)
      BY <1>19, <1>27, <3>1, AtMostSubset
    <3> QED
      BY <3>2 DEF AtMost
  <2> QED
    BY <2>2, <2>3, <2>4, <2>5 DEF Game
<1>29. StaysOff(g0)
  BY <1>7, <1>8, OffListFacts DEF StaysOff
<1> QED
  BY <1>6, <1>16, <1>22, <1>25, <1>28, <1>29 DEF GameInv

(* SCENE_MGR takes a game off the list for good: its place on the list, of  *)
(* which there is one, goes, and no answer is left that could list it.      *)
LEMMA Step_mgr_game_over ==
  ASSUME GameInv, Types', mgr_game_over
  PROVE  GameInv' /\ \A g \in Nat : StaysOff(g)
<1>1. PICK m : m = Head(mgrq)
  OBVIOUS
<1>2. PICK g0 : g0 = m.game_id
  OBVIOUS
<1>3. PICK list : list = m_SceneProxyList
  OBVIOUS
<1>4. /\ m \in Range(mgrq) /\ m \in MgrMsgs /\ m.cmd = "game_over"
      /\ Range(mgrq)' \subseteq Range(mgrq) /\ AnsweredFirst'
  BY <1>1, MgrTaken DEF mgr_game_over, Receives, GameInv
<1>5. g0 \in Nat
  BY <1>2, <1>4, Fields
<1>6. MgrHas("game_over", g0) /\ ~MgrHas("new_game", g0)'
  <2>1. MgrHas("game_over", g0)
    BY <1>2, <1>4 DEF MgrHas
  <2>2. ~MgrHas("new_game", g0)'
    BY <1>1, <1>2, <1>4, <1>5, MgrTaken DEF mgr_game_over, Receives, GameInv
  <2> QED
    BY <2>1, <2>2
<1>7. Game(g0) /\ g0 <= GAMEID /\ ~SceneHas("new_game", g0)
  BY <1>5, <1>6 DEF GameInv, Game, Given, Creating
<1>8. PICK s \in Scenes :
        \E mailbox \in Answer(sceneq[s], AboutGame("game_over", g0)) :
          sceneq' = [sceneq EXCEPT ![s] = mailbox]
  <2>1. get_scene_service(g0) \in Scenes
    BY <1>5, ServiceIsScene
  <2> QED
    BY <1>1, <1>2, <2>1 DEF mgr_game_over
<1>9. PICK x : x = AboutGame("game_over", g0)
  OBVIOUS
<1>10. x \in SceneMsgs /\ x.cmd = "game_over" /\ x.game_id = g0
  BY <1>5, <1>9, Messages
<1>11. InScenes' = InScenes \cup {x} /\ CreatedOnce'
  BY <1>8, <1>9, <1>10, SceneAnswered DEF GameInv
<1>12. UNCHANGED <<GAMEID, checking, m_Players>>
  BY DEF mgr_game_over
<1>13. list \in Seq(Proxies) /\ m_SceneProxyList' = del_proxy(list, g0)
  BY <1>1, <1>2, <1>3 DEF mgr_game_over, GameInv, Types
<1>14. PICK at : at = {i \in DOMAIN list : list[i].game_id = g0}
  OBVIOUS
(* Where the proxies that stay were.                                        *)
<1>15. \/ m_SceneProxyList' = list /\ at = {}
       \/ \E k \in at :
            \A i \in DOMAIN m_SceneProxyList' :
              /\ i \in Nat
              /\ \/ i < k /\ i \in DOMAIN list /\ m_SceneProxyList'[i] = list[i]
                 \/ /\ i >= k /\ i + 1 \in DOMAIN list
                    /\ m_SceneProxyList'[i] = list[i + 1]
  <2>1. CASE at = {}
    BY <1>13, <1>14, <2>1 DEF del_proxy
  <2>2. CASE at # {}
    <3>1. PICK k \in at : m_SceneProxyList' = RemoveAt(list, k)
      BY <1>13, <1>14, <2>2 DEF del_proxy
    <3>2. k \in DOMAIN list
      BY <1>14
    <3>3. \A i \in DOMAIN RemoveAt(list, k) :
            /\ i \in Nat
            /\ \/ i < k /\ i \in DOMAIN list /\ RemoveAt(list, k)[i] = list[i]
               \/ /\ i >= k /\ i + 1 \in DOMAIN list
                  /\ RemoveAt(list, k)[i] = list[i + 1]
      BY <1>13, <3>2, RemoveFacts
    <3> QED
      BY <3>1, <3>3
  <2> QED
    BY <2>1, <2>2
<1>16. \A i, j \in DOMAIN list : list[i].game_id = list[j].game_id => i = j
  BY <1>3 DEF GameInv, ListedOnce
<1>17. ASSUME NEW i \in DOMAIN m_SceneProxyList'
       PROVE  m_SceneProxyList'[i].game_id # g0
  <2>1. CASE m_SceneProxyList' = list /\ at = {}
    BY <1>14, <1>17, <2>1
  <2>2. ASSUME NEW k \in at,
               \/ i < k /\ i \in DOMAIN list /\ m_SceneProxyList'[i] = list[i]
               \/ /\ i >= k /\ i + 1 \in DOMAIN list
                  /\ m_SceneProxyList'[i] = list[i + 1]
        PROVE  m_SceneProxyList'[i].game_id # g0
    <3>1. k \in DOMAIN list /\ list[k].game_id = g0 /\ k \in Nat
      BY <1>13, <1>14
    <3>2. i \in Nat
      BY <1>17 DEF Types
    <3> QED
      BY <1>16, <2>2, <3>1, <3>2
  <2> QED
    BY <1>15, <2>1, <2>2
<1>18. ListedOnce'
  <2> SUFFICES ASSUME NEW i \in DOMAIN m_SceneProxyList',
                      NEW j \in DOMAIN m_SceneProxyList',
                      m_SceneProxyList'[i].game_id = m_SceneProxyList'[j].game_id
               PROVE  i = j
    BY DEF ListedOnce
  <2>1. CASE m_SceneProxyList' = list /\ at = {}
    BY <1>16, <2>1
  <2>2. ASSUME NEW k \in at,
               \A l \in DOMAIN m_SceneProxyList' :
                 /\ l \in Nat
                 /\ \/ l < k /\ l \in DOMAIN list /\ m_SceneProxyList'[l] = list[l]
                    \/ /\ l >= k /\ l + 1 \in DOMAIN list
                       /\ m_SceneProxyList'[l] = list[l + 1]
        PROVE  i = j
    <3>1. k \in Nat
      BY <1>13, <1>14
    <3>2. PICK y \in DOMAIN list : /\ m_SceneProxyList'[i] = list[y]
                                   /\ (i < k /\ y = i) \/ (i >= k /\ y = i + 1)
      BY <2>2
    <3>3. PICK z \in DOMAIN list : /\ m_SceneProxyList'[j] = list[z]
                                   /\ (j < k /\ z = j) \/ (j >= k /\ z = j + 1)
      BY <2>2
    <3>4. y = z
      BY <1>16, <3>2, <3>3
    <3> QED
      BY <2>2, <3>1, <3>2, <3>3, <3>4
  <2> QED
    BY <1>15, <2>1, <2>2
<1>19. ASSUME NEW g \in Nat, NEW n \in Nat, ListedWith(g, n)'
       PROVE  ListedWith(g, n) /\ g # g0
  <2>1. PICK i \in DOMAIN m_SceneProxyList' :
          /\ m_SceneProxyList'[i].game_id = g
          /\ m_SceneProxyList'[i].playercnt = n
    BY <1>19 DEF ListedWith
  <2>2. \E k \in DOMAIN list : m_SceneProxyList'[i] = list[k]
    BY <1>15
  <2> QED
    BY <1>3, <1>17, <2>1, <2>2 DEF ListedWith
<1>20. ASSUME NEW g \in Nat
       PROVE  g \in DOMAIN m_Players => m_Players'[g] \subseteq Members(g)
  BY <1>12, MembersFacts
<1>21. ASSUME NEW g \in Nat, g # g0
       PROVE  Game(g)' /\ StaysOff(g)
  <2>1. GAMEID <= GAMEID'
    BY <1>12 DEF GameInv, Types
  <2> QED
    BY <1>4, <1>10, <1>11, <1>12, <1>19, <1>20, <1>21, <2>1, Untouched DEF GameInv
<1>22. Members(g0)' \subseteq Members(g0)
  BY <1>5, <1>10, <1>11, <1>12, MembersFacts
<1>23. Game(g0)'
  <2>1. ~SceneHas("new_game", g0)'
    BY <1>7, <1>10, <1>11 DEF SceneHas
  <2>2. Given(g0)'
    BY <1>7, <1>12 DEF Given
  <2>3. Creating(g0)' /\ Created(g0)'
    BY <1>6, <2>1 DEF Creating, Created
  <2>4. OnList(g0)'
    BY <1>5, <1>19 DEF OnList
  <2>5. AtMost(Members(g0), MaxPlayers)'
    <3>1. MaxPlayers \in Nat /\ MaxPlayers <= MaxPlayers
      BY GameLifeAssumption
    <3>2. AtMost(Members(g0)', MaxPlayers)
      BY <1>7, <1>22, <3>1, AtMostSubset DEF Game
    <3> QED
      BY <3>2 DEF AtMost
  <2> QED
    BY <2>2, <2>3, <2>4, <2>5 DEF Game
<1>24. StaysOff(g0)
  BY <1>5, <1>6, <1>12, <1>19, <1>22, ListedFacts, OffListFacts DEF StaysOff, GameInv
<1> QED
  BY <1>4, <1>11, <1>18, <1>21, <1>23, <1>24 DEF GameInv

(* A service creates a game, and answers.                                   *)
LEMMA Step_new_game ==
  ASSUME GameInv, Types', NEW s \in Scenes, new_game(s)
  PROVE  GameInv' /\ \A g \in Nat : StaysOff(g)
<1>1. PICK m : m = Head(sceneq[s])
  OBVIOUS
<1>2. PICK g0 : g0 = m.game_id
  OBVIOUS
<1>3. /\ m \in InScenes /\ m \in SceneMsgs /\ m.cmd = "new_game"
      /\ InScenes' \subseteq InScenes /\ CreatedOnce'
  BY <1>1, SceneTaken DEF new_game, Receives, GameInv
<1>4. g0 \in Nat /\ m \in MgrMsgs
  BY <1>2, <1>3, Fields
<1>5. ~SceneHas("new_game", g0)'
  BY <1>1, <1>2, <1>3, <1>4, SceneTaken DEF new_game, Receives, GameInv
<1>6. SceneHas("new_game", g0)
  BY <1>2, <1>3 DEF SceneHas
<1>7. /\ Game(g0) /\ g0 <= GAMEID
      /\ ~MgrHas("new_game", g0) /\ ~MgrHas("game_over", g0)
      /\ ~SceneHas("game_over", g0)
      /\ Members(g0) = {} /\ g0 \notin DOMAIN m_Players
  BY <1>4, <1>6 DEF GameInv, Game, Given, Creating
<1>8. g0 \notin checking
  BY <1>7 DEF GameInv, Types
<1>9. mgrq' \in Answer(mgrq, m)
  BY <1>1 DEF new_game
<1>10. Range(mgrq)' = Range(mgrq) \cup {m} /\ AnsweredFirst'
  BY <1>2, <1>3, <1>4, <1>7, <1>9, MgrAnswered DEF GameInv
<1>11. /\ UNCHANGED <<GAMEID, m_SceneProxyList>>
       /\ checking' = checking \cup {g0}
       /\ DOMAIN m_Players' = DOMAIN m_Players \cup {g0}
       /\ m_Players'[g0] = {}
       /\ \A g \in DOMAIN m_Players : g # g0 => m_Players'[g] = m_Players[g]
  BY <1>1, <1>2 DEF new_game
<1>12. ASSUME NEW g \in Nat, NEW n \in Nat, ListedWith(g, n)'
       PROVE  ListedWith(g, n)
  BY <1>11, <1>12 DEF ListedWith
<1>13. \A n \in Nat : ~ListedWith(g0, n)
  BY <1>4, <1>7, <1>8 DEF Game, OnList
<1>14. ASSUME NEW g \in Nat, g # g0
       PROVE  Game(g)' /\ StaysOff(g)
  <2>1. g \in DOMAIN m_Players => m_Players'[g] \subseteq Members(g)
    BY <1>11, <1>14, MembersFacts
  <2>2. GAMEID <= GAMEID'
    BY <1>11 DEF GameInv, Types
  <2> QED
    BY <1>2, <1>3, <1>10, <1>11, <1>12, <1>14, <2>1, <2>2, Untouched DEF GameInv
<1>15. Members(g0)' = {}
  <2>1. \A y : y \notin Members(g0)'
    BY <1>3, <1>4, <1>7, <1>11, MembersFacts
  <2> QED
    BY <2>1
<1>16. Game(g0)'
  <2>1. ~SceneHas("game_over", g0)'
    BY <1>3, <1>7 DEF SceneHas
  <2>2. Given(g0)'
    BY <1>7, <1>11 DEF Given
  <2>3. Creating(g0)'
    BY <1>5 DEF Creating
  <2>4. Created(g0)'
    BY <1>4, <1>11, <1>12, <1>13, <1>15, <2>1 DEF Created
  <2>5. OnList(g0)'
    BY <1>4, <1>12, <1>13 DEF OnList
  <2>6. AtMost(Members(g0), MaxPlayers)'
    BY <1>15, Nobody DEF AtMost
  <2> QED
    BY <2>2, <2>3, <2>4, <2>5, <2>6 DEF Game
<1>17. StaysOff(g0)
  BY <1>4, <1>7, OffListFacts DEF StaysOff
<1>18. ListedOnce'
  BY <1>11 DEF GameInv, ListedOnce
<1> QED
  BY <1>3, <1>10, <1>14, <1>16, <1>17, <1>18 DEF GameInv

(* A game asks to be taken off the list.                                    *)
LEMMA Step_check_over ==
  ASSUME GameInv, Types', NEW g0 \in checking, check_over(g0)
  PROVE  GameInv' /\ \A g \in Nat : StaysOff(g)
<1>1. PICK x : x = AboutGame("game_over", g0)
  OBVIOUS
<1>2. g0 \in Nat /\ g0 \in DOMAIN m_Players
  BY DEF GameInv, Types
<1>3. x \in MgrMsgs /\ x.cmd = "game_over" /\ x.game_id = g0
  BY <1>1, <1>2, Messages
<1>4. /\ mgrq' = Append(mgrq, x)
      /\ UNCHANGED <<GAMEID, m_SceneProxyList, m_Players, checking, sceneq>>
  BY <1>1 DEF check_over, sceneVars
<1>5. Range(mgrq)' = Range(mgrq) \cup {x} /\ AnsweredFirst'
  BY <1>3, <1>4, MgrSent DEF GameInv
<1>6. InScenes' = InScenes /\ CreatedOnce' /\ ListedOnce'
  BY <1>4 DEF GameInv, InScenes, CreatedOnce, Creates, ListedOnce
<1>7. ASSUME NEW g \in Nat, NEW n \in Nat, ListedWith(g, n)'
      PROVE  ListedWith(g, n)
  BY <1>4, <1>7 DEF ListedWith
<1>8. ASSUME NEW g \in Nat, g # g0
      PROVE  Game(g)' /\ StaysOff(g)
  <2>1. g \in DOMAIN m_Players => m_Players'[g] \subseteq Members(g)
    BY <1>4, MembersFacts
  <2>2. GAMEID <= GAMEID'
    BY <1>4 DEF GameInv, Types
  <2> QED
    BY <1>3, <1>4, <1>5, <1>6, <1>7, <1>8, <2>1, <2>2, Untouched DEF GameInv
<1>9. Members(g0)' \subseteq Members(g0)
  BY <1>2, <1>4, <1>6, MembersFacts
<1>10. Game(g0) /\ g0 <= GAMEID /\ ~SceneHas("new_game", g0)
  BY <1>2 DEF GameInv, Game, Given, Creating
<1>11. MgrHas("new_game", g0)' => MgrHas("new_game", g0)
  BY <1>3, <1>5 DEF MgrHas
<1>12. Game(g0)'
  <2>1. \A cmd : SceneHas(cmd, g0)' => SceneHas(cmd, g0)
    BY <1>6 DEF SceneHas
  <2>2. \A k \in Nat : AtMost(Members(g0), k) => AtMost(Members(g0)', k)
    BY <1>9, AtMostSubset
  <2>3. Given(g0)'
    BY <1>4, <1>10 DEF Given
  <2>4. Creating(g0)'
    BY <1>10, <2>1 DEF Creating
  <2>5. Created(g0)'
    BY <1>4, <1>7, <1>9, <1>10, <1>11, <2>1, <1>2 DEF Game, Created
  <2>6. OnList(g0)'
    BY <1>2, <1>4, <1>7, <1>10, <2>1, <2>2 DEF Game, OnList, AtMost
  <2>7. AtMost(Members(g0), MaxPlayers)'
    BY <1>10, <2>2, GameLifeAssumption DEF Game, AtMost
  <2> QED
    BY <2>3, <2>4, <2>5, <2>6, <2>7 DEF Game
<1>13. StaysOff(g0)
  BY <1>2, <1>4, <1>7, <1>9, <1>11, ListedFacts, OffListFacts DEF StaysOff, GameInv
<1> QED
  BY <1>5, <1>6, <1>8, <1>12, <1>13 DEF GameInv

(* The timer is removed: the game was taken off the list before.            *)
LEMMA Step_game_over_answer ==
  ASSUME GameInv, Types', NEW s \in Scenes, game_over_answer(s)
  PROVE  GameInv' /\ \A g \in Nat : StaysOff(g)
<1>1. PICK m : m = Head(sceneq[s])
  OBVIOUS
<1>2. PICK g0 : g0 = m.game_id
  OBVIOUS
<1>3. /\ m \in InScenes /\ m \in SceneMsgs /\ m.cmd = "game_over"
      /\ InScenes' \subseteq InScenes /\ CreatedOnce'
  BY <1>1, SceneTaken DEF game_over_answer, Receives, GameInv
<1>4. g0 \in Nat
  BY <1>2, <1>3, Fields
<1>5. SceneHas("game_over", g0)
  BY <1>2, <1>3 DEF SceneHas
<1>6. /\ UNCHANGED <<mgrq, GAMEID, m_SceneProxyList, m_Players>>
      /\ checking' = checking \ {g0}
  BY <1>1, <1>2 DEF game_over_answer, mgrVars
<1>7. AnsweredFirst' /\ ListedOnce'
  BY <1>6 DEF GameInv, AnsweredFirst, Mgr, ListedOnce
<1>8. ASSUME NEW g \in Nat, NEW n \in Nat, ListedWith(g, n)'
      PROVE  ListedWith(g, n)
  BY <1>6, <1>8 DEF ListedWith
<1>9. ASSUME NEW g \in Nat
      PROVE  g \in DOMAIN m_Players => m_Players'[g] \subseteq Members(g)
  BY <1>6, MembersFacts
<1>10. ASSUME NEW g \in Nat, g # g0
       PROVE  Game(g)' /\ StaysOff(g)
  <2>1. GAMEID <= GAMEID'
    BY <1>6 DEF GameInv, Types
  <2> QED
    BY <1>3, <1>6, <1>8, <1>9, <1>10, <2>1, Untouched DEF GameInv
<1>11. /\ Game(g0) /\ g0 <= GAMEID
       /\ ~SceneHas("new_game", g0) /\ ~MgrHas("new_game", g0)
       /\ \A n \in Nat : ~ListedWith(g0, n)
  BY <1>4, <1>5 DEF GameInv, Game, Given, Creating, Created, OnList
<1>12. Members(g0)' \subseteq Members(g0)
  BY <1>3, <1>4, <1>6, MembersFacts
<1>13. ~MgrHas("new_game", g0)'
  BY <1>6, <1>11 DEF MgrHas
<1>14. Game(g0)'
  <2>1. ~SceneHas("new_game", g0)'
    BY <1>3, <1>11 DEF SceneHas
  <2>2. Given(g0)'
    BY <1>6, <1>11 DEF Given
  <2>3. Creating(g0)' /\ Created(g0)'
    BY <1>13, <2>1 DEF Creating, Created
  <2>4. OnList(g0)'
    BY <1>4, <1>8, <1>11 DEF OnList
  <2>5. AtMost(Members(g0), MaxPlayers)'
    <3>1. MaxPlayers \in Nat /\ MaxPlayers <= MaxPlayers
      BY GameLifeAssumption
    <3>2. AtMost(Members(g0)', MaxPlayers)
      BY <1>11, <1>12, <3>1, AtMostSubset DEF Game
    <3> QED
      BY <3>2 DEF AtMost
  <2> QED
    BY <2>2, <2>3, <2>4, <2>5 DEF Game
<1>15. StaysOff(g0)
  BY <1>4, <1>6, <1>8, <1>12, <1>13, ListedFacts, OffListFacts DEF StaysOff, GameInv
<1> QED
  BY <1>3, <1>7, <1>10, <1>14, <1>15 DEF GameInv

-----------------------------------------------------------------------------
LEMMA GameInit == Init => GameInv
<1> SUFFICES ASSUME Init
             PROVE  GameInv
  OBVIOUS
<1>1. Types
  BY DEF Init, Types
<1>2. /\ DOMAIN m_Players = {} /\ m_SceneProxyList = <<>>
      /\ Range(mgrq) = {} /\ InScenes = {}
      /\ \A s \in Scenes : DOMAIN sceneq[s] = {}
      /\ DOMAIN mgrq = {}
  BY DEF Init, Range, InScenes
<1>3. ASSUME NEW g \in Nat
      PROVE  Game(g)
  <2>1. /\ \A cmd : ~MgrHas(cmd, g) /\ ~SceneHas(cmd, g)
        /\ \A n : ~ListedWith(g, n)
    BY <1>2 DEF MgrHas, SceneHas, ListedWith
  <2>2. Members(g) = {}
    BY <1>2 DEF Members, Entrants
  <2> QED
    BY <1>2, <2>1, <2>2, Nobody DEF Game, Given, Creating, Created, OnList
<1> QED
  BY <1>1, <1>2, <1>3
     DEF GameInv, ListedOnce, CreatedOnce, Creates, AnsweredFirst, Mgr

LEMMA GameStep ==
  GameInv /\ [Next]_vars => GameInv' /\ \A g \in Nat : StaysOff(g)
<1> SUFFICES ASSUME GameInv, [Next]_vars
             PROVE  GameInv' /\ \A g \in Nat : StaysOff(g)
  OBVIOUS
<1>1. Types'
  BY TypesStep DEF GameInv
<1>2. ASSUME NEW pid \in Pids, Connect(pid) \/ Disconnect(pid) \/ Agent(pid)
      PROVE  GameInv' /\ \A g \in Nat : StaysOff(g)
  BY <1>1, <1>2, QuietAgents DEF Agent
<1>3. CASE SceneMgr
  BY <1>1, <1>3, Step_enter_player, Step_new_proxy, Step_new_game_answer,
     Step_mgr_game_over DEF SceneMgr
<1>4. ASSUME NEW s \in Scenes, SceneService(s)
      PROVE  GameInv' /\ \A g \in Nat : StaysOff(g)
  BY <1>1, <1>4, Step_new_game, Step_game_over_answer, QuietPlayers
     DEF SceneService
<1>5. ASSUME NEW game_id \in checking, check_over(game_id)
      PROVE  GameInv' /\ \A g \in Nat : StaysOff(g)
  BY <1>1, <1>5, Step_check_over
<1>6. CASE UNCHANGED vars
  <2>1. /\ UNCHANGED <<GAMEID, checking, m_SceneProxyList, m_Players, mgrq, sceneq>>
        /\ InScenes' = InScenes
    BY <1>6 DEF vars, mgrVars, sceneVars, InScenes
  <2>2. CreatedOnce' /\ AnsweredFirst'
    BY <2>1 DEF GameInv, CreatedOnce, Creates, AnsweredFirst, Mgr
  <2>3. \A g \in DOMAIN m_Players : m_Players'[g] \subseteq Members(g)
    BY <2>1, MembersFacts DEF GameInv, Types
  <2> QED
    BY <1>1, <2>1, <2>2, <2>3, QuietStep
<1> QED
  BY <1>2, <1>3, <1>4, <1>5, <1>6 DEF Next

(* Every game is in one of its stages, and SCENE_MGR has it on its list, or *)
(* an answer that will list it, once at most.                               *)
THEOREM GameInvariant == Spec => []GameInv
  BY GameInit, GameStep, PTL DEF Spec

LEMMA GamesAreNumbers == Games \subseteq Nat
  BY GameLifeAssumption DEF Games

(* However entries wait for new games and cross with game_over calls, no    *)
(* game gets more players than it has room for.                             *)
THEOREM RoomKept == Spec => []NoGameOverfull
<1>1. GameInv => NoGameOverfull
  BY GamesAreNumbers DEF GameInv, Game, AtMost, NoGameOverfull
<1> QED
  BY <1>1, GameInvariant, PTL

(* A game that players can still be sent to has its CheckOver timer.        *)
THEOREM TimersKept == Spec => []ListedGamesAreChecked
<1>1. GameInv => ListedGamesAreChecked
  <2> SUFFICES ASSUME GameInv, NEW g \in Listed
               PROVE  g \in checking
    BY DEF ListedGamesAreChecked
  <2>1. PICK i \in DOMAIN m_SceneProxyList : m_SceneProxyList[i].game_id = g
    BY DEF Listed
  <2>2. m_SceneProxyList[i] \in Proxies
    BY DEF GameInv, Types
  <2>3. g \in Nat
    BY <2>1, <2>2 DEF Proxies
  <2> QED
    BY <2>3, ListedFacts DEF GameInv, Game, OnList
<1> QED
  BY <1>1, GameInvariant, PTL

(* A game that has gone off the list gets nobody any more and is never      *)
(* listed again.                                                            *)
THEOREM OffListFinal == Spec => OffListIsFinal
<1>1. GameInv /\ [Next]_vars
        => [\A g \in Games : OffList(g) => OffList(g)' /\ Members(g)' \subseteq Members(g)]_vars
  BY GameStep, GamesAreNumbers DEF StaysOff
<1> QED
  BY <1>1, GameInvariant, PTL DEF Spec, OffListIsFinal

-----------------------------------------------------------------------------
(* Players.  A game has a player for good when it is in the game, or enters *)
(* it, and no leave follows.                                                *)
Enters(q, i, g, pid) ==
  /\ q[i].cmd = "enter_player" /\ q[i].game_id = g /\ q[i].pid = pid

Leaves(q, i, g, pid) ==
  /\ q[i].cmd = "leave_player" /\ q[i].game_id = g /\ q[i].pid = pid

NoLeave(q, g, pid) == \A i \in DOMAIN q : ~Leaves(q, i, g, pid)

EntersLast(q, g, pid) ==
  \E i \in DOMAIN q :
    /\ Enters(q, i, g, pid)
    /\ \A j \in DOMAIN q : Leaves(q, j, g, pid) => j < i

HasPlayer(g, pid) ==
  LET q == sceneq[get_scene_service(g)]
  IN  \/ EntersLast(q, g, pid)
      \/ /\ g \in DOMAIN m_Players /\ pid \in m_Players[g]
         /\ NoLeave(q, g, pid)

(* The game that an agent sends a player's controls to, or will when it has *)
(* taken the answer.                                                        *)
Claims(pid, g) ==
  /\ playerlist[pid] # nil
  /\ \/ playerlist[pid].m_GameID = g
     \/ \E m \in Range(agentq[pid]) :
          m.cmd = "entering" /\ m.game_id = g /\ m.fd = playerlist[pid].m_FD

ClaimsHold == \A pid \in Pids, g \in Nat : Claims(pid, g) => HasPlayer(g, pid)

(* Messages about a game are at its service, and those who enter find it.   *)
AtItsService ==
  \A s \in Scenes : \A i \in DOMAIN sceneq[s] :
    get_scene_service(sceneq[s][i].game_id) = s

EntrantsFindGame == \A g \in Nat : SceneHas("enter_player", g) => g \in DOMAIN m_Players

(* The login over fd was started: its call or the answer is on its way.     *)
Started(pid, fd) ==
  \/ \E m \in Range(agentq[pid]) : m.cmd = "entering" /\ m.fd = fd
  \/ \E m \in Range(mgrq) :
       m.cmd \in {"enter_player", "new_game"} /\ m.pid = pid /\ m.fd = fd
  \/ \E m \in InScenes : m.cmd = "new_game" /\ m.pid = pid /\ m.fd = fd

ToStart(pid, i, fd) ==
  /\ i \in DOMAIN agentq[pid]
  /\ agentq[pid][i].cmd = "start" /\ agentq[pid][i].fd = fd

(* A login is started once.                                                 *)
StartedOnce ==
  \A pid \in Pids, fd \in Nat :
    /\ Started(pid, fd) => fd <= nfd
    /\ \A i \in Nat :
         ToStart(pid, i, fd) =>
           /\ fd <= nfd /\ ~Started(pid, fd)
           /\ \A j \in Nat : ToStart(pid, j, fd) => i = j

(* What the steps of a player's life keep.                                  *)
PlayersInv ==
  GameInv /\ AtItsService /\ EntrantsFindGame /\ StartedOnce /\ ClaimsHold

LEMMA LastInTail ==
  ASSUME NEW S, NEW q \in Seq(S), q # <<>>, NEW g, NEW pid
  PROVE  /\ NoLeave(q, g, pid) => NoLeave(Tail(q), g, pid) /\ ~Leaves(q, 1, g, pid)
         /\ EntersLast(q, g, pid) =>
              \/ EntersLast(Tail(q), g, pid)
              \/ Enters(q, 1, g, pid) /\ NoLeave(Tail(q), g, pid)
<1>1. /\ 1 \in DOMAIN q
      /\ \A i \in DOMAIN Tail(q) :
           i \in Nat /\ i + 1 \in DOMAIN q /\ Tail(q)[i] = q[i + 1]
  BY TailFacts
<1>2. ASSUME NEW i \in DOMAIN q, i # 1
      PROVE  i - 1 \in DOMAIN Tail(q) /\ Tail(q)[i - 1] = q[i] /\ i \in Nat
  BY <1>2
<1>3. \A i \in DOMAIN Tail(q) : i \in Nat /\ i # 0
  OBVIOUS
<1>4. ASSUME NoLeave(q, g, pid)
      PROVE  NoLeave(Tail(q), g, pid) /\ ~Leaves(q, 1, g, pid)
  BY <1>1, <1>4 DEF NoLeave, Leaves
<1>5. ASSUME NEW i \in DOMAIN q, Enters(q, i, g, pid),
             \A j \in DOMAIN q : Leaves(q, j, g, pid) => j < i
      PROVE  \/ EntersLast(Tail(q), g, pid)
             \/ Enters(q, 1, g, pid) /\ NoLeave(Tail(q), g, pid)
  <2>1. CASE i = 1
    <3>1. \A j \in DOMAIN Tail(q) : ~Leaves(Tail(q), j, g, pid)
      BY <1>1, <1>3, <1>5, <2>1 DEF Leaves
    <3> QED
      BY <1>5, <2>1, <3>1 DEF NoLeave
  <2>2. CASE i # 1
    <3>1. i - 1 \in DOMAIN Tail(q) /\ Tail(q)[i - 1] = q[i] /\ i \in Nat
      BY <1>2, <2>2
    <3>2. \A j \in DOMAIN Tail(q) : Leaves(Tail(q), j, g, pid) => j < i - 1
      BY <1>1, <1>5, <3>1 DEF Leaves
    <3> QED
      BY <1>5, <3>1, <3>2 DEF EntersLast, Enters
  <2> QED
    BY <2>1, <2>2
<1> QED
  BY <1>4, <1>5 DEF EntersLast

LEMMA LastInAppend ==
  ASSUME NEW S, NEW q \in Seq(S), NEW m \in S, NEW g, NEW pid,
         ~(m.cmd = "leave_player" /\ m.game_id = g /\ m.pid = pid)
  PROVE  /\ NoLeave(q, g, pid) => NoLeave(Append(q, m), g, pid)
         /\ EntersLast(q, g, pid) => EntersLast(Append(q, m), g, pid)
         /\ m.cmd = "enter_player" /\ m.game_id = g /\ m.pid = pid
              => EntersLast(Append(q, m), g, pid)
<1> DEFINE r == Append(q, m)
           n == Len(q) + 1
<1>1. /\ \A i \in DOMAIN q : i \in Nat /\ i < n /\ i \in DOMAIN r /\ r[i] = q[i]
      /\ n \in DOMAIN r /\ r[n] = m
      /\ \A i \in DOMAIN r : i \in Nat /\ (i \in DOMAIN q \/ i = n)
  OBVIOUS
<1> HIDE DEF r, n
<1>2. \A j \in DOMAIN r : Leaves(r, j, g, pid)
                             => j \in DOMAIN q /\ Leaves(q, j, g, pid)
  BY <1>1 DEF Leaves
<1>3. NoLeave(q, g, pid) => NoLeave(r, g, pid)
  BY <1>2 DEF NoLeave
<1>4. EntersLast(q, g, pid) => EntersLast(r, g, pid)
  BY <1>1, <1>2 DEF EntersLast, Enters
<1>5. m.cmd = "enter_player" /\ m.game_id = g /\ m.pid = pid
        => EntersLast(r, g, pid)
  BY <1>1, <1>2 DEF EntersLast, Enters
<1> QED
  BY <1>3, <1>4, <1>5 DEF r

LEMMA LastInAnswer ==
  ASSUME NEW S, NEW q \in Seq(S), NEW m \in S, m.cmd = "game_over",
         NEW r \in Answer(q, m), NEW g, NEW pid
  PROVE  /\ NoLeave(q, g, pid) => NoLeave(r, g, pid)
         /\ EntersLast(q, g, pid) => EntersLast(r, g, pid)
<1>1. PICK k \in Nat : GotIn(q, m, r, k)
  BY AnswerFacts
<1>2. ASSUME NEW j \in DOMAIN r, Leaves(r, j, g, pid)
      PROVE  \/ j < k /\ j \in DOMAIN q /\ Leaves(q, j, g, pid)
             \/ j > k /\ j - 1 \in DOMAIN q /\ Leaves(q, j - 1, g, pid)
  BY <1>1, <1>2 DEF Leaves, GotIn
<1>3. NoLeave(q, g, pid) => NoLeave(r, g, pid)
  BY <1>2 DEF NoLeave
<1>4. ASSUME NEW i \in DOMAIN q, Enters(q, i, g, pid),
             \A j \in DOMAIN q : Leaves(q, j, g, pid) => j < i
      PROVE  EntersLast(r, g, pid)
  <2>1. PICK x \in DOMAIN r : /\ r[x] = q[i]
                              /\ (i < k /\ x = i) \/ (i >= k /\ x = i + 1)
    BY <1>1 DEF GotIn
  <2>2. \A j \in DOMAIN r : Leaves(r, j, g, pid) => j < x
    BY <1>1, <1>2, <1>4, <2>1 DEF GotIn
  <2> QED
    BY <1>4, <2>1, <2>2 DEF EntersLast, Enters
<1> QED
  BY <1>3, <1>4 DEF EntersLast

(* What becomes of a game's players when its service takes a message.       *)
LEMMA PlayerTaken ==
  ASSUME Types, AtItsService, NEW s \in Scenes, sceneq[s] # <<>>,
         NEW h, h = Head(sceneq[s]),
         sceneq' = [sceneq EXCEPT ![s] = Tail(@)],
         NEW g \in Nat, NEW pid, HasPlayer(g, pid),
         g \in DOMAIN m_Players /\ pid \in m_Players[g] =>
           \/ g \in DOMAIN m_Players' /\ pid \in m_Players'[g]
           \/ h.cmd = "leave_player" /\ h.game_id = g /\ h.pid = pid,
         h.cmd = "enter_player" /\ h.game_id = g /\ h.pid = pid =>
           g \in DOMAIN m_Players' /\ pid \in m_Players'[g]
  PROVE  HasPlayer(g, pid)'
<1> DEFINE t == get_scene_service(g)
<1>1. t \in Scenes
  BY ServiceIsScene
<1>2. /\ sceneq[s] \in Seq(SceneMsgs)
      /\ sceneq'[s] = Tail(sceneq[s])
      /\ \A u \in Scenes : u # s => sceneq'[u] = sceneq[u]
  BY DEF Types
<1>3. 1 \in DOMAIN sceneq[s] /\ h = sceneq[s][1]
  BY <1>2, TailFacts
<1>4. get_scene_service(h.game_id) = s
  BY <1>3 DEF AtItsService
<1>5. /\ HasPlayer(g, pid) <=>
           \/ EntersLast(sceneq[t], g, pid)
           \/ g \in DOMAIN m_Players /\ pid \in m_Players[g] /\ NoLeave(sceneq[t], g, pid)
      /\ HasPlayer(g, pid)' <=>
           \/ EntersLast(sceneq'[t], g, pid)
           \/ g \in DOMAIN m_Players' /\ pid \in m_Players'[g]
                /\ NoLeave(sceneq'[t], g, pid)
  BY DEF HasPlayer
<1>6. CASE t = s
  <2>1. /\ NoLeave(sceneq[s], g, pid)
             => NoLeave(sceneq'[s], g, pid) /\ ~Leaves(sceneq[s], 1, g, pid)
        /\ EntersLast(sceneq[s], g, pid) =>
             \/ EntersLast(sceneq'[s], g, pid)
             \/ Enters(sceneq[s], 1, g, pid) /\ NoLeave(sceneq'[s], g, pid)
    BY <1>2, LastInTail
  <2> QED
    BY <1>3, <1>5, <1>6, <2>1 DEF Enters, Leaves
<1>7. CASE t # s
  <2>1. h.game_id # g
    BY <1>4, <1>7
  <2> QED
    BY <1>1, <1>2, <1>5, <1>7, <2>1
<1> QED
  BY <1>6, <1>7

LEMMA ServiceTaken ==
  ASSUME Types, AtItsService, NEW s \in Scenes, sceneq[s] # <<>>,
         sceneq' = [sceneq EXCEPT ![s] = Tail(@)]
  PROVE  AtItsService'
<1>1. /\ sceneq[s] \in Seq(SceneMsgs)
      /\ sceneq'[s] = Tail(sceneq[s])
      /\ \A u \in Scenes : u # s => sceneq'[u] = sceneq[u]
  BY DEF Types
<1>2. \A i \in DOMAIN Tail(sceneq[s]) :
        i + 1 \in DOMAIN sceneq[s] /\ Tail(sceneq[s])[i] = sceneq[s][i + 1]
  BY <1>1, TailFacts
<1> QED
  BY <1>1, <1>2 DEF AtItsService

(* And when a message is sent to it.                                        *)
LEMMA PlayerSent ==
  ASSUME Types, AtItsService, NEW m \in SceneMsgs, m.game_id \in Nat,
         sceneq' = SendScene(sceneq, m), UNCHANGED m_Players
  PROVE  /\ AtItsService'
         /\ \A g \in Nat : \A pid :
              \/ m.cmd = "leave_player" /\ m.game_id = g /\ m.pid = pid
              \/ /\ HasPlayer(g, pid) => HasPlayer(g, pid)'
                 /\ m.cmd = "enter_player" /\ m.game_id = g /\ m.pid = pid
                      => HasPlayer(g, pid)'
<1> DEFINE s == get_scene_service(m.game_id)
<1>1. s \in Scenes
  BY ServiceIsScene
<1>2. sceneq' = [sceneq EXCEPT ![s] = Append(@, m)]
  BY DEF SendScene
<1>3. s = get_scene_service(m.game_id)
  OBVIOUS
<1> HIDE DEF s
<1>4. /\ sceneq[s] \in Seq(SceneMsgs)
      /\ sceneq'[s] = Append(sceneq[s], m)
      /\ \A u \in Scenes : u # s => sceneq'[u] = sceneq[u]
  BY <1>1, <1>2 DEF Types
<1>5. AtItsService'
  <2>1. \A i \in DOMAIN Append(sceneq[s], m) :
          \/ i \in DOMAIN sceneq[s] /\ Append(sceneq[s], m)[i] = sceneq[s][i]
          \/ i = Len(sceneq[s]) + 1 /\ Append(sceneq[s], m)[i] = m
    BY <1>4, AppendFacts
  <2>2. ASSUME NEW i \in DOMAIN sceneq'[s]
        PROVE  get_scene_service(sceneq'[s][i].game_id) = s
    <3>1. CASE i \in DOMAIN sceneq[s] /\ sceneq'[s][i] = sceneq[s][i]
      BY <1>1, <3>1 DEF AtItsService
    <3>2. CASE sceneq'[s][i] = m
      BY <1>3, <3>2
    <3> QED
      BY <1>4, <2>1, <2>2, <3>1, <3>2
  <2>3. ASSUME NEW u \in Scenes, u # s, NEW i \in DOMAIN sceneq'[u]
        PROVE  get_scene_service(sceneq'[u][i].game_id) = u
    BY <1>4, <2>3 DEF AtItsService
  <2>4. \A g : get_scene_service(g)' = get_scene_service(g)
    BY DEF get_scene_service
  <2> QED
    BY <2>2, <2>3, <2>4 DEF AtItsService
<1>6. ASSUME NEW g \in Nat, NEW pid,
             ~(m.cmd = "leave_player" /\ m.game_id = g /\ m.pid = pid)
      PROVE  /\ HasPlayer(g, pid) => HasPlayer(g, pid)'
             /\ m.cmd = "enter_player" /\ m.game_id = g /\ m.pid = pid
                  => HasPlayer(g, pid)'
  <2> DEFINE t == get_scene_service(g)
  <2>1. t \in Scenes
    BY ServiceIsScene
  <2>2. /\ HasPlayer(g, pid) <=>
             \/ EntersLast(sceneq[t], g, pid)
             \/ g \in DOMAIN m_Players /\ pid \in m_Players[g] /\ NoLeave(sceneq[t], g, pid)
        /\ HasPlayer(g, pid)' <=>
             \/ EntersLast(sceneq'[t], g, pid)
             \/ g \in DOMAIN m_Players /\ pid \in m_Players[g] /\ NoLeave(sceneq'[t], g, pid)
    BY DEF HasPlayer
  <2>3. m.game_id = g => t = s
    BY <1>3
  <2> HIDE DEF t
  <2>4. CASE t = s
    BY <1>4, <1>6, <2>2, <2>4, LastInAppend
  <2>5. CASE t # s
    BY <1>4, <2>1, <2>2, <2>3, <2>5
  <2> QED
    BY <2>4, <2>5
<1> QED
  BY <1>5, <1>6

(* And when the answer of a game_over gets to it.                           *)
LEMMA PlayerAnswered ==
  ASSUME Types, AtItsService, NEW m \in SceneMsgs, m.cmd = "game_over",
         NEW s, s = get_scene_service(m.game_id), m.game_id \in Nat,
         NEW mailbox \in Answer(sceneq[s], m),
         sceneq' = [sceneq EXCEPT ![s] = mailbox], UNCHANGED m_Players
  PROVE  /\ AtItsService'
         /\ \A g \in Nat : \A pid : HasPlayer(g, pid) => HasPlayer(g, pid)'
<1>1. s \in Scenes
  BY ServiceIsScene
<1>2. /\ sceneq[s] \in Seq(SceneMsgs)
      /\ sceneq'[s] = mailbox
      /\ \A u \in Scenes : u # s => sceneq'[u] = sceneq[u]
  BY <1>1 DEF Types
<1>3. AtItsService'
  <2>1. PICK k \in Nat : GotIn(sceneq[s], m, mailbox, k)
    BY <1>2, AnswerFacts
  <2>2. \A i \in DOMAIN mailbox :
          mailbox[i] = m \/ \E j \in DOMAIN sceneq[s] : mailbox[i] = sceneq[s][j]
    BY <2>1 DEF GotIn
  <2> QED
    BY <1>1, <1>2, <2>2 DEF AtItsService
<1>4. ASSUME NEW g \in Nat, NEW pid, HasPlayer(g, pid)
      PROVE  HasPlayer(g, pid)'
  <2> DEFINE t == get_scene_service(g)
  <2>1. t \in Scenes
    BY ServiceIsScene
  <2>2. /\ HasPlayer(g, pid) <=>
             \/ EntersLast(sceneq[t], g, pid)
             \/ g \in DOMAIN m_Players /\ pid \in m_Players[g] /\ NoLeave(sceneq[t], g, pid)
        /\ HasPlayer(g, pid)' <=>
             \/ EntersLast(sceneq'[t], g, pid)
             \/ g \in DOMAIN m_Players /\ pid \in m_Players[g] /\ NoLeave(sceneq'[t], g, pid)
    BY DEF HasPlayer
  <2> HIDE DEF t
  <2>3. CASE t = s
    BY <1>2, <1>4, <2>2, <2>3, LastInAnswer
  <2>4. CASE t # s
    BY <1>2, <1>4, <2>1, <2>2, <2>4
  <2> QED
    BY <2>3, <2>4
<1> QED
  BY <1>3, <1>4

(* The logins that wait in a player's mailbox keep their order when a       *)
(* message is taken or an answer gets in.                                   *)
Reads(pid) ==
  \/ agentq'[pid] = agentq[pid]
  \/ agentq[pid] # <<>> /\ agentq'[pid] = Tail(agentq[pid])
  \/ \E m \in AgentMsgs : m.cmd = "entering" /\ agentq'[pid] \in Answer(agentq[pid], m)

LEMMA LoginsWait ==
  ASSUME Types, NEW pid \in Pids, Reads(pid), NEW fd, NEW i \in Nat, NEW j \in Nat,
         ToStart(pid, i, fd)', ToStart(pid, j, fd)'
  PROVE  \E x, y \in Nat :
           ToStart(pid, x, fd) /\ ToStart(pid, y, fd) /\ (x = y => i = j)
<1>1. agentq[pid] \in Seq(AgentMsgs)
  BY DEF Types
<1>2. /\ i \in DOMAIN agentq'[pid] /\ agentq'[pid][i].cmd = "start"
      /\ agentq'[pid][i].fd = fd
      /\ j \in DOMAIN agentq'[pid] /\ agentq'[pid][j].cmd = "start"
      /\ agentq'[pid][j].fd = fd
  BY DEF ToStart
<1>3. CASE agentq'[pid] = agentq[pid]
  BY <1>2, <1>3 DEF ToStart
<1>4. CASE agentq[pid] # <<>> /\ agentq'[pid] = Tail(agentq[pid])
  <2>1. \A l \in DOMAIN Tail(agentq[pid]) :
          /\ l \in Nat /\ l + 1 \in DOMAIN agentq[pid]
          /\ Tail(agentq[pid])[l] = agentq[pid][l + 1]
    BY <1>1, <1>4, TailFacts
  <2>2. ToStart(pid, i + 1, fd) /\ ToStart(pid, j + 1, fd)
    BY <1>2, <1>4, <2>1 DEF ToStart
  <2> QED
    BY <2>2
<1>5. ASSUME NEW m \in AgentMsgs, m.cmd = "entering",
             agentq'[pid] \in Answer(agentq[pid], m)
      PROVE  \E x, y \in Nat :
               ToStart(pid, x, fd) /\ ToStart(pid, y, fd) /\ (x = y => i = j)
  <2>1. PICK k \in Nat : GotIn(agentq[pid], m, agentq'[pid], k)
    BY <1>1, <1>5, AnswerFacts
  <2>2. i # k /\ j # k
    BY <1>2, <1>5, <2>1 DEF GotIn
  <2>3. PICK x \in Nat : /\ ToStart(pid, x, fd)
                         /\ (i < k /\ x = i) \/ (i > k /\ x = i - 1)
    <3>1. i > k => i - 1 \in Nat
      OBVIOUS
    <3> QED
      BY <1>2, <2>1, <2>2, <3>1 DEF GotIn, ToStart
  <2>4. PICK y \in Nat : /\ ToStart(pid, y, fd)
                         /\ (j < k /\ y = j) \/ (j > k /\ y = j - 1)
    <3>1. j > k => j - 1 \in Nat
      OBVIOUS
    <3> QED
      BY <1>2, <2>1, <2>2, <3>1 DEF GotIn, ToStart
  <2>5. x = y => i = j
    BY <2>3, <2>4
  <2> QED
    BY <2>3, <2>4, <2>5
<1> QED
  BY <1>3, <1>4, <1>5 DEF Reads

LEMMA StartedKept ==
  ASSUME Types, StartedOnce, UNCHANGED nfd,
         \A pid \in Pids : Reads(pid),
         \A pid \in Pids, fd \in Nat :
           Started(pid, fd)' =>
             \/ Started(pid, fd)
             \/ fd <= nfd /\ \A i \in Nat : ~ToStart(pid, i, fd)'
  PROVE  StartedOnce'
<1>1. ASSUME NEW pid \in Pids, NEW fd \in Nat, Started(pid, fd)'
      PROVE  fd <= nfd
  BY <1>1 DEF StartedOnce
<1>2. ASSUME NEW pid \in Pids, NEW fd \in Nat, NEW i \in Nat, ToStart(pid, i, fd)'
      PROVE  /\ fd <= nfd /\ ~Started(pid, fd)'
             /\ \A j \in Nat : ToStart(pid, j, fd)' => i = j
  <2>1. \A j \in Nat : ToStart(pid, j, fd)' =>
          \E x, y \in Nat :
            ToStart(pid, x, fd) /\ ToStart(pid, y, fd) /\ (x = y => i = j)
    BY <1>2, LoginsWait
  <2>2. PICK z \in Nat : ToStart(pid, z, fd)
    BY <1>2, <2>1
  <2>3. /\ fd <= nfd /\ ~Started(pid, fd)
        /\ \A x, y \in Nat : ToStart(pid, x, fd) /\ ToStart(pid, y, fd) => x = y
    BY <2>2 DEF StartedOnce
  <2> QED
    BY <1>2, <2>1, <2>3
<1> QED
  BY <1>1, <1>2 DEF StartedOnce

LEMMA ClaimsKept ==
  ASSUME ClaimsHold,
         \A pid \in Pids, g \in Nat :
           Claims(pid, g)' => Claims(pid, g) /\ (HasPlayer(g, pid) => HasPlayer(g, pid)')
  PROVE  ClaimsHold'
  BY DEF ClaimsHold

(* Where a message about a login may be, for both states of a step.         *)
LEMMA StartedFacts ==
  \A pid \in Pids, fd \in Nat :
    /\ Started(pid, fd)' <=>
         \/ \E m \in Range(agentq'[pid]) : m.cmd = "entering" /\ m.fd = fd
         \/ \E m \in Range(mgrq)' :
              m.cmd \in {"enter_player", "new_game"} /\ m.pid = pid /\ m.fd = fd
         \/ \E m \in InScenes' : m.cmd = "new_game" /\ m.pid = pid /\ m.fd = fd
    /\ Started(pid, fd) <=>
         \/ \E m \in Range(agentq[pid]) : m.cmd = "entering" /\ m.fd = fd
         \/ \E m \in Range(mgrq) :
              m.cmd \in {"enter_player", "new_game"} /\ m.pid = pid /\ m.fd = fd
         \/ \E m \in InScenes : m.cmd = "new_game" /\ m.pid = pid /\ m.fd = fd
  BY DEF Started

-----------------------------------------------------------------------------
(* The steps.  Clients come and go.                                         *)
LEMMA Players_Connect ==
  ASSUME PlayersInv, GameInv', NEW pid \in Pids, Connect(pid)
  PROVE  PlayersInv'
<1> DEFINE m == [cmd |-> "start", fd |-> nfd + 1]
<1>1. /\ nfd \in Nat /\ nfd' = nfd + 1
      /\ UNCHANGED <<playerlist, mgrq, sceneq, m_Players>>
      /\ agentq' = [agentq EXCEPT ![pid] = Append(@, m)]
      /\ m \in AgentMsgs /\ m.cmd = "start" /\ m.fd = nfd + 1
  BY DEF Connect, mgrVars, sceneVars, PlayersInv, GameInv, Types, AgentMsgs
<1> HIDE DEF m
<1>2. /\ agentq[pid] \in Seq(AgentMsgs)
      /\ agentq'[pid] = Append(agentq[pid], m)
      /\ \A p \in Pids : p # pid => agentq'[p] = agentq[p]
  BY <1>1 DEF PlayersInv, GameInv, Types
<1>3. /\ \A i \in DOMAIN Append(agentq[pid], m) :
           \/ i \in DOMAIN agentq[pid] /\ Append(agentq[pid], m)[i] = agentq[pid][i]
           \/ i = Len(agentq[pid]) + 1 /\ Append(agentq[pid], m)[i] = m
      /\ Range(Append(agentq[pid], m)) = Range(agentq[pid]) \cup {m}
  BY <1>1, <1>2, AppendFacts
<1>4. AtItsService' /\ EntrantsFindGame'
  BY <1>1 DEF PlayersInv, AtItsService, EntrantsFindGame, SceneHas, InScenes
<1>5. \A p \in Pids : \A x \in Range(agentq'[p]) :
        x.cmd = "entering" => x \in Range(agentq[p])
  BY <1>1, <1>2, <1>3
<1>6. ClaimsHold'
  <2>1. \A p \in Pids, g \in Nat : Claims(p, g)' => Claims(p, g)
    BY <1>1, <1>5 DEF Claims
  <2>2. \A p \in Pids, g \in Nat : HasPlayer(g, p) => HasPlayer(g, p)'
    BY <1>1 DEF HasPlayer
  <2> QED
    BY <2>1, <2>2, ClaimsKept DEF PlayersInv
<1>7. StartedOnce'
  <2>1. \A p \in Pids, fd \in Nat : Started(p, fd)' => Started(p, fd)
    <3>1. Range(mgrq)' = Range(mgrq) /\ InScenes' = InScenes
      BY <1>1 DEF InScenes
    <3> QED
      BY <1>5, <3>1, StartedFacts
  <2>2. ASSUME NEW p \in Pids, NEW fd \in Nat, NEW i \in Nat, ToStart(p, i, fd)'
        PROVE  \/ ToStart(p, i, fd)
               \/ p = pid /\ i = Len(agentq[pid]) + 1 /\ fd = nfd + 1
    BY <1>1, <1>2, <1>3, <2>2 DEF ToStart
  <2>3. ASSUME NEW p \in Pids, NEW fd \in Nat, Started(p, fd)
        PROVE  fd <= nfd
    BY <2>3 DEF PlayersInv, StartedOnce
  <2>4. ASSUME NEW p \in Pids, NEW fd \in Nat, NEW i \in Nat, ToStart(p, i, fd)
        PROVE  fd <= nfd /\ ~Started(p, fd) /\ \A j \in Nat : ToStart(p, j, fd) => i = j
    BY <2>4 DEF PlayersInv, StartedOnce
  <2> QED
    BY <1>1, <2>1, <2>2, <2>3, <2>4 DEF StartedOnce
<1> QED
  BY <1>4, <1>6, <1>7 DEF PlayersInv

LEMMA Players_Disconnect ==
  ASSUME PlayersInv, GameInv', NEW pid \in Pids, Disconnect(pid)
  PROVE  PlayersInv'
<1> DEFINE m == [cmd |-> "kick"]
<1>1. /\ UNCHANGED <<nfd, playerlist, mgrq, sceneq, m_Players>>
      /\ agentq' = [agentq EXCEPT ![pid] = Append(@, m)]
      /\ m \in AgentMsgs /\ m.cmd = "kick"
  BY DEF Disconnect, mgrVars, sceneVars, AgentMsgs
<1> HIDE DEF m
<1>2. /\ agentq[pid] \in Seq(AgentMsgs)
      /\ agentq'[pid] = Append(agentq[pid], m)
      /\ \A p \in Pids : p # pid => agentq'[p] = agentq[p]
  BY <1>1 DEF PlayersInv, GameInv, Types
<1>3. /\ \A i \in DOMAIN Append(agentq[pid], m) :
           \/ i \in DOMAIN agentq[pid] /\ Append(agentq[pid], m)[i] = agentq[pid][i]
           \/ i = Len(agentq[pid]) + 1 /\ Append(agentq[pid], m)[i] = m
      /\ Range(Append(agentq[pid], m)) = Range(agentq[pid]) \cup {m}
  BY <1>1, <1>2, AppendFacts
<1>4. AtItsService' /\ EntrantsFindGame'
  BY <1>1 DEF PlayersInv, AtItsService, EntrantsFindGame, SceneHas, InScenes
<1>5. \A p \in Pids : \A x \in Range(agentq'[p]) :
        x.cmd = "entering" => x \in Range(agentq[p])
  BY <1>1, <1>2, <1>3
<1>6. ClaimsHold'
  <2>1. \A p \in Pids, g \in Nat : Claims(p, g)' => Claims(p, g)
    BY <1>1, <1>5 DEF Claims
  <2>2. \A p \in Pids, g \in Nat : HasPlayer(g, p) => HasPlayer(g, p)'
    BY <1>1 DEF HasPlayer
  <2> QED
    BY <2>1, <2>2, ClaimsKept DEF PlayersInv
<1>7. StartedOnce'
  <2>1. \A p \in Pids, fd \in Nat : Started(p, fd)' => Started(p, fd)
    <3>1. Range(mgrq)' = Range(mgrq) /\ InScenes' = InScenes
      BY <1>1 DEF InScenes
    <3> QED
      BY <1>5, <3>1, StartedFacts
  <2>2. \A p \in Pids, fd \in Nat, i \in Nat : ToStart(p, i, fd)' => ToStart(p, i, fd)
    BY <1>1, <1>2, <1>3 DEF ToStart
  <2> QED
    BY <1>1, <2>1, <2>2 DEF PlayersInv, StartedOnce
<1> QED
  BY <1>4, <1>6, <1>7 DEF PlayersInv

(* Agents.  What an agent reads from a player's mailbox.                    *)
LEMMA AgentReads ==
  ASSUME Types, NEW pid \in Pids, agentq[pid] # <<>>,
         agentq' = [agentq EXCEPT ![pid] = Tail(@)],
         NEW h, h = Head(agentq[pid])
  PROVE  /\ h \in AgentMsgs /\ h \in Range(agentq[pid])
         /\ 1 \in DOMAIN agentq[pid] /\ h = agentq[pid][1]
         /\ \A i \in DOMAIN agentq'[pid] :
              /\ i \in Nat \ {0} /\ i + 1 \in DOMAIN agentq[pid]
              /\ agentq'[pid][i] = agentq[pid][i + 1]
         /\ \A p \in Pids : p # pid => agentq'[p] = agentq[p]
         /\ \A p \in Pids : Reads(p) /\ Range(agentq'[p]) \subseteq Range(agentq[p])
<1>1. /\ agentq[pid] \in Seq(AgentMsgs)
      /\ agentq'[pid] = Tail(agentq[pid])
      /\ \A p \in Pids : p # pid => agentq'[p] = agentq[p]
  BY DEF Types
<1>2. /\ h \in AgentMsgs /\ h \in Range(agentq[pid])
      /\ 1 \in DOMAIN agentq[pid] /\ h = agentq[pid][1]
      /\ \A i \in DOMAIN Tail(agentq[pid]) :
           /\ i \in Nat /\ i + 1 \in DOMAIN agentq[pid]
           /\ Tail(agentq[pid])[i] = agentq[pid][i + 1]
      /\ Range(Tail(agentq[pid])) \subseteq Range(agentq[pid])
  BY <1>1, TailFacts
<1>3. \A p \in Pids : Reads(p)
  BY <1>1 DEF Reads
<1>4. \A p \in Pids : Range(agentq'[p]) \subseteq Range(agentq[p])
  BY <1>1, <1>2
<1>5. \A i \in DOMAIN Tail(agentq[pid]) : i # 0
  BY <1>1
<1> QED
  BY <1>1, <1>2, <1>3, <1>4, <1>5

(* A login: its answers cannot be there before its call.                    *)
LEMMA Players_start ==
  ASSUME PlayersInv, GameInv', NEW pid \in Pids, start(pid)
  PROVE  PlayersInv'
<1>1. PICK h : h = Head(agentq[pid])
  OBVIOUS
<1>2. /\ Types /\ agentq[pid] # <<>> /\ h.cmd = "start"
      /\ agentq' = [agentq EXCEPT ![pid] = Tail(@)]
      /\ playerlist' = [playerlist EXCEPT ![pid] = [m_FD |-> h.fd, m_GameID |-> nil]]
      /\ mgrq' = Append(mgrq, EnterPlayer(pid, h.fd))
      /\ UNCHANGED <<nfd, sceneq, m_Players>>
  BY <1>1 DEF start, Receives, sceneVars, PlayersInv, GameInv
<1>3. /\ h \in AgentMsgs
      /\ 1 \in DOMAIN agentq[pid] /\ h = agentq[pid][1]
      /\ \A i \in DOMAIN agentq'[pid] :
           /\ i \in Nat \ {0} /\ i + 1 \in DOMAIN agentq[pid]
           /\ agentq'[pid][i] = agentq[pid][i + 1]
      /\ \A p \in Pids : p # pid => agentq'[p] = agentq[p]
      /\ \A p \in Pids : Reads(p) /\ Range(agentq'[p]) \subseteq Range(agentq[p])
  BY <1>1, <1>2, AgentReads
<1>4. h.fd \in Nat
  BY <1>2, <1>3, Fields
<1>5. ToStart(pid, 1, h.fd)
  BY <1>2, <1>3 DEF ToStart
<1>6. /\ h.fd <= nfd /\ ~Started(pid, h.fd)
      /\ \A j \in Nat : ToStart(pid, j, h.fd) => 1 = j
  BY <1>4, <1>5 DEF PlayersInv, StartedOnce
<1>7. \A i \in Nat : ~ToStart(pid, i, h.fd)'
  <2> SUFFICES ASSUME NEW i \in Nat, ToStart(pid, i, h.fd)'
               PROVE  FALSE
    OBVIOUS
  <2>1. i \in DOMAIN agentq'[pid] /\ agentq'[pid][i].cmd = "start"
          /\ agentq'[pid][i].fd = h.fd
    BY DEF ToStart
  <2>2. ToStart(pid, i + 1, h.fd)
    BY <1>3, <2>1 DEF ToStart
  <2>3. i + 1 \in Nat /\ i + 1 # 1
    BY <1>3, <2>1
  <2> QED
    BY <1>6, <2>2, <2>3
<1>8. AtItsService' /\ EntrantsFindGame' /\ InScenes' = InScenes
  BY <1>2 DEF PlayersInv, AtItsService, EntrantsFindGame, SceneHas, InScenes
<1>9. StartedOnce'
  <2>1. PICK x : x = EnterPlayer(pid, h.fd)
    OBVIOUS
  <2>2. x \in MgrMsgs /\ x.cmd = "enter_player" /\ x.pid = pid /\ x.fd = h.fd
    BY <1>4, <2>1 DEF EnterPlayer, MgrMsgs
  <2>3. Range(mgrq)' = Range(mgrq) \cup {x}
    BY <1>2, <2>1, <2>2, MgrSent
  <2>4. \A p \in Pids : \A y \in Range(agentq'[p]) : y \in Range(agentq[p])
    BY <1>3
  <2>5. ASSUME NEW p \in Pids, NEW fd \in Nat, Started(p, fd)'
        PROVE  Started(p, fd) \/ (p = pid /\ fd = h.fd)
    BY <1>8, <2>2, <2>3, <2>4, <2>5, StartedFacts
  <2> QED
    BY <1>2, <1>3, <1>6, <1>7, <2>5, StartedKept DEF PlayersInv
<1>10. ClaimsHold'
  <2>1. ASSUME NEW p \in Pids, NEW g \in Nat, Claims(p, g)'
        PROVE  Claims(p, g)
    <3>1. CASE p = pid
      <4>1. playerlist'[p].m_FD = h.fd /\ playerlist'[p].m_GameID = nil
        BY <1>2, <3>1 DEF Types
      <4>2. nil # g
        BY GameLifeAssumption
      <4> QED
        BY <1>3, <1>6, <2>1, <3>1, <4>1, <4>2 DEF Claims, Started
    <3>2. CASE p # pid
      <4>1. playerlist'[p] = playerlist[p] /\ agentq'[p] = agentq[p]
        BY <1>2, <1>3, <3>2 DEF Types
      <4> QED
        BY <2>1, <4>1 DEF Claims
    <3> QED
      BY <3>1, <3>2
  <2>2. \A p \in Pids, g \in Nat : HasPlayer(g, p) => HasPlayer(g, p)'
    BY <1>2 DEF HasPlayer
  <2> QED
    BY <2>1, <2>2, ClaimsKept DEF PlayersInv
<1> QED
  BY <1>8, <1>9, <1>10 DEF PlayersInv

(* The answer: the agent knows now what it could know before.               *)
LEMMA Players_enterwar ==
  ASSUME PlayersInv, GameInv', NEW pid \in Pids, enterwar(pid)
  PROVE  PlayersInv'
<1>1. PICK h : h = Head(agentq[pid])
  OBVIOUS
<1>2. /\ Types /\ agentq[pid] # <<>> /\ h.cmd = "entering"
      /\ agentq' = [agentq EXCEPT ![pid] = Tail(@)]
      /\ UNCHANGED <<nfd, mgrq, sceneq, m_Players>>
  BY <1>1 DEF enterwar, Receives, mgrVars, sceneVars, PlayersInv, GameInv
<1>3. /\ h \in AgentMsgs /\ h \in Range(agentq[pid])
      /\ \A p \in Pids : Reads(p) /\ Range(agentq'[p]) \subseteq Range(agentq[p])
  BY <1>1, <1>2, AgentReads
<1>4. ASSUME NEW p \in Pids, playerlist'[p] # playerlist[p]
      PROVE  /\ p = pid /\ playerlist[p] # nil /\ playerlist[p].m_FD = h.fd
             /\ playerlist'[p].m_FD = playerlist[p].m_FD
             /\ playerlist'[p].m_GameID = h.game_id
  <2>1. /\ playerlist[pid] # nil /\ playerlist[pid].m_FD = h.fd
        /\ playerlist' = [playerlist EXCEPT ![pid].m_GameID = h.game_id]
    BY <1>1, <1>4 DEF enterwar
  <2>2. p = pid /\ playerlist'[pid] = [playerlist[pid] EXCEPT !.m_GameID = h.game_id]
    BY <1>2, <1>4, <2>1 DEF Types
  <2>3. playerlist[pid] \in [m_FD : Nat, m_GameID : {nil} \cup Nat]
    BY <1>2, <2>1 DEF Types
  <2> QED
    BY <2>1, <2>2, <2>3
<1>5. AtItsService' /\ EntrantsFindGame' /\ InScenes' = InScenes
  BY <1>2 DEF PlayersInv, AtItsService, EntrantsFindGame, SceneHas, InScenes
<1>6. StartedOnce'
  <2>1. \A p \in Pids : \A y \in Range(agentq'[p]) : y \in Range(agentq[p])
    BY <1>3
  <2>2. Range(mgrq)' = Range(mgrq)
    BY <1>2
  <2>3. ASSUME NEW p \in Pids, NEW fd \in Nat, Started(p, fd)'
        PROVE  Started(p, fd)
    BY <1>5, <2>1, <2>2, <2>3, StartedFacts
  <2> QED
    BY <1>2, <1>3, <2>3, StartedKept DEF PlayersInv
<1>7. ClaimsHold'
  <2>1. ASSUME NEW p \in Pids, NEW g \in Nat, Claims(p, g)'
        PROVE  Claims(p, g)
    <3>1. \A y \in Range(agentq'[p]) : y \in Range(agentq[p])
      BY <1>3
    <3>2. CASE playerlist'[p] = playerlist[p]
      BY <2>1, <3>1, <3>2 DEF Claims
    <3>3. CASE playerlist'[p] # playerlist[p]
      BY <1>2, <1>3, <1>4, <2>1, <3>1, <3>3 DEF Claims
    <3> QED
      BY <3>2, <3>3
  <2>2. \A p \in Pids, g \in Nat : HasPlayer(g, p) => HasPlayer(g, p)'
    BY <1>2 DEF HasPlayer
  <2> QED
    BY <2>1, <2>2, ClaimsKept DEF PlayersInv
<1> QED
  BY <1>5, <1>6, <1>7 DEF PlayersInv

(* A logout: the game loses a player whom no agent claims any more.         *)
LEMMA Players_kick ==
  ASSUME PlayersInv, GameInv', NEW pid \in Pids, kick(pid)
  PROVE  PlayersInv'
<1>1. /\ Types /\ AtItsService /\ agentq[pid] # <<>>
      /\ agentq' = [agentq EXCEPT ![pid] = Tail(@)]
      /\ playerlist' = [playerlist EXCEPT ![pid] = nil]
      /\ UNCHANGED <<nfd, mgrq, m_Players>>
  BY DEF kick, Receives, mgrVars, PlayersInv, GameInv
<1>2. \A p \in Pids : Reads(p) /\ Range(agentq'[p]) \subseteq Range(agentq[p])
  BY <1>1, AgentReads
<1>3. /\ AtItsService'
      /\ \A x \in InScenes' : x \in InScenes \/ x.cmd = "leave_player"
      /\ \A p \in Pids, g \in Nat : p # pid /\ HasPlayer(g, p) => HasPlayer(g, p)'
  <2>1. CASE InGame(pid)
    <3>1. PICK m : m = AboutPlayer("leave_player", playerlist[pid].m_GameID, pid)
      OBVIOUS
    <3>2. playerlist[pid].m_GameID \in Nat
      BY <1>1, <2>1 DEF Types, InGame
    <3>3. /\ m \in SceneMsgs /\ m.game_id \in Nat /\ m.cmd = "leave_player"
          /\ m.pid = pid
      BY <3>1, <3>2, Messages
    <3>4. sceneq' = SendScene(sceneq, m)
      BY <2>1, <3>1 DEF kick
    <3>5. InScenes' = InScenes \cup {m}
      BY <1>1, <3>3, <3>4, SceneSent
    <3> QED
      BY <1>1, <3>3, <3>4, <3>5, PlayerSent
  <2>2. CASE ~InGame(pid)
    <3>1. sceneq' = sceneq
      BY <2>2 DEF kick
    <3> QED
      BY <1>1, <3>1 DEF AtItsService, InScenes, HasPlayer
  <2> QED
    BY <2>1, <2>2
<1>4. EntrantsFindGame'
  BY <1>1, <1>3 DEF PlayersInv, EntrantsFindGame, SceneHas
<1>5. StartedOnce'
  <2>1. \A p \in Pids : \A y \in Range(agentq'[p]) : y \in Range(agentq[p])
    BY <1>2
  <2>2. Range(mgrq)' = Range(mgrq)
    BY <1>1
  <2>3. ASSUME NEW p \in Pids, NEW fd \in Nat, Started(p, fd)'
        PROVE  Started(p, fd)
    BY <1>3, <2>1, <2>2, <2>3, StartedFacts
  <2> QED
    BY <1>1, <1>2, <2>3, StartedKept DEF PlayersInv
<1>6. ClaimsHold'
  <2>1. ASSUME NEW p \in Pids, NEW g \in Nat, Claims(p, g)'
        PROVE  Claims(p, g) /\ p # pid
    <3>1. \A y \in Range(agentq'[p]) : y \in Range(agentq[p])
      BY <1>2
    <3>2. p # pid
      BY <1>1, <2>1 DEF Claims, Types
    <3>3. playerlist'[p] = playerlist[p]
      BY <1>1, <3>2 DEF Types
    <3> QED
      BY <2>1, <3>1, <3>2, <3>3 DEF Claims
  <2> QED
    BY <1>3, <2>1, ClaimsKept DEF PlayersInv
<1> QED
  BY <1>3, <1>4, <1>5, <1>6 DEF PlayersInv

(* SCENE_MGR.  It tells the agent of the game that it sends the player to.  *)
LEMMA PlayerEntered ==
  ASSUME PlayersInv, NEW list \in Seq(Proxies), NEW i \in DOMAIN list,
         NEW pid \in Pids, NEW fd \in Nat, Enter(list, i, pid, fd),
         list[i].game_id \in DOMAIN m_Players,
         UNCHANGED <<playerlist, m_Players>>
  PROVE  /\ AtItsService' /\ EntrantsFindGame' /\ ClaimsHold'
         /\ \A p \in Pids :
              /\ Reads(p)
              /\ \A y \in Range(agentq'[p]) :
                   y \in Range(agentq[p]) \/ (p = pid /\ y.fd = fd)
         /\ \A x \in InScenes' : x \in InScenes \/ x.cmd = "enter_player"
<1>1. Types /\ AtItsService
  BY DEF PlayersInv, GameInv
<1>2. PICK g0 : g0 = list[i].game_id
  OBVIOUS
<1>3. PICK x : x = AboutPlayer("enter_player", g0, pid)
  OBVIOUS
<1>4. g0 \in Nat /\ sceneq' = SendScene(sceneq, x)
  BY <1>1, <1>2, <1>3, Entered
<1>5. x \in SceneMsgs /\ x.cmd = "enter_player" /\ x.game_id = g0 /\ x.pid = pid
  BY <1>3, <1>4, EnterMessage
<1>6. InScenes' = InScenes \cup {x}
  BY <1>1, <1>4, <1>5, SceneSent
<1>7. /\ AtItsService'
      /\ \A g \in Nat, p \in Pids : HasPlayer(g, p) => HasPlayer(g, p)'
      /\ HasPlayer(g0, pid)'
  BY <1>1, <1>4, <1>5, PlayerSent
<1>8. EntrantsFindGame'
  BY <1>2, <1>5, <1>6 DEF PlayersInv, EntrantsFindGame, SceneHas
<1>9. PICK m : m = Entering(g0, fd)
  OBVIOUS
<1>10. m \in AgentMsgs /\ m.cmd = "entering" /\ m.game_id = g0 /\ m.fd = fd
  BY <1>4, <1>9 DEF Entering, AgentMsgs
<1>11. PICK mailbox \in Answer(agentq[pid], m) :
         agentq' = [agentq EXCEPT ![pid] = mailbox]
  BY <1>2, <1>9 DEF Enter
<1>12. /\ agentq[pid] \in Seq(AgentMsgs) /\ agentq'[pid] = mailbox
       /\ \A p \in Pids : p # pid => agentq'[p] = agentq[p]
  BY <1>1, <1>11 DEF Types
<1>13. Range(mailbox) = Range(agentq[pid]) \cup {m}
  BY <1>10, <1>12, AnswerFacts
<1>14. ASSUME NEW p \in Pids
       PROVE  /\ Reads(p)
              /\ \A y \in Range(agentq'[p]) : y \in Range(agentq[p]) \/ (p = pid /\ y = m)
  BY <1>10, <1>11, <1>12, <1>13 DEF Reads
<1>15. ClaimsHold'
  <2> SUFFICES ASSUME NEW p \in Pids, NEW g \in Nat, Claims(p, g)'
               PROVE  HasPlayer(g, p)'
    BY DEF ClaimsHold
  <2>1. Claims(p, g) \/ (p = pid /\ g = g0)
    BY <1>10, <1>14 DEF Claims
  <2>2. Claims(p, g) => HasPlayer(g, p)
    BY DEF PlayersInv, ClaimsHold
  <2> QED
    BY <1>7, <2>1, <2>2
<1> QED
  BY <1>6, <1>5, <1>7, <1>8, <1>10, <1>14, <1>15

LEMMA Players_enter_player ==
  ASSUME PlayersInv, GameInv', enter_player
  PROVE  PlayersInv'
<1>1. PICK h : h = Head(mgrq)
  OBVIOUS
<1>2. /\ Types /\ mgrq # <<>> /\ h.cmd = "enter_player" /\ mgrq' = Tail(mgrq)
      /\ m_SceneProxyList # <<>> /\ Enter(m_SceneProxyList, 1, h.pid, h.fd)
      /\ UNCHANGED <<nfd, playerlist, m_Players>>
  BY <1>1 DEF enter_player, Receives, PlayersInv, GameInv
<1>3. h \in Range(mgrq) /\ h \in MgrMsgs /\ Range(mgrq)' \subseteq Range(mgrq)
  BY <1>1, <1>2, MgrTaken
<1>4. h.pid \in Pids /\ h.fd \in Nat
  BY <1>2, <1>3, Fields
<1>5. 1 \in DOMAIN m_SceneProxyList /\ m_SceneProxyList \in Seq(Proxies)
  BY <1>2 DEF Types
<1>6. m_SceneProxyList[1].game_id \in DOMAIN m_Players
  <2>1. m_SceneProxyList[1] \in Proxies
    BY <1>5
  <2>2. PICK g0 \in Nat : g0 = m_SceneProxyList[1].game_id
    BY <2>1 DEF Proxies
  <2>3. PICK n0 \in Nat : n0 = m_SceneProxyList[1].playercnt
    BY <2>1 DEF Proxies
  <2>4. ListedWith(g0, n0)
    BY <1>5, <2>2, <2>3 DEF ListedWith
  <2>5. Game(g0)
    BY DEF PlayersInv, GameInv
  <2> QED
    BY <1>2, <2>2, <2>4, <2>5 DEF Game, OnList, Types
<1>7. /\ AtItsService' /\ EntrantsFindGame' /\ ClaimsHold'
      /\ \A p \in Pids :
           /\ Reads(p)
           /\ \A y \in Range(agentq'[p]) :
                y \in Range(agentq[p]) \/ (p = h.pid /\ y.fd = h.fd)
      /\ \A x \in InScenes' : x \in InScenes \/ x.cmd = "enter_player"
  BY <1>2, <1>4, <1>5, <1>6, PlayerEntered
<1>8. StartedOnce'
  <2>1. Started(h.pid, h.fd)
    BY <1>2, <1>3 DEF Started
  <2>2. \A y \in Range(mgrq)' : y \in Range(mgrq)
    BY <1>3
  <2>3. ASSUME NEW p \in Pids, NEW fd \in Nat, Started(p, fd)'
        PROVE  Started(p, fd)
    BY <1>7, <2>1, <2>2, <2>3, StartedFacts
  <2> QED
    BY <1>2, <1>7, <2>3, StartedKept DEF PlayersInv
<1> QED
  BY <1>7, <1>8 DEF PlayersInv

LEMMA Players_new_game_answer ==
  ASSUME PlayersInv, GameInv', new_game_answer
  PROVE  PlayersInv'
<1>1. PICK h : h = Head(mgrq)
  OBVIOUS
<1>2. PICK r : r = [game_id |-> h.game_id, playercnt |-> 0]
  OBVIOUS
<1>3. PICK list : list = Append(m_SceneProxyList, r)
  OBVIOUS
<1>4. /\ Types /\ mgrq # <<>> /\ h.cmd = "new_game" /\ mgrq' = Tail(mgrq)
      /\ Enter(list, Len(list), h.pid, h.fd)
      /\ UNCHANGED <<nfd, playerlist, m_Players>>
  BY <1>1, <1>2, <1>3 DEF new_game_answer, Receives, PlayersInv, GameInv
<1>5. h \in Range(mgrq) /\ h \in MgrMsgs /\ Range(mgrq)' \subseteq Range(mgrq)
  BY <1>1, <1>4, MgrTaken
<1>6. h.pid \in Pids /\ h.fd \in Nat /\ h.game_id \in Nat
  BY <1>4, <1>5, Fields
<1>7. r \in Proxies /\ r.game_id = h.game_id
  BY <1>2, <1>6 DEF Proxies
<1>8. m_SceneProxyList \in Seq(Proxies)
  BY <1>4 DEF Types
<1>9. list \in Seq(Proxies) /\ Len(list) \in DOMAIN list /\ list[Len(list)] = r
  BY <1>3, <1>7, <1>8
<1>10. h.game_id \in DOMAIN m_Players
  <2>1. Game(h.game_id)
    BY <1>6 DEF PlayersInv, GameInv
  <2>2. MgrHas("new_game", h.game_id)
    BY <1>4, <1>5 DEF MgrHas
  <2> QED
    BY <1>4, <2>1, <2>2 DEF Game, Created, Types
<1>11. /\ AtItsService' /\ EntrantsFindGame' /\ ClaimsHold'
       /\ \A p \in Pids :
            /\ Reads(p)
            /\ \A y \in Range(agentq'[p]) :
                 y \in Range(agentq[p]) \/ (p = h.pid /\ y.fd = h.fd)
       /\ \A x \in InScenes' : x \in InScenes \/ x.cmd = "enter_player"
  BY <1>4, <1>6, <1>7, <1>9, <1>10, PlayerEntered
<1>12. StartedOnce'
  <2>1. Started(h.pid, h.fd)
    BY <1>4, <1>5 DEF Started
  <2>2. \A y \in Range(mgrq)' : y \in Range(mgrq)
    BY <1>5
  <2>3. ASSUME NEW p \in Pids, NEW fd \in Nat, Started(p, fd)'
        PROVE  Started(p, fd)
    BY <1>11, <2>1, <2>2, <2>3, StartedFacts
  <2> QED
    BY <1>4, <1>11, <2>3, StartedKept DEF PlayersInv
<1> QED
  BY <1>11, <1>12 DEF PlayersInv

(* Steps in which no agent takes part, and no player changes.               *)
LEMMA AgentsApart ==
  ASSUME PlayersInv, UNCHANGED agentVars,
         \A p \in Pids, fd \in Nat : Started(p, fd)' => Started(p, fd),
         \A p \in Pids, g \in Nat : HasPlayer(g, p) => HasPlayer(g, p)'
  PROVE  StartedOnce' /\ ClaimsHold'
<1>1. UNCHANGED <<nfd, agentq, playerlist>>
  BY DEF agentVars
<1>2. \A p \in Pids : Reads(p)
  BY <1>1 DEF Reads
<1>3. StartedOnce'
  BY <1>1, <1>2, StartedKept DEF PlayersInv, GameInv
<1>4. \A p \in Pids, g \in Nat : Claims(p, g)' => Claims(p, g)
  BY <1>1 DEF Claims
<1>5. ClaimsHold'
  BY <1>4, ClaimsKept DEF PlayersInv
<1> QED
  BY <1>3, <1>5

LEMMA Players_new_proxy ==
  ASSUME PlayersInv, GameInv', new_proxy
  PROVE  PlayersInv'
<1>1. PICK h : h = Head(mgrq)
  OBVIOUS
<1>2. PICK g0 : g0 = NewServiceUniqID(GAMEID)
  OBVIOUS
<1>3. PICK m : m = NewGame(g0, h.pid, h.fd)
  OBVIOUS
<1>4. /\ Types /\ AtItsService /\ mgrq # <<>> /\ h.cmd = "enter_player"
      /\ mgrq' = Tail(mgrq) /\ sceneq' = SendScene(sceneq, m)
      /\ UNCHANGED <<agentVars, m_Players>>
  BY <1>1, <1>2, <1>3 DEF new_proxy, Receives, PlayersInv, GameInv
<1>5. h \in Range(mgrq) /\ h \in MgrMsgs /\ Range(mgrq)' \subseteq Range(mgrq)
  BY <1>1, <1>4, MgrTaken
<1>6. h.pid \in Pids /\ h.fd \in Nat /\ g0 \in Nat
  BY <1>2, <1>4, <1>5, Fields DEF Types, NewServiceUniqID
<1>7. /\ m \in SceneMsgs /\ m.game_id \in Nat /\ m.cmd = "new_game"
      /\ m.pid = h.pid /\ m.fd = h.fd
  BY <1>3, <1>6 DEF NewGame, SceneMsgs
<1>8. InScenes' = InScenes \cup {m}
  BY <1>4, <1>7, SceneSent
<1>9. /\ AtItsService'
      /\ \A p \in Pids, g \in Nat : HasPlayer(g, p) => HasPlayer(g, p)'
  BY <1>4, <1>7, PlayerSent
<1>10. EntrantsFindGame'
  BY <1>4, <1>7, <1>8 DEF PlayersInv, EntrantsFindGame, SceneHas
<1>11. ASSUME NEW p \in Pids, NEW fd \in Nat, Started(p, fd)'
       PROVE  Started(p, fd)
  <2>1. Started(h.pid, h.fd)
    BY <1>4, <1>5 DEF Started
  <2>2. \A y \in Range(mgrq)' : y \in Range(mgrq)
    BY <1>5
  <2>3. agentq'[p] = agentq[p]
    BY <1>4 DEF agentVars
  <2> QED
    BY <1>7, <1>8, <1>11, <2>1, <2>2, <2>3, StartedFacts
<1>12. StartedOnce' /\ ClaimsHold'
  BY <1>4, <1>9, <1>11, AgentsApart
<1> QED
  BY <1>9, <1>10, <1>12 DEF PlayersInv

LEMMA Players_mgr_game_over ==
  ASSUME PlayersInv, GameInv', mgr_game_over
  PROVE  PlayersInv'
<1>1. PICK h : h = Head(mgrq)
  OBVIOUS
<1>2. PICK m : m = AboutGame("game_over", h.game_id)
  OBVIOUS
<1>3. PICK s : s = get_scene_service(h.game_id)
  OBVIOUS
<1>4. /\ Types /\ AtItsService /\ mgrq # <<>> /\ h.cmd = "game_over"
      /\ mgrq' = Tail(mgrq) /\ UNCHANGED <<agentVars, m_Players>>
  BY <1>1 DEF mgr_game_over, Receives, PlayersInv, GameInv
<1>5. h \in Range(mgrq) /\ h \in MgrMsgs /\ Range(mgrq)' \subseteq Range(mgrq)
  BY <1>1, <1>4, MgrTaken
<1>6. h.game_id \in Nat
  BY <1>4, <1>5, Fields
<1>7. m \in SceneMsgs /\ m.cmd = "game_over" /\ m.game_id = h.game_id
  BY <1>2, <1>6, Messages
<1>8. s \in Scenes
  BY <1>3, <1>6, ServiceIsScene
<1>9. PICK mailbox \in Answer(sceneq[s], m) :
        sceneq' = [sceneq EXCEPT ![s] = mailbox]
  BY <1>1, <1>2, <1>3 DEF mgr_game_over
<1>10. InScenes' = InScenes \cup {m}
  BY <1>4, <1>7, <1>8, <1>9, SceneAnswered
<1>11. /\ AtItsService'
       /\ \A p \in Pids, g \in Nat : HasPlayer(g, p) => HasPlayer(g, p)'
  BY <1>3, <1>4, <1>6, <1>7, <1>9, PlayerAnswered
<1>12. EntrantsFindGame'
  BY <1>4, <1>7, <1>10 DEF PlayersInv, EntrantsFindGame, SceneHas
<1>13. ASSUME NEW p \in Pids, NEW fd \in Nat, Started(p, fd)'
       PROVE  Started(p, fd)
  <2>1. \A y \in Range(mgrq)' : y \in Range(mgrq)
    BY <1>5
  <2>2. agentq'[p] = agentq[p]
    BY <1>4 DEF agentVars
  <2> QED
    BY <1>7, <1>10, <1>13, <2>1, <2>2, StartedFacts
<1>14. StartedOnce' /\ ClaimsHold'
  BY <1>4, <1>11, <1>13, AgentsApart
<1> QED
  BY <1>11, <1>12, <1>14 DEF PlayersInv

(* SCENE.  A new game has no player yet; the answer goes to SCENE_MGR.      *)
LEMMA Players_scene ==
  ASSUME PlayersInv, GameInv', NEW s \in Scenes, SceneService(s)
  PROVE  PlayersInv'
<1>1. PICK h : h = Head(sceneq[s])
  OBVIOUS
<1>2. /\ Types /\ AtItsService /\ sceneq[s] # <<>>
      /\ sceneq' = [sceneq EXCEPT ![s] = Tail(@)]
      /\ UNCHANGED agentVars
  BY DEF SceneService, new_game, game_over_answer, scene_enter_player,
         scene_leave_player, Receives, PlayersInv, GameInv
<1>3. h \in InScenes /\ h \in SceneMsgs /\ InScenes' \subseteq InScenes
  BY <1>1, <1>2, SceneTaken
<1>4. h.game_id \in Nat
  BY <1>3, Fields
<1>5. AtItsService'
  BY <1>2, ServiceTaken
<1>6. /\ DOMAIN m_Players \subseteq DOMAIN m_Players'
      /\ \A g \in Nat, p \in Pids :
           /\ g \in DOMAIN m_Players /\ p \in m_Players[g] =>
                \/ g \in DOMAIN m_Players' /\ p \in m_Players'[g]
                \/ h.cmd = "leave_player" /\ h.game_id = g /\ h.pid = p
           /\ h.cmd = "enter_player" /\ h.game_id = g /\ h.pid = p =>
                g \in DOMAIN m_Players' /\ p \in m_Players'[g]
  <2>1. CASE new_game(s)
    <3>1. /\ h.cmd = "new_game"
          /\ DOMAIN m_Players' = DOMAIN m_Players \cup {h.game_id}
          /\ \A g \in DOMAIN m_Players : g # h.game_id => m_Players'[g] = m_Players[g]
      BY <1>1, <2>1 DEF new_game, Receives
    <3>2. SceneHas("new_game", h.game_id) /\ Game(h.game_id)
      BY <1>3, <1>4, <3>1 DEF SceneHas, PlayersInv, GameInv
    <3>3. h.game_id \notin DOMAIN m_Players
      BY <3>2 DEF Game, Creating
    <3> QED
      BY <3>1, <3>3
  <2>2. CASE game_over_answer(s)
    <3>1. h.cmd = "game_over" /\ m_Players' = m_Players
      BY <1>1, <2>2 DEF game_over_answer, Receives
    <3> QED
      BY <3>1
  <2>3. CASE scene_enter_player(s)
    <3>1. /\ h.cmd = "enter_player"
          /\ DOMAIN m_Players' = DOMAIN m_Players
          /\ \A g \in DOMAIN m_Players :
               m_Players'[g] = IF g = h.game_id THEN m_Players[g] \cup {h.pid}
                               ELSE m_Players[g]
      BY <1>1, <2>3 DEF scene_enter_player, Receives
    <3>2. h.game_id \in DOMAIN m_Players
      BY <1>3, <1>4, <3>1 DEF SceneHas, PlayersInv, EntrantsFindGame
    <3> QED
      BY <3>1, <3>2
  <2>4. CASE scene_leave_player(s)
    <3>1. /\ h.cmd = "leave_player"
          /\ DOMAIN m_Players' = DOMAIN m_Players
          /\ \A g \in DOMAIN m_Players :
               m_Players'[g] = IF g = h.game_id THEN m_Players[g] \ {h.pid}
                               ELSE m_Players[g]
      BY <1>1, <2>4 DEF scene_leave_player, Receives
    <3> QED
      BY <3>1
  <2> QED
    BY <2>1, <2>2, <2>3, <2>4 DEF SceneService
<1>7. ASSUME NEW p \in Pids, NEW g \in Nat, HasPlayer(g, p)
      PROVE  HasPlayer(g, p)'
  <2>1. /\ g \in DOMAIN m_Players /\ p \in m_Players[g] =>
             \/ g \in DOMAIN m_Players' /\ p \in m_Players'[g]
             \/ h.cmd = "leave_player" /\ h.game_id = g /\ h.pid = p
        /\ h.cmd = "enter_player" /\ h.game_id = g /\ h.pid = p =>
             g \in DOMAIN m_Players' /\ p \in m_Players'[g]
    BY <1>6
  <2> QED
    BY <1>1, <1>2, <1>7, <2>1, PlayerTaken
<1>8. EntrantsFindGame'
  BY <1>3, <1>6 DEF PlayersInv, EntrantsFindGame, SceneHas
<1>9. ASSUME NEW p \in Pids, NEW fd \in Nat, Started(p, fd)'
      PROVE  Started(p, fd)
  <2>1. \A y \in Range(mgrq)' : y \in Range(mgrq) \/ (y = h /\ h.cmd = "new_game")
    <3>1. CASE new_game(s)
      <4>1. mgrq' \in Answer(mgrq, h) /\ h.cmd = "new_game"
        BY <1>1, <3>1 DEF new_game, Receives
      <4>2. mgrq \in Seq(MgrMsgs) /\ h \in MgrMsgs
        BY <1>2, <1>3, <4>1, Fields DEF Types
      <4>3. Range(mgrq') = Range(mgrq) \cup {h}
        BY <4>1, <4>2, AnswerFacts
      <4> QED
        BY <4>1, <4>3
    <3>2. CASE ~new_game(s)
      <4>1. mgrq' = mgrq
        BY <3>2 DEF SceneService, game_over_answer, scene_enter_player,
                    scene_leave_player, mgrVars
      <4> QED
        BY <4>1
    <3> QED
      BY <3>1, <3>2
  <2>2. agentq'[p] = agentq[p]
    BY <1>2 DEF agentVars
  <2>3. \A y \in InScenes' : y \in InScenes
    BY <1>3
  <2> QED
    BY <1>3, <1>9, <2>1, <2>2, <2>3, StartedFacts
<1>10. StartedOnce' /\ ClaimsHold'
  BY <1>2, <1>7, <1>9, AgentsApart
<1> QED
  BY <1>5, <1>8, <1>10 DEF PlayersInv

LEMMA PlayersInit == Init => PlayersInv
<1> SUFFICES ASSUME Init
             PROVE  PlayersInv
  OBVIOUS
<1>1. GameInv
  BY GameInit
<1>2. /\ \A p \in Pids : playerlist[p] = nil /\ DOMAIN agentq[p] = {}
                         /\ Range(agentq[p]) = {}
      /\ Range(mgrq) = {} /\ InScenes = {}
      /\ \A s \in Scenes : DOMAIN sceneq[s] = {}
  BY DEF Init, Range, InScenes
<1>3. AtItsService /\ EntrantsFindGame
  BY <1>2 DEF AtItsService, EntrantsFindGame, SceneHas
<1>4. StartedOnce
  BY <1>2 DEF StartedOnce, Started, ToStart
<1>5. ClaimsHold
  BY <1>2 DEF ClaimsHold, Claims
<1> QED
  BY <1>1, <1>3, <1>4, <1>5 DEF PlayersInv

LEMMA PlayersStep == PlayersInv /\ GameInv' /\ [Next]_vars => PlayersInv'
<1> SUFFICES ASSUME PlayersInv, GameInv', [Next]_vars
             PROVE  PlayersInv'
  OBVIOUS
<1>1. ASSUME NEW pid \in Pids, Connect(pid) \/ Disconnect(pid) \/ Agent(pid)
      PROVE  PlayersInv'
  BY <1>1, Players_Connect, Players_Disconnect, Players_start, Players_enterwar,
     Players_kick DEF Agent
<1>2. CASE SceneMgr
  BY <1>2, Players_enter_player, Players_new_proxy, Players_new_game_answer,
     Players_mgr_game_over DEF SceneMgr
<1>3. ASSUME NEW s \in Scenes, SceneService(s)
      PROVE  PlayersInv'
  BY <1>3, Players_scene
<1>4. CASE (\E game_id \in checking : check_over(game_id)) \/ UNCHANGED vars
  <2>1. UNCHANGED <<agentVars, sceneq, m_Players>>
    BY <1>4 DEF check_over, sceneVars, vars
  <2>2. \A y \in Range(mgrq)' : y \in Range(mgrq) \/ y.cmd = "game_over"
    <3>1. CASE UNCHANGED vars
      BY <3>1 DEF vars, mgrVars
    <3>2. ASSUME NEW g \in checking, check_over(g)
          PROVE  \A y \in Range(mgrq)' : y \in Range(mgrq) \/ y.cmd = "game_over"
      <4>1. Types /\ g \in Nat
        BY DEF PlayersInv, GameInv, Types
      <4>2. PICK m : m = AboutGame("game_over", g)
        OBVIOUS
      <4>3. m \in MgrMsgs /\ m.cmd = "game_over"
        BY <4>1, <4>2, Messages
      <4>4. Range(mgrq)' = Range(mgrq) \cup {m}
        BY <3>2, <4>1, <4>2, <4>3, MgrSent DEF check_over
      <4> QED
        BY <4>3, <4>4
    <3> QED
      BY <1>4, <3>1, <3>2
  <2>3. AtItsService' /\ EntrantsFindGame' /\ InScenes' = InScenes
    BY <2>1 DEF PlayersInv, AtItsService, EntrantsFindGame, SceneHas, InScenes
  <2>4. ASSUME NEW p \in Pids, NEW fd \in Nat, Started(p, fd)'
        PROVE  Started(p, fd)
    <3>1. agentq'[p] = agentq[p]
      BY <2>1 DEF agentVars
    <3> QED
      BY <2>2, <2>3, <2>4, <3>1, StartedFacts
  <2>5. \A p \in Pids, g \in Nat : HasPlayer(g, p) => HasPlayer(g, p)'
    BY <2>1 DEF HasPlayer
  <2>6. StartedOnce' /\ ClaimsHold'
    BY <2>1, <2>4, <2>5, AgentsApart
  <2> QED
    BY <2>3, <2>6 DEF PlayersInv
<1> QED
  BY <1>1, <1>2, <1>3, <1>4 DEF Next

(* When nothing about a player is on its way, the game its agent sends its  *)
(* controls to has it, however logouts, entries and answers have crossed.   *)
THEOREM AgentsKnow == Spec => []AgentKnowsGame
<1>1. PlayersInv => AgentKnowsGame
  <2> SUFFICES ASSUME PlayersInv, NEW pid \in Pids, InGame(pid),
                      \A m \in InScenes :
                        m.cmd \in {"enter_player", "leave_player"} => m.pid # pid
               PROVE  /\ playerlist[pid].m_GameID \in DOMAIN m_Players
                      /\ pid \in m_Players[playerlist[pid].m_GameID]
    BY DEF AgentKnowsGame
  <2>1. PICK g \in Nat : g = playerlist[pid].m_GameID
    BY DEF PlayersInv, GameInv, Types, InGame
  <2>2. HasPlayer(g, pid)
    BY <2>1 DEF PlayersInv, ClaimsHold, Claims, InGame
  <2>3. get_scene_service(g) \in Scenes
    BY ServiceIsScene
  <2>4. ~EntersLast(sceneq[get_scene_service(g)], g, pid)
    BY <2>3 DEF EntersLast, Enters, InScenes, Range
  <2> QED
    BY <2>1, <2>2, <2>4 DEF HasPlayer
<1>2. Spec => []PlayersInv
  BY PlayersInit, PlayersStep, GameInvariant, PTL DEF Spec
<1> QED
  BY <1>1, <1>2, PTL

LEMMA OneAppended ==
  ASSUME NEW m
  PROVE  /\ Append(<<>>, m) # <<>> /\ Len(Append(<<>>, m)) = 1
         /\ Head(Append(<<>>, m)) = m /\ Range(Append(<<>>, m)) = {m}
<1>1. PICK q : q = <<m>>
  OBVIOUS
<1>2. Append(<<>>, m) = q
  BY <1>1
<1>3. Len(q) = 1 /\ q[1] = m /\ DOMAIN q = {1}
  BY <1>1
<1>4. q # <<>>
  BY <1>3
<1>5. Head(q) = m
  BY <1>1
<1> QED
  BY <1>2, <1>3, <1>4, <1>5 DEF Range

LEMMA OneHeld ==
  ASSUME NEW S, NEW q \in Seq(S), Len(q) = 1
  PROVE  Tail(q) = <<>> /\ DOMAIN q = {1} /\ Head(q) = q[1] /\ q[1] \in S
<1>1. q # <<>>
  BY EmptySeq
<1>2. DOMAIN q = {1} /\ Head(q) = q[1] /\ q[1] \in S
  BY <1>1
<1>3. Tail(q) \in Seq(S) /\ Len(Tail(q)) = 0
  BY <1>1
<1>4. Tail(q) = <<>>
  BY <1>3, EmptySeq
<1> QED
  BY <1>2, <1>4

-----------------------------------------------------------------------------
(* A player is in one game at a time, if clients come back only after they  *)
(* have left, and leave only a game that they are in.  Then a login is one  *)
(* thing at a time: a start, a call, its answer, a player in a game, a      *)
(* logout, a leave on its way.                                              *)

(* Where a call of enter_player may be, or the call that it makes: in       *)
(* SCENE_MGR's mailbox (0) or in that of a service.                         *)
Places == {0} \cup Scenes

Mailbox(c) == IF c = 0 THEN mgrq ELSE sceneq[c]

IsCall(c, m, p) ==
  (m.cmd = "new_game" \/ (m.cmd = "enter_player" /\ c = 0)) /\ m.pid = p

CallAt(p, c, i) == i \in DOMAIN Mailbox(c) /\ IsCall(c, Mailbox(c)[i], p)

NoCall(p) == \A c \in Places, i \in Nat : ~CallAt(p, c, i)

OneCall(p) ==
  \A c, d \in Places : \A i, j \in Nat :
    CallAt(p, c, i) /\ CallAt(p, d, j) => c = d /\ i = j

(* A call is made for the player that waits for it.                         *)
Waits(p, fd) ==
  /\ agentq[p] = <<>>
  /\ playerlist[p] # nil
  /\ playerlist[p].m_FD = fd /\ playerlist[p].m_GameID = nil

CallsWait(p) ==
  \A c \in Places, i \in Nat : CallAt(p, c, i) => Waits(p, Mailbox(c)[i].fd)

(* The one message that an agent may have about a player.                   *)
OneMessage(p) ==
  agentq[p] # <<>> =>
    /\ Len(agentq[p]) = 1
    /\ Head(agentq[p]).cmd = "start" => playerlist[p] = nil
    /\ Head(agentq[p]).cmd = "entering" =>
         /\ playerlist[p] # nil
         /\ playerlist[p].m_FD = Head(agentq[p]).fd
         /\ playerlist[p].m_GameID = nil
    /\ Head(agentq[p]).cmd = "kick" => InGame(p) /\ p \notin online

Away(p) == playerlist[p] = nil /\ agentq[p] = <<>>

Left(g, p) ==
  \E m \in InScenes : m.cmd = "leave_player" /\ m.game_id = g /\ m.pid = p

LeavesAway(p) ==
  \A g \in Nat : Left(g, p) => Away(p) /\ \A h \in Nat : Left(h, p) => g = h

(* The last that a service hears of a player is the leave.                  *)
NoEnter(q, g, pid) == \A i \in DOMAIN q : ~Enters(q, i, g, pid)

LeavesLast(q, g, pid) ==
  \E i \in DOMAIN q :
    /\ Leaves(q, i, g, pid)
    /\ \A j \in DOMAIN q : Enters(q, j, g, pid) => j < i

Leaving(g, p) == LeavesLast(sceneq[get_scene_service(g)], g, p)

MembersKnown(p) ==
  \A g \in Nat : p \in Members(g) => Claims(p, g) \/ Leaving(g, p)

Stage(p) ==
  OneCall(p) /\ CallsWait(p) /\ OneMessage(p) /\ LeavesAway(p) /\ MembersKnown(p)

LoginsInv == \A p \in Pids : Stage(p)

(* A mailbox that a message is taken from, or that one gets into which is   *)
(* no call of a player, keeps the player's calls in their order.            *)
Keeps(p, c) ==
  \/ Mailbox(c)' = Mailbox(c)
  \/ Mailbox(c) # <<>> /\ Mailbox(c)' = Tail(Mailbox(c))
  \/ \E m, k : k \in Nat /\ GotIn(Mailbox(c), m, Mailbox(c)', k) /\ ~IsCall(c, m, p)

LEMMA MailboxTypes ==
  ASSUME Types, NEW c \in Places
  PROVE  Mailbox(c) \in Seq(MgrMsgs \cup SceneMsgs)
  BY DEF Types, Places, Mailbox

LEMMA AppendGetsIn ==
  ASSUME NEW S, NEW q \in Seq(S), NEW m
  PROVE  GotIn(q, m, Append(q, m), Len(q) + 1) /\ Len(q) + 1 \in Nat
<1>1. /\ Len(q) \in Nat /\ DOMAIN q = 1 .. Len(q)
      /\ DOMAIN Append(q, m) = 1 .. Len(q) + 1
      /\ \A i \in 1 .. Len(q) : Append(q, m)[i] = q[i]
      /\ Append(q, m)[Len(q) + 1] = m
  OBVIOUS
<1> QED
  BY <1>1 DEF GotIn

LEMMA CallsInOrder ==
  ASSUME Types, NEW p, NEW c \in Places, Keeps(p, c),
         NEW i \in Nat, CallAt(p, c, i)', NEW j \in Nat, CallAt(p, c, j)'
  PROVE  \E x, y \in Nat :
           /\ CallAt(p, c, x) /\ CallAt(p, c, y)
           /\ Mailbox(c)[x] = Mailbox(c)'[i]
           /\ x = y => i = j
<1>1. PICK q : q = Mailbox(c)
  OBVIOUS
<1>2. PICK r : r = Mailbox(c)'
  OBVIOUS
<1>3. q \in Seq(MgrMsgs \cup SceneMsgs)
  BY <1>1, MailboxTypes
<1>4. i \in DOMAIN r /\ IsCall(c, r[i], p) /\ j \in DOMAIN r /\ IsCall(c, r[j], p)
  BY <1>2 DEF CallAt, IsCall
<1>5. \A x : CallAt(p, c, x) <=> x \in DOMAIN q /\ IsCall(c, q[x], p)
  BY <1>1 DEF CallAt
<1>6. CASE r = q
  BY <1>1, <1>2, <1>4, <1>5, <1>6
<1>7. CASE q # <<>> /\ r = Tail(q)
  <2>1. \A l \in DOMAIN Tail(q) :
          l \in Nat /\ l + 1 \in DOMAIN q /\ Tail(q)[l] = q[l + 1]
    BY <1>3, <1>7, TailFacts
  <2>2. /\ i + 1 \in DOMAIN q /\ r[i] = q[i + 1]
        /\ j + 1 \in DOMAIN q /\ r[j] = q[j + 1]
    BY <1>4, <1>7, <2>1
  <2>3. i + 1 \in Nat /\ j + 1 \in Nat /\ (i + 1 = j + 1 => i = j)
    OBVIOUS
  <2> QED
    BY <1>1, <1>2, <1>4, <1>5, <2>2, <2>3
<1>8. ASSUME NEW m, NEW k \in Nat, GotIn(q, m, r, k), ~IsCall(c, m, p)
      PROVE  \E x, y \in Nat :
               /\ CallAt(p, c, x) /\ CallAt(p, c, y)
               /\ Mailbox(c)[x] = Mailbox(c)'[i]
               /\ x = y => i = j
  <2>1. ASSUME NEW l \in DOMAIN r, IsCall(c, r[l], p)
        PROVE  \E x \in Nat : /\ x \in DOMAIN q /\ r[l] = q[x]
                              /\ (l < k /\ x = l) \/ (l > k /\ x = l - 1)
    <3>1. l # k
      BY <1>8, <2>1 DEF GotIn
    <3>2. CASE l < k
      BY <1>8, <2>1, <3>2 DEF GotIn
    <3>3. CASE l > k
      <4>1. l \in Nat /\ l - 1 \in Nat /\ l - 1 \in DOMAIN q /\ r[l] = q[l - 1]
        BY <1>8, <2>1, <3>3 DEF GotIn
      <4> QED
        BY <3>3, <4>1
    <3> QED
      BY <1>8, <3>1, <3>2, <3>3 DEF GotIn
  <2>2. PICK x \in Nat : /\ x \in DOMAIN q /\ r[i] = q[x]
                         /\ (i < k /\ x = i) \/ (i > k /\ x = i - 1)
    BY <1>4, <2>1
  <2>3. PICK y \in Nat : /\ y \in DOMAIN q /\ r[j] = q[y]
                         /\ (j < k /\ y = j) \/ (j > k /\ y = j - 1)
    BY <1>4, <2>1
  <2>4. x = y => i = j
    BY <2>2, <2>3
  <2> QED
    BY <1>1, <1>2, <1>4, <1>5, <2>2, <2>3, <2>4
<1> QED
  BY <1>1, <1>2, <1>6, <1>7, <1>8 DEF Keeps

LEMMA CallsKept ==
  ASSUME Types, NEW p, \A c \in Places : Keeps(p, c)
  PROVE  /\ OneCall(p) => OneCall(p)'
         /\ \A c \in Places, i \in Nat :
              CallAt(p, c, i)' =>
                \E x \in Nat : CallAt(p, c, x) /\ Mailbox(c)[x] = Mailbox(c)'[i]
         /\ NoCall(p) => NoCall(p)'
<1>1. ASSUME NEW c \in Places, NEW i \in Nat, CallAt(p, c, i)'
      PROVE  \E x \in Nat : CallAt(p, c, x) /\ Mailbox(c)[x] = Mailbox(c)'[i]
  BY <1>1, CallsInOrder
<1>2. ASSUME OneCall(p), NEW c \in Places, NEW d \in Places, NEW i \in Nat,
             NEW j \in Nat, CallAt(p, c, i)', CallAt(p, d, j)'
      PROVE  c = d /\ i = j
  <2>1. c = d
    BY <1>1, <1>2 DEF OneCall
  <2>2. PICK x, y \in Nat :
          CallAt(p, c, x) /\ CallAt(p, c, y) /\ (x = y => i = j)
    BY <1>2, <2>1, CallsInOrder
  <2> QED
    BY <1>2, <2>1, <2>2 DEF OneCall
<1>3. Places' = Places
  BY DEF Places, Scenes
<1>4. OneCall(p) => OneCall(p)'
  BY <1>2, <1>3 DEF OneCall
<1>5. NoCall(p) => NoCall(p)'
  BY <1>1, <1>3 DEF NoCall
<1> QED
  BY <1>1, <1>4, <1>5

(* A call that is taken was the only one.                                   *)
LEMMA CallTaken ==
  ASSUME Types, NEW p, OneCall(p), NEW c \in Places,
         Mailbox(c) # <<>>, IsCall(c, Head(Mailbox(c)), p),
         Mailbox(c)' = Tail(Mailbox(c)),
         \A d \in Places : Keeps(p, d)
  PROVE  CallAt(p, c, 1) /\ NoCall(p)'
<1>1. Mailbox(c) \in Seq(MgrMsgs \cup SceneMsgs)
  BY MailboxTypes
<1>2. /\ 1 \in DOMAIN Mailbox(c) /\ Head(Mailbox(c)) = Mailbox(c)[1]
      /\ \A l \in DOMAIN Tail(Mailbox(c)) :
           /\ l \in Nat /\ l + 1 \in DOMAIN Mailbox(c)
           /\ Tail(Mailbox(c))[l] = Mailbox(c)[l + 1]
  BY <1>1, TailFacts
<1>3. CallAt(p, c, 1)
  BY <1>2 DEF CallAt
<1>4. ASSUME NEW d \in Places, NEW i \in Nat, CallAt(p, d, i)'
      PROVE  FALSE
  <2>1. d = c
    BY <1>3, <1>4, CallsKept DEF OneCall
  <2>2. i \in DOMAIN Mailbox(c)' /\ IsCall(c, Mailbox(c)'[i], p)
    BY <1>4, <2>1 DEF CallAt, IsCall
  <2>3. CallAt(p, c, i + 1) /\ i + 1 \in Nat
    BY <1>2, <2>2 DEF CallAt
  <2>4. i \in DOMAIN Tail(Mailbox(c))
    BY <2>2
  <2>5. i # 0
    BY <1>1, <2>4
  <2> QED
    BY <1>3, <2>3, <2>5 DEF OneCall
<1>5. Places' = Places
  BY DEF Places, Scenes
<1> QED
  BY <1>3, <1>4, <1>5 DEF NoCall

(* A call that is made when there is none is the only one.                  *)
LEMMA CallMade ==
  ASSUME Types, NEW p, NEW c \in Places, NEW m, NEW k \in Nat,
         GotIn(Mailbox(c), m, Mailbox(c)', k),
         \A i \in Nat : ~CallAt(p, c, i),
         \A d \in Places : d # c => \A i \in Nat : ~CallAt(p, d, i)'
  PROVE  /\ OneCall(p)'
         /\ \A d \in Places, i \in Nat :
              CallAt(p, d, i)' => d = c /\ Mailbox(c)'[i] = m
<1>1. ASSUME NEW i \in Nat, CallAt(p, c, i)'
      PROVE  i = k /\ Mailbox(c)'[i] = m
  <2>1. i \in DOMAIN Mailbox(c)' /\ IsCall(c, Mailbox(c)'[i], p)
    BY <1>1 DEF CallAt, IsCall
  <2>2. i < k => CallAt(p, c, i)
    BY <2>1 DEF GotIn, CallAt
  <2>3. i > k => CallAt(p, c, i - 1) /\ i - 1 \in Nat
    BY <2>1 DEF GotIn, CallAt
  <2> QED
    BY <2>2, <2>3 DEF GotIn
<1>2. Places' = Places
  BY DEF Places, Scenes
<1>3. OneCall(p)'
  BY <1>1, <1>2 DEF OneCall
<1> QED
  BY <1>1, <1>3

(* A leave stays the last of a player, until it is taken.                   *)
LEMMA LeaveInTail ==
  ASSUME NEW S, NEW q \in Seq(S), q # <<>>, NEW g, NEW pid, LeavesLast(q, g, pid)
  PROVE  \/ LeavesLast(Tail(q), g, pid)
         \/ Leaves(q, 1, g, pid) /\ NoEnter(Tail(q), g, pid)
<1>1. /\ 1 \in DOMAIN q
      /\ \A i \in DOMAIN Tail(q) :
           i \in Nat /\ i + 1 \in DOMAIN q /\ Tail(q)[i] = q[i + 1]
  BY TailFacts
<1>2. ASSUME NEW i \in DOMAIN q, i # 1
      PROVE  i - 1 \in DOMAIN Tail(q) /\ Tail(q)[i - 1] = q[i] /\ i \in Nat
  BY <1>2
<1>3. \A i \in DOMAIN Tail(q) : i \in Nat /\ i # 0
  OBVIOUS
<1>4. PICK i \in DOMAIN q : /\ Leaves(q, i, g, pid)
                            /\ \A j \in DOMAIN q : Enters(q, j, g, pid) => j < i
  BY DEF LeavesLast
<1>5. CASE i = 1
  <2>1. \A j \in DOMAIN Tail(q) : ~Enters(Tail(q), j, g, pid)
    BY <1>1, <1>3, <1>4, <1>5 DEF Enters
  <2> QED
    BY <1>4, <1>5, <2>1 DEF NoEnter
<1>6. CASE i # 1
  <2>1. i - 1 \in DOMAIN Tail(q) /\ Tail(q)[i - 1] = q[i] /\ i \in Nat
    BY <1>2, <1>6
  <2>2. \A j \in DOMAIN Tail(q) : Enters(Tail(q), j, g, pid) => j < i - 1
    BY <1>1, <1>4, <2>1 DEF Enters
  <2> QED
    BY <1>4, <2>1, <2>2 DEF LeavesLast, Leaves
<1> QED
  BY <1>5, <1>6

LEMMA LeaveGotIn ==
  ASSUME NEW q, NEW m, NEW r, NEW k \in Nat, GotIn(q, m, r, k), NEW g, NEW pid,
         ~(m.cmd = "enter_player" /\ m.game_id = g /\ m.pid = pid),
         LeavesLast(q, g, pid)
  PROVE  LeavesLast(r, g, pid)
<1>1. ASSUME NEW j \in DOMAIN r, Enters(r, j, g, pid)
      PROVE  \/ j < k /\ j \in DOMAIN q /\ Enters(q, j, g, pid)
             \/ j > k /\ j - 1 \in DOMAIN q /\ Enters(q, j - 1, g, pid)
  BY <1>1 DEF Enters, GotIn
<1>2. PICK i \in DOMAIN q : /\ Leaves(q, i, g, pid)
                            /\ \A j \in DOMAIN q : Enters(q, j, g, pid) => j < i
  BY DEF LeavesLast
<1>3. PICK x \in DOMAIN r : /\ r[x] = q[i]
                            /\ (i < k /\ x = i) \/ (i >= k /\ x = i + 1)
  BY DEF GotIn
<1>4. \A j \in DOMAIN r : Enters(r, j, g, pid) => j < x
  BY <1>1, <1>2, <1>3 DEF GotIn
<1> QED
  BY <1>2, <1>3, <1>4 DEF LeavesLast, Leaves

LEMMA LeaveAppended ==
  ASSUME NEW S, NEW q \in Seq(S), NEW m, m.cmd = "leave_player",
         NEW g, m.game_id = g, NEW pid, m.pid = pid
  PROVE  LeavesLast(Append(q, m), g, pid)
<1> DEFINE r == Append(q, m)
           n == Len(q) + 1
<1>1. /\ n \in DOMAIN r /\ r[n] = m
      /\ \A i \in DOMAIN r : i \in Nat /\ (i < n \/ i = n)
  OBVIOUS
<1> HIDE DEF r, n
<1>2. \A j \in DOMAIN r : Enters(r, j, g, pid) => j < n
  BY <1>1 DEF Enters
<1>3. Leaves(r, n, g, pid)
  BY <1>1 DEF Leaves
<1>4. LeavesLast(r, g, pid)
  BY <1>1, <1>2, <1>3 DEF LeavesLast
<1> QED
  BY <1>4 DEF r

(* The same for the leave of a player on its way to the game's service.     *)
LEMMA LeavingFacts ==
  \A g \in Nat : \A p :
    /\ Leaving(g, p) <=> LeavesLast(sceneq[get_scene_service(g)], g, p)
    /\ Leaving(g, p)' <=> LeavesLast(sceneq'[get_scene_service(g)], g, p)
  BY DEF Leaving

LEMMA LeavingTaken ==
  ASSUME Types, AtItsService, NEW s \in Scenes, sceneq[s] # <<>>,
         NEW h, h = Head(sceneq[s]),
         sceneq' = [sceneq EXCEPT ![s] = Tail(@)],
         NEW g \in Nat, NEW p, Leaving(g, p)
  PROVE  \/ Leaving(g, p)'
         \/ /\ h.cmd = "leave_player" /\ h.game_id = g /\ h.pid = p
            /\ \A m \in InScenes' :
                 ~(m.cmd = "enter_player" /\ m.game_id = g /\ m.pid = p)
<1>1. PICK t \in Scenes : t = get_scene_service(g)
  BY ServiceIsScene
<1>2. /\ sceneq[s] \in Seq(SceneMsgs)
      /\ sceneq'[s] = Tail(sceneq[s])
      /\ \A u \in Scenes : u # s => sceneq'[u] = sceneq[u]
  BY DEF Types
<1>3. 1 \in DOMAIN sceneq[s] /\ h = sceneq[s][1]
  BY <1>2, TailFacts
<1>4. LeavesLast(sceneq[t], g, p)
  BY <1>1, LeavingFacts
<1>5. CASE t # s
  BY <1>1, <1>2, <1>4, <1>5, LeavingFacts
<1>6. CASE t = s /\ ~LeavesLast(Tail(sceneq[s]), g, p)
  <2>1. Leaves(sceneq[s], 1, g, p) /\ NoEnter(sceneq'[s], g, p)
    BY <1>2, <1>4, <1>6, LeaveInTail
  <2>2. ASSUME NEW m \in InScenes', m.cmd = "enter_player", m.game_id = g, m.pid = p
        PROVE  FALSE
    <3>1. PICK u \in Scenes : m \in Range(sceneq'[u])
      BY <2>2 DEF InScenes
    <3>2. PICK i \in DOMAIN sceneq'[u] : m = sceneq'[u][i]
      BY <3>1 DEF Range
    <3>3. AtItsService'
      BY ServiceTaken
    <3>4. u = s
      BY <1>1, <1>6, <2>2, <3>2, <3>3 DEF AtItsService
    <3> QED
      BY <2>1, <2>2, <3>2, <3>4 DEF NoEnter, Enters
  <2> QED
    BY <1>3, <2>1, <2>2 DEF Leaves
<1>7. CASE t = s /\ LeavesLast(Tail(sceneq[s]), g, p)
  BY <1>1, <1>2, <1>7, LeavingFacts
<1> QED
  BY <1>5, <1>6, <1>7

LEMMA LeavingSent ==
  ASSUME Types, NEW m \in SceneMsgs, sceneq' = SendScene(sceneq, m)
  PROVE  \A g \in Nat : \A p :
           /\ ~(m.cmd = "enter_player" /\ m.game_id = g /\ m.pid = p)
                => (Leaving(g, p) => Leaving(g, p)')
           /\ m.cmd = "leave_player" /\ m.game_id = g /\ m.pid = p => Leaving(g, p)'
<1>1. m.game_id \in Nat
  BY Fields
<1>2. PICK s \in Scenes : s = get_scene_service(m.game_id)
  BY <1>1, ServiceIsScene
<1>3. sceneq' = [sceneq EXCEPT ![s] = Append(@, m)]
  BY <1>2 DEF SendScene
<1>4. /\ sceneq[s] \in Seq(SceneMsgs)
      /\ sceneq'[s] = Append(sceneq[s], m)
      /\ \A u \in Scenes : u # s => sceneq'[u] = sceneq[u]
  BY <1>3 DEF Types
<1>5. GotIn(sceneq[s], m, sceneq'[s], Len(sceneq[s]) + 1) /\ Len(sceneq[s]) + 1 \in Nat
  BY <1>4, AppendGetsIn
<1>6. ASSUME NEW g \in Nat, NEW p, Leaving(g, p),
             ~(m.cmd = "enter_player" /\ m.game_id = g /\ m.pid = p)
      PROVE  Leaving(g, p)'
  <2>1. PICK t \in Scenes : t = get_scene_service(g)
    BY ServiceIsScene
  <2>2. CASE t = s
    BY <1>5, <1>6, <2>1, <2>2, LeaveGotIn, LeavingFacts
  <2>3. CASE t # s
    BY <1>4, <1>6, <2>1, <2>3, LeavingFacts
  <2> QED
    BY <2>2, <2>3
<1>7. ASSUME NEW g \in Nat, NEW p,
             m.cmd = "leave_player", m.game_id = g, m.pid = p
      PROVE  Leaving(g, p)'
  BY <1>2, <1>4, <1>7, LeaveAppended, LeavingFacts
<1> QED
  BY <1>6, <1>7

LEMMA LeavingAnswered ==
  ASSUME Types, NEW m, m.cmd = "game_over", NEW s \in Scenes,
         NEW k \in Nat, GotIn(sceneq[s], m, sceneq'[s], k),
         \A t \in Scenes : t # s => sceneq'[t] = sceneq[t]
  PROVE  \A g \in Nat : \A p : Leaving(g, p) => Leaving(g, p)'
<1> SUFFICES ASSUME NEW g \in Nat, NEW p, Leaving(g, p)
             PROVE  Leaving(g, p)'
  OBVIOUS
<1>1. PICK t \in Scenes : t = get_scene_service(g)
  BY ServiceIsScene
<1>2. CASE t = s
  BY <1>1, <1>2, LeaveGotIn, LeavingFacts
<1>3. CASE t # s
  BY <1>1, <1>3, LeavingFacts
<1> QED
  BY <1>2, <1>3

LEMMA MailboxFacts ==
  /\ 0 \in Places /\ Scenes \subseteq Places
  /\ \A c \in Places : c = 0 \/ c \in Scenes
  /\ Mailbox(0) = mgrq /\ Mailbox(0)' = mgrq'
  /\ \A s \in Scenes : s # 0 /\ Mailbox(s) = sceneq[s] /\ Mailbox(s)' = sceneq'[s]
<1>1. 0 \notin Scenes
  BY GameLifeAssumption DEF Scenes
<1> QED
  BY <1>1 DEF Places, Mailbox

LEMMA ScenesKeep ==
  ASSUME Types
  PROVE  /\ UNCHANGED mgrq => \A p : Keeps(p, 0)
         /\ mgrq # <<>> /\ mgrq' = Tail(mgrq) => \A p : Keeps(p, 0)
         /\ UNCHANGED sceneq => \A p : \A s \in Scenes : Keeps(p, s)
         /\ \A s \in Scenes :
              sceneq[s] # <<>> /\ sceneq' = [sceneq EXCEPT ![s] = Tail(@)]
                => \A p : \A t \in Scenes : Keeps(p, t)
         /\ \A m \in SceneMsgs :
              sceneq' = SendScene(sceneq, m)
                => \A p : m.cmd # "new_game" \/ m.pid # p
                            => \A t \in Scenes : Keeps(p, t)
<1>1. UNCHANGED mgrq => \A p : Keeps(p, 0)
  BY MailboxFacts DEF Keeps
<1>2. mgrq # <<>> /\ mgrq' = Tail(mgrq) => \A p : Keeps(p, 0)
  BY MailboxFacts DEF Keeps
<1>3. UNCHANGED sceneq => \A p : \A s \in Scenes : Keeps(p, s)
  BY MailboxFacts DEF Keeps
<1>4. ASSUME NEW s \in Scenes, sceneq[s] # <<>>,
             sceneq' = [sceneq EXCEPT ![s] = Tail(@)], NEW p, NEW t \in Scenes
      PROVE  Keeps(p, t)
  <2>1. sceneq'[t] = sceneq[t] \/ (sceneq[t] # <<>> /\ sceneq'[t] = Tail(sceneq[t]))
    BY <1>4 DEF Types
  <2> QED
    BY <2>1, MailboxFacts DEF Keeps
<1>5. ASSUME NEW m \in SceneMsgs, sceneq' = SendScene(sceneq, m), NEW p,
             m.cmd # "new_game" \/ m.pid # p, NEW t \in Scenes
      PROVE  Keeps(p, t)
  <2>1. PICK s : s = get_scene_service(m.game_id)
    OBVIOUS
  <2>2. sceneq' = [sceneq EXCEPT ![s] = Append(@, m)]
    BY <1>5, <2>1 DEF SendScene
  <2>3. sceneq[t] \in Seq(SceneMsgs)
    BY DEF Types
  <2>4. CASE t # s
    <3>1. sceneq'[t] = sceneq[t]
      BY <2>2, <2>4 DEF Types
    <3> QED
      BY <3>1, MailboxFacts DEF Keeps
  <2>5. CASE t = s
    <3>1. sceneq'[t] = Append(sceneq[t], m)
      BY <2>2, <2>5 DEF Types
    <3>2. PICK k \in Nat : GotIn(sceneq[t], m, sceneq'[t], k)
      BY <2>3, <3>1, AppendGetsIn
    <3>3. ~IsCall(t, m, p)
      BY <1>5, MailboxFacts DEF IsCall
    <3> QED
      BY <3>2, <3>3, MailboxFacts DEF Keeps
  <2> QED
    BY <2>4, <2>5
<1> QED
  BY <1>1, <1>2, <1>3, <1>4, <1>5

LEMMA StageFacts ==
  /\ \A p \in Pids, fd \in Nat :
       /\ Waits(p, fd)' <=>
            /\ agentq'[p] = <<>> /\ playerlist'[p] # nil
            /\ playerlist'[p].m_FD = fd /\ playerlist'[p].m_GameID = nil
       /\ Waits(p, fd) <=>
            /\ agentq[p] = <<>> /\ playerlist[p] # nil
            /\ playerlist[p].m_FD = fd /\ playerlist[p].m_GameID = nil
  /\ \A p, g :
       /\ Left(g, p)' <=>
            \E m \in InScenes' : m.cmd = "leave_player" /\ m.game_id = g /\ m.pid = p
       /\ Left(g, p) <=>
            \E m \in InScenes : m.cmd = "leave_player" /\ m.game_id = g /\ m.pid = p
  BY DEF Waits, Left

(* A player whom a step does not concern.                                   *)
LEMMA StageKept ==
  ASSUME Types, NEW p \in Pids, Stage(p), \A c \in Places : Keeps(p, c),
         agentq'[p] = agentq[p], playerlist'[p] = playerlist[p],
         p \in online' => p \in online,
         \A g \in Nat : Left(g, p)' => Left(g, p),
         \A g \in Nat : p \in Members(g)' =>
           p \in Members(g) /\ (Leaving(g, p) => Leaving(g, p)')
  PROVE  Stage(p)'
<1>1. Places' = Places
  BY DEF Places, Scenes
<1>2. /\ OneCall(p)'
      /\ \A c \in Places, i \in Nat :
           CallAt(p, c, i)' =>
             \E x \in Nat : CallAt(p, c, x) /\ Mailbox(c)[x] = Mailbox(c)'[i]
  BY CallsKept DEF Stage
<1>3. CallsWait(p)'
  <2>1. ASSUME NEW c \in Places, NEW i \in Nat, CallAt(p, c, i)'
        PROVE  Waits(p, Mailbox(c)[i].fd)'
    <3>1. PICK x \in Nat : CallAt(p, c, x) /\ Mailbox(c)[x] = Mailbox(c)'[i]
      BY <1>2, <2>1
    <3>2. Waits(p, Mailbox(c)[x].fd)
      BY <3>1 DEF Stage, CallsWait
    <3>3. Mailbox(c)'[i].fd = Mailbox(c)[x].fd
      BY <3>1
    <3> QED
      BY <3>2, <3>3 DEF Waits
  <2> QED
    BY <1>1, <2>1 DEF CallsWait
<1>4. OneMessage(p)'
  BY DEF Stage, OneMessage, InGame
<1>5. LeavesAway(p)'
  BY DEF Stage, LeavesAway, Away
<1>6. MembersKnown(p)'
  BY DEF Stage, MembersKnown, Claims
<1> QED
  BY <1>2, <1>3, <1>4, <1>5, <1>6 DEF Stage

LEMMA LeavingIsLeft ==
  ASSUME NEW g \in Nat, NEW p, Leaving(g, p)
  PROVE  Left(g, p)
<1>1. PICK s \in Scenes : s = get_scene_service(g)
  BY ServiceIsScene
<1>2. PICK i \in DOMAIN sceneq[s] : Leaves(sceneq[s], i, g, p)
  BY <1>1 DEF Leaving, LeavesLast
<1>3. sceneq[s][i] \in InScenes
  BY DEF InScenes, Range
<1> QED
  BY <1>2, <1>3 DEF Left, Leaves

(* What else a player's stage says.                                         *)
LEMMA StageNow ==
  ASSUME Types, NEW p \in Pids, Stage(p)
  PROVE  /\ InGame(p) \/ playerlist[p] = nil \/ agentq[p] # <<>> => NoCall(p)
         /\ playerlist[p] # nil \/ agentq[p] # <<>>
              => \A g \in Nat : ~Left(g, p) /\ ~Leaving(g, p)
         /\ agentq[p] # <<>> =>
              /\ Tail(agentq[p]) = <<>>
              /\ Range(agentq[p]) = {Head(agentq[p])}
              /\ Head(agentq[p]) \in AgentMsgs
         /\ agentq[p] = <<>> => Range(agentq[p]) = {}
<1>1. InGame(p) \/ playerlist[p] = nil \/ agentq[p] # <<>> => NoCall(p)
  BY DEF Stage, CallsWait, Waits, NoCall, InGame
<1>2. playerlist[p] # nil \/ agentq[p] # <<>>
        => \A g \in Nat : ~Left(g, p) /\ ~Leaving(g, p)
  BY LeavingIsLeft DEF Stage, LeavesAway, Away
<1>3. agentq[p] \in Seq(AgentMsgs)
  BY DEF Types
<1>4. agentq[p] # <<>> =>
        /\ Tail(agentq[p]) = <<>>
        /\ DOMAIN agentq[p] = {1} /\ Head(agentq[p]) = agentq[p][1]
        /\ Head(agentq[p]) \in AgentMsgs
  <2> SUFFICES ASSUME agentq[p] # <<>>
               PROVE  /\ Tail(agentq[p]) = <<>>
                      /\ DOMAIN agentq[p] = {1} /\ Head(agentq[p]) = agentq[p][1]
                      /\ Head(agentq[p]) \in AgentMsgs
    OBVIOUS
  <2>1. Len(agentq[p]) = 1
    BY DEF Stage, OneMessage
  <2>2. PICK q \in Seq(AgentMsgs) : q = agentq[p]
    BY <1>3
  <2>3. Len(q) = 1
    BY <2>1, <2>2
  <2>4. Tail(q) = <<>> /\ DOMAIN q = {1} /\ Head(q) = q[1] /\ q[1] \in AgentMsgs
    BY <2>3, OneHeld
  <2> QED
    BY <2>2, <2>4
<1>5. Range(<<>>) = {}
  BY DEF Range
<1> QED
  BY <1>1, <1>2, <1>4, <1>5 DEF Range

(* A player without a call and without a leave.                             *)
LEMMA StageOf ==
  ASSUME NEW p, NoCall(p)', OneMessage(p)', \A g \in Nat : ~Left(g, p)',
         MembersKnown(p)'
  PROVE  Stage(p)'
  BY DEF Stage, NoCall, OneCall, CallsWait, LeavesAway

LEMMA ScenesUnchanged ==
  ASSUME UNCHANGED <<sceneq, m_Players>>, NEW g \in Nat, NEW p
  PROVE  /\ Left(g, p)' <=> Left(g, p)
         /\ Leaving(g, p)' <=> Leaving(g, p)
         /\ p \in Members(g)' <=> p \in Members(g)
<1>1. InScenes' = InScenes
  BY DEF InScenes
<1> QED
  BY <1>1, LeavingFacts, StageFacts, MembersFacts

LEMMA Stages_Connect ==
  ASSUME Types, LoginsInv, Allowed = {}, NEW pid \in Pids, Connect(pid)
  PROVE  LoginsInv'
<1> DEFINE m == [cmd |-> "start", fd |-> nfd + 1]
<1>1. /\ Quiet(pid) /\ online' = online \cup {pid}
      /\ UNCHANGED <<playerlist, mgrq, sceneq, m_Players>>
      /\ agentq' = [agentq EXCEPT ![pid] = Append(@, m)]
      /\ m.cmd = "start"
  BY DEF Connect, mgrVars, sceneVars
<1> HIDE DEF m
<1>2. /\ agentq[pid] = <<>>
      /\ agentq'[pid] = Append(<<>>, m)
      /\ \A p \in Pids : p # pid => agentq'[p] = agentq[p]
  BY <1>1 DEF Types, Quiet
<1>3. \A p : \A c \in Places : Keeps(p, c)
  BY <1>1, ScenesKeep, MailboxFacts
<1>4. ASSUME NEW p \in Pids, p # pid
      PROVE  Stage(p)'
  <2>1. p \in online' => p \in online
    BY <1>1, <1>4
  <2> QED
    BY <1>1, <1>2, <1>3, <1>4, <2>1, StageKept, ScenesUnchanged DEF LoginsInv
<1>5. Stage(pid)'
  <2>1. playerlist[pid] = nil /\ \A g \in Nat : ~Left(g, pid)
    BY <1>1 DEF Quiet, Left
  <2>2. Stage(pid)
    BY DEF LoginsInv
  <2>3. NoCall(pid)'
    BY <1>3, <2>1, <2>2, StageNow, CallsKept
  <2>4. \A g \in Nat : pid \notin Members(g)
    BY <2>1, <2>2, LeavingIsLeft DEF Stage, MembersKnown, Claims
  <2>5. OneMessage(pid)'
    BY <1>1, <1>2, <2>1, OneAppended DEF OneMessage
  <2>6. (\A g \in Nat : ~Left(g, pid)') /\ MembersKnown(pid)'
    BY <1>1, <2>1, <2>4, ScenesUnchanged DEF MembersKnown
  <2> QED
    BY <2>3, <2>5, <2>6, StageOf
<1> QED
  BY <1>4, <1>5 DEF LoginsInv

LEMMA Stages_Disconnect ==
  ASSUME Types, LoginsInv, Allowed = {}, NEW pid \in Pids, Disconnect(pid)
  PROVE  LoginsInv'
<1> DEFINE m == [cmd |-> "kick"]
<1>1. /\ InGame(pid) /\ pid \in online /\ online' = online \ {pid}
      /\ UNCHANGED <<playerlist, mgrq, sceneq, m_Players>>
      /\ agentq' = [agentq EXCEPT ![pid] = Append(@, m)]
      /\ m.cmd = "kick"
  BY DEF Disconnect, mgrVars, sceneVars
<1> HIDE DEF m
<1>2. Stage(pid)
  BY DEF LoginsInv
<1>3. agentq[pid] = <<>>
  <2> SUFFICES ASSUME agentq[pid] # <<>>
               PROVE  FALSE
    OBVIOUS
  <2>1. Head(agentq[pid]) \in AgentMsgs
    BY <1>2, StageNow
  <2>2. Head(agentq[pid]).cmd \in {"start", "kick", "entering"}
    BY <2>1 DEF AgentMsgs
  <2> QED
    BY <1>1, <1>2, <2>2 DEF Stage, OneMessage, InGame
<1>4. /\ agentq'[pid] = Append(<<>>, m)
      /\ \A p \in Pids : p # pid => agentq'[p] = agentq[p]
  BY <1>1, <1>3 DEF Types
<1>5. \A p : \A c \in Places : Keeps(p, c)
  BY <1>1, ScenesKeep, MailboxFacts
<1>6. ASSUME NEW p \in Pids, p # pid
      PROVE  Stage(p)'
  <2>1. p \in online' => p \in online
    BY <1>1
  <2> QED
    BY <1>1, <1>4, <1>5, <1>6, <2>1, StageKept, ScenesUnchanged DEF LoginsInv
<1>7. Stage(pid)'
  <2>1. NoCall(pid)'
    BY <1>1, <1>2, <1>5, StageNow, CallsKept
  <2>2. playerlist[pid] # nil
    BY <1>1 DEF InGame
  <2>3. \A g \in Nat : ~Left(g, pid)' /\ ~Leaving(g, pid)
    BY <1>1, <1>2, <2>2, StageNow, ScenesUnchanged
  <2>4. OneMessage(pid)'
    <3>1. Len(agentq'[pid]) = 1 /\ Head(agentq'[pid]).cmd = "kick"
      BY <1>1, <1>4, OneAppended
    <3>2. InGame(pid)' /\ pid \notin online'
      BY <1>1 DEF InGame
    <3> QED
      BY <3>1, <3>2 DEF OneMessage
  <2>5. ASSUME NEW g \in Nat, pid \in Members(g)'
        PROVE  Claims(pid, g)'
    <3>1. Claims(pid, g)
      BY <1>1, <1>2, <2>3, <2>5, ScenesUnchanged DEF Stage, MembersKnown
    <3>2. playerlist[pid].m_GameID = g
      BY <1>2, <1>3, <3>1, StageNow DEF Claims
    <3> QED
      BY <1>1, <2>2, <3>2 DEF Claims
  <2>6. MembersKnown(pid)'
    BY <2>5 DEF MembersKnown
  <2> QED
    BY <2>1, <2>3, <2>4, <2>6, StageOf
<1> QED
  BY <1>6, <1>7 DEF LoginsInv

(* A login: the player waits for the answer of its call.                    *)
LEMMA Stages_start ==
  ASSUME Types, LoginsInv, NEW pid \in Pids, start(pid)
  PROVE  LoginsInv'
<1>1. PICK h : h = Head(agentq[pid])
  OBVIOUS
<1>2. PICK m : m = EnterPlayer(pid, h.fd)
  OBVIOUS
<1>3. /\ agentq[pid] # <<>> /\ h.cmd = "start"
      /\ agentq' = [agentq EXCEPT ![pid] = Tail(@)]
      /\ playerlist' = [playerlist EXCEPT ![pid] = [m_FD |-> h.fd, m_GameID |-> nil]]
      /\ mgrq' = Append(mgrq, m)
      /\ UNCHANGED <<online, sceneq, m_Players>>
  BY <1>1, <1>2 DEF start, Receives, sceneVars
<1>4. Stage(pid)
  BY DEF LoginsInv
<1>5. /\ NoCall(pid) /\ Tail(agentq[pid]) = <<>> /\ h \in AgentMsgs
      /\ playerlist[pid] = nil
      /\ \A g \in Nat : ~Left(g, pid) /\ ~Leaving(g, pid)
  BY <1>1, <1>3, <1>4, StageNow DEF Stage, OneMessage
<1>6. /\ agentq'[pid] = <<>>
      /\ playerlist'[pid] = [m_FD |-> h.fd, m_GameID |-> nil]
      /\ \A p \in Pids : p # pid =>
           agentq'[p] = agentq[p] /\ playerlist'[p] = playerlist[p]
  BY <1>3, <1>5 DEF Types
<1>7. m.cmd = "enter_player" /\ m.pid = pid /\ m.fd = h.fd
  BY <1>2 DEF EnterPlayer
<1>8. PICK k \in Nat : GotIn(mgrq, m, mgrq', k)
  BY <1>3, AppendGetsIn DEF Types
<1>9. \A p : \A s \in Scenes : Keeps(p, s)
  BY <1>3, ScenesKeep
<1>10. ASSUME NEW p \in Pids, p # pid
       PROVE  Stage(p)'
  <2>1. ~IsCall(0, m, p)
    BY <1>7, <1>10 DEF IsCall
  <2>2. Keeps(p, 0)
    BY <1>8, <2>1, MailboxFacts DEF Keeps
  <2>3. \A c \in Places : Keeps(p, c)
    BY <1>9, <2>2, MailboxFacts
  <2> QED
    BY <1>3, <1>6, <1>10, <2>3, StageKept, ScenesUnchanged DEF LoginsInv
<1>11. Stage(pid)'
  <2>1. \A d \in Places : d # 0 => \A i \in Nat : ~CallAt(pid, d, i)'
    <3> SUFFICES ASSUME NEW d \in Scenes, NEW i \in Nat, CallAt(pid, d, i)'
                 PROVE  FALSE
      BY MailboxFacts
    <3>1. d \in Places /\ Keeps(pid, d)
      BY <1>9, MailboxFacts
    <3> QED
      BY <1>5, <3>1, CallsInOrder DEF NoCall
  <2>2. \A i \in Nat : ~CallAt(pid, 0, i)
    BY <1>5, MailboxFacts DEF NoCall
  <2>3. /\ OneCall(pid)'
        /\ \A d \in Places, i \in Nat : CallAt(pid, d, i)' => Mailbox(d)'[i] = m
    BY <1>8, <2>1, <2>2, MailboxFacts, CallMade
  <2>4. Places' = Places
    BY DEF Places, Scenes
  <2>5. Waits(pid, h.fd)'
    <3>1. playerlist'[pid].m_FD = h.fd /\ playerlist'[pid].m_GameID = nil
      BY <1>6
    <3>2. playerlist'[pid] # nil
      <4>1. h.fd \in Nat
        BY <1>3, <1>5, Fields
      <4>2. playerlist'[pid] \in [m_FD : Nat, m_GameID : {nil} \cup Nat]
        BY <1>6, <4>1
      <4> QED
        BY <4>2, GameLifeAssumption
    <3> QED
      BY <1>6, <3>1, <3>2 DEF Waits
  <2>6. CallsWait(pid)'
    <3>1. ASSUME NEW d \in Places, NEW i \in Nat, CallAt(pid, d, i)'
          PROVE  Waits(pid, Mailbox(d)[i].fd)'
      <4>1. Mailbox(d)'[i].fd = h.fd
        BY <1>7, <2>3, <3>1
      <4> QED
        BY <2>5, <4>1 DEF Waits
    <3> QED
      BY <2>4, <3>1 DEF CallsWait
  <2>7. OneMessage(pid)'
    BY <1>6 DEF OneMessage
  <2>8. \A g \in Nat : ~Left(g, pid)' /\ pid \notin Members(g)
    BY <1>3, <1>4, <1>5, ScenesUnchanged DEF Stage, MembersKnown, Claims
  <2>9. LeavesAway(pid)' /\ MembersKnown(pid)'
    BY <1>3, <2>8, ScenesUnchanged DEF LeavesAway, MembersKnown
  <2> QED
    BY <2>3, <2>6, <2>7, <2>9 DEF Stage
<1> QED
  BY <1>10, <1>11 DEF LoginsInv

(* The answer: the player is in the game that was said.                     *)
LEMMA Stages_enterwar ==
  ASSUME Types, LoginsInv, NEW pid \in Pids, enterwar(pid)
  PROVE  LoginsInv'
<1>1. PICK h : h = Head(agentq[pid])
  OBVIOUS
<1>2. /\ agentq[pid] # <<>> /\ h.cmd = "entering"
      /\ agentq' = [agentq EXCEPT ![pid] = Tail(@)]
      /\ UNCHANGED <<online, mgrq, sceneq, m_Players>>
  BY <1>1 DEF enterwar, Receives, mgrVars, sceneVars
<1>3. Stage(pid)
  BY DEF LoginsInv
<1>4. /\ NoCall(pid) /\ Tail(agentq[pid]) = <<>> /\ h \in AgentMsgs
      /\ Range(agentq[pid]) = {h}
      /\ playerlist[pid] # nil /\ playerlist[pid].m_FD = h.fd
      /\ playerlist[pid].m_GameID = nil
      /\ \A g \in Nat : ~Left(g, pid) /\ ~Leaving(g, pid)
  BY <1>1, <1>2, <1>3, StageNow DEF Stage, OneMessage
<1>5. /\ agentq'[pid] = <<>>
      /\ \A p \in Pids : p # pid => agentq'[p] = agentq[p]
  BY <1>2, <1>4 DEF Types
<1>6. playerlist' = [playerlist EXCEPT ![pid].m_GameID = h.game_id]
  BY <1>1, <1>4 DEF enterwar
<1>7. /\ playerlist'[pid] = [playerlist[pid] EXCEPT !.m_GameID = h.game_id]
      /\ \A p \in Pids : p # pid => playerlist'[p] = playerlist[p]
  BY <1>6 DEF Types
<1>8. playerlist'[pid].m_GameID = h.game_id /\ playerlist'[pid] # nil
  <2>1. playerlist[pid] \in [m_FD : Nat, m_GameID : {nil} \cup Nat]
    BY <1>4 DEF Types
  <2>2. h.game_id \in Nat
    BY <1>2, <1>4, Fields
  <2>3. playerlist'[pid].m_GameID = h.game_id
    BY <1>7, <2>1
  <2>4. playerlist[pid].m_GameID # playerlist'[pid].m_GameID
    BY <1>4, <2>2, <2>3, GameLifeAssumption
  <2>5. playerlist'[pid] \in [m_FD : Nat, m_GameID : {nil} \cup Nat]
    BY <1>7, <2>1, <2>2
  <2> QED
    BY <2>3, <2>5, GameLifeAssumption
<1>9. \A p : \A c \in Places : Keeps(p, c)
  BY <1>2, ScenesKeep, MailboxFacts
<1>10. ASSUME NEW p \in Pids, p # pid
       PROVE  Stage(p)'
  BY <1>2, <1>5, <1>7, <1>9, <1>10, StageKept, ScenesUnchanged DEF LoginsInv
<1>11. Stage(pid)'
  <2>1. NoCall(pid)'
    BY <1>4, <1>9, CallsKept
  <2>2. OneMessage(pid)'
    BY <1>5 DEF OneMessage
  <2>3. \A g \in Nat : ~Left(g, pid)'
    BY <1>2, <1>4, ScenesUnchanged
  <2>4. ASSUME NEW g \in Nat, pid \in Members(g)'
        PROVE  Claims(pid, g)'
    <3>1. Claims(pid, g)
      BY <1>2, <1>3, <1>4, <2>4, ScenesUnchanged DEF Stage, MembersKnown
    <3>2. h.game_id = g
      BY <1>4, <3>1, GameLifeAssumption DEF Claims
    <3> QED
      BY <1>8, <3>2 DEF Claims
  <2>5. MembersKnown(pid)'
    BY <2>4 DEF MembersKnown
  <2> QED
    BY <2>1, <2>2, <2>3, <2>5, StageOf
<1> QED
  BY <1>10, <1>11 DEF LoginsInv

(* A logout: a leave follows the player into the game.                      *)
LEMMA Stages_kick ==
  ASSUME Types, LoginsInv, NEW pid \in Pids, kick(pid)
  PROVE  LoginsInv'
<1>1. /\ agentq[pid] # <<>> /\ Head(agentq[pid]).cmd = "kick"
      /\ agentq' = [agentq EXCEPT ![pid] = Tail(@)]
      /\ playerlist' = [playerlist EXCEPT ![pid] = nil]
      /\ UNCHANGED <<online, mgrq, m_Players>>
  BY DEF kick, Receives, mgrVars
<1>2. Stage(pid)
  BY DEF LoginsInv
<1>3. /\ InGame(pid) /\ NoCall(pid) /\ Tail(agentq[pid]) = <<>>
      /\ Range(agentq[pid]) = {Head(agentq[pid])}
      /\ \A g \in Nat : ~Left(g, pid) /\ ~Leaving(g, pid)
  <2>1. InGame(pid)
    BY <1>1, <1>2 DEF Stage, OneMessage
  <2> QED
    BY <1>1, <1>2, <2>1, StageNow
<1>4. /\ agentq'[pid] = <<>> /\ playerlist'[pid] = nil
      /\ \A p \in Pids : p # pid =>
           agentq'[p] = agentq[p] /\ playerlist'[p] = playerlist[p]
  BY <1>1, <1>3 DEF Types
<1>5. PICK g0 \in Nat : g0 = playerlist[pid].m_GameID
  BY <1>3 DEF InGame, Types
<1>6. PICK m : m = AboutPlayer("leave_player", g0, pid)
  OBVIOUS
<1>7. m \in SceneMsgs /\ m.cmd = "leave_player" /\ m.game_id = g0 /\ m.pid = pid
  BY <1>6, Messages
<1>8. sceneq' = SendScene(sceneq, m)
  BY <1>3, <1>5, <1>6 DEF kick
<1>9. InScenes' = InScenes \cup {m}
  BY <1>7, <1>8, SceneSent
<1>10. \A p : \A c \in Places : Keeps(p, c)
  BY <1>1, <1>7, <1>8, ScenesKeep, MailboxFacts
<1>11. \A g \in Nat : \A p :
         /\ p \in Members(g)' => p \in Members(g)
         /\ Left(g, p)' => Left(g, p) \/ (g = g0 /\ p = pid)
         /\ Leaving(g, p) => Leaving(g, p)'
         /\ Leaving(g0, pid)'
  BY <1>1, <1>7, <1>8, <1>9, LeavingSent, MembersFacts, StageFacts
<1>12. ASSUME NEW p \in Pids, p # pid
       PROVE  Stage(p)'
  BY <1>1, <1>4, <1>10, <1>11, <1>12, StageKept DEF LoginsInv
<1>13. Stage(pid)'
  <2>1. NoCall(pid)'
    BY <1>3, <1>10, CallsKept
  <2>2. OneCall(pid)' /\ CallsWait(pid)'
    BY <2>1 DEF NoCall, OneCall, CallsWait
  <2>3. OneMessage(pid)'
    BY <1>4 DEF OneMessage
  <2>4. LeavesAway(pid)'
    BY <1>3, <1>4, <1>11 DEF LeavesAway, Away
  <2>5. ASSUME NEW g \in Nat, pid \in Members(g)'
        PROVE  g = g0
    <3>1. Claims(pid, g)
      BY <1>2, <1>3, <1>11, <2>5 DEF Stage, MembersKnown
    <3> QED
      BY <1>1, <1>3, <1>5, <3>1 DEF Claims
  <2>6. MembersKnown(pid)'
    BY <1>11, <2>5 DEF MembersKnown
  <2> QED
    BY <2>2, <2>3, <2>4, <2>6 DEF Stage
<1> QED
  BY <1>12, <1>13 DEF LoginsInv

LEMMA OnlyAnswer ==
  ASSUME NEW q \in Seq(AgentMsgs), Len(q) = 0,
         NEW m \in AgentMsgs, NEW r \in Answer(q, m)
  PROVE  r # <<>> /\ Len(r) = 1 /\ Head(r) = m /\ Range(r) = {m}
<1>1. DOMAIN q = {} /\ Range(q) = {}
  BY DEF Range
<1>3. /\ r \in Seq(AgentMsgs)
      /\ Range(r) = Range(q) \cup {m}
      /\ \E k \in Nat : GotIn(q, m, r, k)
  BY AnswerFacts
<1>2. PICK k \in Nat : GotIn(q, m, r, k)
  BY <1>3
<1>4. \A i \in DOMAIN r : i = k
  BY <1>1, <1>2 DEF GotIn
<1>5. k \in DOMAIN r /\ r[k] = m
  BY <1>2 DEF GotIn
<1>6. k = 1 /\ Len(r) = 1
  <2>1. 1 \in DOMAIN r /\ Len(r) \in DOMAIN r
    BY <1>3, <1>5
  <2> QED
    BY <1>4, <2>1
<1>7. r # <<>>
  BY <1>6
<1>8. Head(r) = m /\ Range(r) = {m}
  BY <1>1, <1>3, <1>5, <1>6
<1> QED
  BY <1>6, <1>7, <1>8

(* SCENE_MGR sends a player into a game, and tells its agent.               *)
LEMMA PlayerSentIn ==
  ASSUME Types, LoginsInv, NEW pid \in Pids, NEW fd \in Nat,
         mgrq # <<>>, mgrq' = Tail(mgrq),
         IsCall(0, Head(mgrq), pid), Head(mgrq).fd = fd,
         NEW list \in Seq(Proxies), NEW i \in DOMAIN list, Enter(list, i, pid, fd),
         UNCHANGED <<online, playerlist, m_Players>>
  PROVE  LoginsInv'
<1>1. PICK g0 \in Nat : g0 = list[i].game_id
  BY Entered
<1>2. PICK x : x = AboutPlayer("enter_player", g0, pid)
  OBVIOUS
<1>3. x \in SceneMsgs /\ x.cmd = "enter_player" /\ x.game_id = g0 /\ x.pid = pid
  BY <1>2, EnterMessage
<1>4. sceneq' = SendScene(sceneq, x)
  BY <1>1, <1>2 DEF Enter
<1>5. InScenes' = InScenes \cup {x}
  BY <1>3, <1>4, SceneSent
<1>6. \A p : \A c \in Places : Keeps(p, c)
  BY <1>3, <1>4, ScenesKeep, MailboxFacts
<1>7. PICK m : m = Entering(g0, fd)
  OBVIOUS
<1>8. m \in AgentMsgs /\ m.cmd = "entering" /\ m.game_id = g0 /\ m.fd = fd
  BY <1>7 DEF Entering, AgentMsgs
<1>9. PICK mailbox \in Answer(agentq[pid], m) :
        agentq' = [agentq EXCEPT ![pid] = mailbox]
  BY <1>1, <1>7 DEF Enter
<1>10. agentq'[pid] = mailbox /\ \A p \in Pids : p # pid => agentq'[p] = agentq[p]
  BY <1>9 DEF Types
<1>11. \A g \in Nat : \A p :
         /\ p \in Members(g)' => p \in Members(g) \/ (g = g0 /\ p = pid)
         /\ Left(g, p)' => Left(g, p)
         /\ p # pid => (Leaving(g, p) => Leaving(g, p)')
  BY <1>3, <1>4, <1>5, LeavingSent, MembersFacts, StageFacts
<1>12. ASSUME NEW p \in Pids, p # pid
       PROVE  Stage(p)'
  BY <1>6, <1>10, <1>11, <1>12, StageKept DEF LoginsInv
<1>13. Stage(pid)'
  <2>1. Stage(pid) /\ OneCall(pid)
    BY DEF LoginsInv, Stage
  <2>2. CallAt(pid, 0, 1) /\ NoCall(pid)'
    BY <1>6, <2>1, MailboxFacts, CallTaken
  <2>3. Mailbox(0)[1].fd = fd
    <3>1. mgrq \in Seq(MgrMsgs)
      BY DEF Types
    <3> QED
      BY <3>1, MailboxFacts
  <2>4. Waits(pid, fd)
    BY <2>1, <2>2, <2>3, MailboxFacts DEF Stage, CallsWait
  <2>5. /\ agentq[pid] = <<>> /\ playerlist[pid] # nil
        /\ playerlist[pid].m_FD = fd /\ playerlist[pid].m_GameID = nil
    BY <2>4 DEF Waits
  <2>6. /\ agentq'[pid] # <<>> /\ Len(agentq'[pid]) = 1
        /\ Head(agentq'[pid]) = m /\ Range(agentq'[pid]) = {m}
    <3>1. agentq[pid] \in Seq(AgentMsgs)
      BY DEF Types
    <3>2. Len(agentq[pid]) = 0
      BY <2>5
    <3> QED
      BY <1>8, <1>10, <3>1, <3>2, OnlyAnswer
  <2>7. OneMessage(pid)'
    <3>1. playerlist'[pid] = playerlist[pid]
      OBVIOUS
    <3> QED
      BY <1>8, <2>5, <2>6, <3>1 DEF OneMessage
  <2>8. \A g \in Nat : ~Left(g, pid)' /\ pid \notin Members(g)
    <3>1. \A g \in Nat : ~Left(g, pid) /\ ~Leaving(g, pid)
      BY <2>1, <2>5, StageNow
    <3>2. \A g \in Nat : ~Claims(pid, g)
      <4>1. Range(agentq[pid]) = {}
        BY <2>1, <2>5, StageNow
      <4> QED
        BY <2>5, <4>1, GameLifeAssumption DEF Claims
    <3> QED
      BY <1>11, <2>1, <3>1, <3>2 DEF Stage, MembersKnown
  <2>9. Claims(pid, g0)'
    BY <1>8, <2>5, <2>6 DEF Claims
  <2>10. MembersKnown(pid)'
    BY <1>11, <2>8, <2>9 DEF MembersKnown
  <2> QED
    BY <2>2, <2>7, <2>8, <2>10, StageOf
<1> QED
  BY <1>12, <1>13 DEF LoginsInv

(* A call that makes another one, and an answer that takes its place.       *)
LEMMA CallMoved ==
  ASSUME Types, NEW p, OneCall(p), NEW c \in Places, NEW e \in Places, c # e,
         Mailbox(c) # <<>>, IsCall(c, Head(Mailbox(c)), p),
         Mailbox(c)' = Tail(Mailbox(c)),
         NEW m, NEW k \in Nat, GotIn(Mailbox(e), m, Mailbox(e)', k),
         \A d \in Places : d \notin {c, e} => Mailbox(d)' = Mailbox(d)
  PROVE  /\ CallAt(p, c, 1) /\ Head(Mailbox(c)) = Mailbox(c)[1]
         /\ OneCall(p)'
         /\ \A d \in Places, i \in Nat : CallAt(p, d, i)' => Mailbox(d)'[i] = m
<1>1. Mailbox(c) \in Seq(MgrMsgs \cup SceneMsgs)
  BY MailboxTypes
<1>2. /\ 1 \in DOMAIN Mailbox(c) /\ Head(Mailbox(c)) = Mailbox(c)[1]
      /\ \A l \in DOMAIN Tail(Mailbox(c)) :
           /\ l \in Nat /\ l + 1 \in DOMAIN Mailbox(c)
           /\ Tail(Mailbox(c))[l] = Mailbox(c)[l + 1]
  BY <1>1, TailFacts
<1>3. CallAt(p, c, 1)
  BY <1>2 DEF CallAt
<1>4. \A d \in Places, i \in Nat : CallAt(p, d, i) => d = c /\ i = 1
  BY <1>3 DEF OneCall
<1>5. ASSUME NEW d \in Places, d # e, NEW i \in Nat, CallAt(p, d, i)'
      PROVE  FALSE
  <2>1. i \in DOMAIN Mailbox(d)' /\ IsCall(d, Mailbox(d)'[i], p)
    BY <1>5 DEF CallAt, IsCall
  <2>2. CASE d = c
    <3>1. i \in DOMAIN Tail(Mailbox(c)) /\ i # 0
      BY <1>1, <2>1, <2>2
    <3>2. CallAt(p, c, i + 1)
      BY <1>2, <2>1, <2>2, <3>1 DEF CallAt
    <3>3. i + 1 \in Nat /\ i + 1 # 1
      BY <3>1
    <3> QED
      BY <1>4, <3>2, <3>3
  <2>3. CASE d # c
    <3>1. CallAt(p, d, i)
      BY <1>5, <2>1, <2>3 DEF CallAt
    <3> QED
      BY <1>4, <2>3, <3>1
  <2> QED
    BY <2>2, <2>3
<1>6. \A i \in Nat : ~CallAt(p, e, i)
  BY <1>4
<1>7. /\ OneCall(p)'
      /\ \A d \in Places, i \in Nat : CallAt(p, d, i)' => Mailbox(d)'[i] = m
  <2>1. \A d \in Places : d # e => \A i \in Nat : ~CallAt(p, d, i)'
    BY <1>5
  <2>2. /\ OneCall(p)'
        /\ \A d \in Places, i \in Nat :
             CallAt(p, d, i)' => d = e /\ Mailbox(e)'[i] = m
    BY <1>6, <2>1, CallMade
  <2> QED
    BY <2>2
<1> QED
  BY <1>2, <1>3, <1>7

LEMMA StageMoved ==
  ASSUME Types, NEW p \in Pids, Stage(p),
         NEW c \in Places, CallAt(p, c, 1), NEW m, m.fd = Mailbox(c)[1].fd,
         OneCall(p)',
         \A d \in Places, i \in Nat : CallAt(p, d, i)' => Mailbox(d)'[i] = m,
         UNCHANGED <<online, agentq, playerlist>>,
         \A g \in Nat : Left(g, p)' => Left(g, p),
         \A g \in Nat : p \in Members(g)' => p \in Members(g)
  PROVE  Stage(p)'
<1>1. Waits(p, m.fd)
  <2>1. Waits(p, Mailbox(c)[1].fd)
    BY DEF Stage, CallsWait
  <2> QED
    BY <2>1
<1>2. CallsWait(p)'
  <2>1. Places' = Places
    BY DEF Places, Scenes
  <2>2. ASSUME NEW d \in Places, NEW i \in Nat, CallAt(p, d, i)'
        PROVE  Waits(p, Mailbox(d)[i].fd)'
    <3>1. Mailbox(d)'[i].fd = m.fd
      BY <2>2
    <3> QED
      BY <1>1, <3>1 DEF Waits
  <2> QED
    BY <2>1, <2>2 DEF CallsWait
<1>3. OneMessage(p)'
  BY DEF Stage, OneMessage, InGame
<1>4. \A g \in Nat : ~Left(g, p) /\ ~Leaving(g, p)
  BY <1>1, StageNow DEF Waits
<1>5. LeavesAway(p)' /\ MembersKnown(p)'
  BY <1>4 DEF Stage, LeavesAway, MembersKnown, Claims
<1> QED
  BY <1>2, <1>3, <1>5 DEF Stage

LEMMA Stages_enter_player ==
  ASSUME Types, LoginsInv, enter_player
  PROVE  LoginsInv'
<1>1. PICK h : h = Head(mgrq)
  OBVIOUS
<1>2. /\ mgrq # <<>> /\ h.cmd = "enter_player" /\ mgrq' = Tail(mgrq)
      /\ m_SceneProxyList # <<>>
      /\ Enter(m_SceneProxyList, 1, h.pid, h.fd)
      /\ UNCHANGED <<online, playerlist, m_Players>>
  BY <1>1 DEF enter_player, Receives
<1>3. h \in MgrMsgs
  BY <1>1, <1>2, MgrTaken
<1>4. h.pid \in Pids /\ h.fd \in Nat
  BY <1>2, <1>3, Fields
<1>5. m_SceneProxyList \in Seq(Proxies) /\ 1 \in DOMAIN m_SceneProxyList
  BY <1>2 DEF Types
<1>6. IsCall(0, h, h.pid)
  BY <1>2 DEF IsCall
<1> QED
  BY <1>1, <1>2, <1>4, <1>5, <1>6, PlayerSentIn

LEMMA Stages_new_game_answer ==
  ASSUME Types, LoginsInv, new_game_answer
  PROVE  LoginsInv'
<1>1. PICK h : h = Head(mgrq)
  OBVIOUS
<1>2. PICK r : r = [game_id |-> h.game_id, playercnt |-> 0]
  OBVIOUS
<1>3. PICK list : list = Append(m_SceneProxyList, r)
  OBVIOUS
<1>4. /\ mgrq # <<>> /\ h.cmd = "new_game" /\ mgrq' = Tail(mgrq)
      /\ Enter(list, Len(list), h.pid, h.fd)
      /\ UNCHANGED <<online, playerlist, m_Players>>
  BY <1>1, <1>2, <1>3 DEF new_game_answer, Receives
<1>5. h \in MgrMsgs
  BY <1>1, <1>4, MgrTaken
<1>6. h.pid \in Pids /\ h.fd \in Nat /\ h.game_id \in Nat
  BY <1>4, <1>5, Fields
<1>7. r \in Proxies /\ m_SceneProxyList \in Seq(Proxies)
  BY <1>2, <1>6 DEF Proxies, Types
<1>8. list \in Seq(Proxies) /\ Len(list) \in DOMAIN list
  BY <1>3, <1>7
<1>9. IsCall(0, h, h.pid)
  BY <1>4 DEF IsCall
<1> QED
  BY <1>1, <1>4, <1>6, <1>8, <1>9, PlayerSentIn

LEMMA Stages_new_proxy ==
  ASSUME Types, LoginsInv, new_proxy
  PROVE  LoginsInv'
<1>1. PICK h : h = Head(mgrq)
  OBVIOUS
<1>2. PICK g0 : g0 = NewServiceUniqID(GAMEID)
  OBVIOUS
<1>3. PICK m : m = NewGame(g0, h.pid, h.fd)
  OBVIOUS
<1>4. /\ mgrq # <<>> /\ h.cmd = "enter_player" /\ mgrq' = Tail(mgrq)
      /\ sceneq' = SendScene(sceneq, m)
      /\ UNCHANGED <<online, agentq, playerlist, m_Players>>
  BY <1>1, <1>2, <1>3 DEF new_proxy, Receives, agentVars
<1>5. h \in MgrMsgs
  BY <1>1, <1>4, MgrTaken
<1>6. h.pid \in Pids /\ h.fd \in Nat /\ g0 \in Nat
  BY <1>2, <1>4, <1>5, Fields DEF Types, NewServiceUniqID
<1>7. /\ m \in SceneMsgs /\ m.cmd = "new_game" /\ m.game_id = g0
      /\ m.pid = h.pid /\ m.fd = h.fd
  BY <1>3, <1>6 DEF NewGame, SceneMsgs
<1>8. InScenes' = InScenes \cup {m}
  BY <1>4, <1>6, <1>7, SceneSent
<1>9. \A g \in Nat : \A p :
        /\ p \in Members(g)' => p \in Members(g)
        /\ Left(g, p)' => Left(g, p)
        /\ Leaving(g, p) => Leaving(g, p)'
  BY <1>4, <1>7, <1>8, LeavingSent, MembersFacts, StageFacts
<1>10. ASSUME NEW p \in Pids, p # h.pid
       PROVE  Stage(p)'
  <2>1. \A c \in Places : Keeps(p, c)
    BY <1>4, <1>7, <1>10, ScenesKeep, MailboxFacts
  <2> QED
    BY <1>4, <1>9, <2>1, StageKept DEF LoginsInv
<1>11. Stage(h.pid)'
  <2>1. Stage(h.pid) /\ OneCall(h.pid)
    BY <1>6 DEF LoginsInv, Stage
  <2>2. PICK s \in Scenes : s = get_scene_service(m.game_id)
    BY <1>6, <1>7, ServiceIsScene
  <2>3. sceneq' = [sceneq EXCEPT ![s] = Append(@, m)]
    BY <1>4, <2>2 DEF SendScene
  <2>4. /\ sceneq[s] \in Seq(SceneMsgs)
        /\ sceneq'[s] = Append(sceneq[s], m)
        /\ \A t \in Scenes : t # s => sceneq'[t] = sceneq[t]
    BY <2>3 DEF Types
  <2>5. PICK k \in Nat : GotIn(sceneq[s], m, sceneq'[s], k)
    BY <2>4, AppendGetsIn
  <2>6. /\ 0 \in Places /\ s \in Places /\ 0 # s
        /\ Mailbox(0) # <<>> /\ IsCall(0, Head(Mailbox(0)), h.pid)
        /\ Mailbox(0)' = Tail(Mailbox(0))
        /\ GotIn(Mailbox(s), m, Mailbox(s)', k)
        /\ \A d \in Places : d \notin {0, s} => Mailbox(d)' = Mailbox(d)
    BY <1>1, <1>4, <2>4, <2>5, MailboxFacts DEF IsCall
  <2>7. /\ CallAt(h.pid, 0, 1) /\ Head(Mailbox(0)) = Mailbox(0)[1]
        /\ OneCall(h.pid)'
        /\ \A d \in Places, i \in Nat : CallAt(h.pid, d, i)' => Mailbox(d)'[i] = m
    BY <2>1, <2>6, CallMoved
  <2>8. m.fd = Mailbox(0)[1].fd
    BY <1>1, <1>7, <2>7, MailboxFacts
  <2> QED
    BY <1>4, <1>6, <1>9, <2>1, <2>6, <2>7, <2>8, StageMoved
<1> QED
  BY <1>10, <1>11 DEF LoginsInv

LEMMA Stages_mgr_game_over ==
  ASSUME Types, LoginsInv, mgr_game_over
  PROVE  LoginsInv'
<1>1. PICK h : h = Head(mgrq)
  OBVIOUS
<1>2. PICK m : m = AboutGame("game_over", h.game_id)
  OBVIOUS
<1>3. PICK s : s = get_scene_service(h.game_id)
  OBVIOUS
<1>4. /\ mgrq # <<>> /\ h.cmd = "game_over" /\ mgrq' = Tail(mgrq)
      /\ UNCHANGED <<online, agentq, playerlist, m_Players>>
  BY <1>1 DEF mgr_game_over, Receives, agentVars
<1>5. h \in MgrMsgs
  BY <1>1, <1>4, MgrTaken
<1>6. h.game_id \in Nat
  BY <1>4, <1>5, Fields
<1>7. m \in SceneMsgs /\ m.cmd = "game_over"
  BY <1>2, <1>6, Messages
<1>8. s \in Scenes
  BY <1>3, <1>6, ServiceIsScene
<1>9. PICK mailbox \in Answer(sceneq[s], m) :
        sceneq' = [sceneq EXCEPT ![s] = mailbox]
  BY <1>1, <1>2, <1>3 DEF mgr_game_over
<1>10. InScenes' = InScenes \cup {m}
  BY <1>7, <1>8, <1>9, SceneAnswered
<1>11. /\ sceneq[s] \in Seq(SceneMsgs) /\ sceneq'[s] = mailbox
       /\ \A t \in Scenes : t # s => sceneq'[t] = sceneq[t]
  BY <1>8, <1>9 DEF Types
<1>12. PICK k \in Nat : GotIn(sceneq[s], m, sceneq'[s], k)
  BY <1>7, <1>9, <1>11, AnswerFacts
<1>13. ASSUME NEW p, NEW c \in Places
       PROVE  Keeps(p, c)
  <2>1. CASE c = 0
    BY <1>4, <2>1, ScenesKeep
  <2>2. CASE c = s
    <3>1. ~IsCall(s, m, p)
      BY <1>7 DEF IsCall
    <3> QED
      BY <1>8, <1>12, <2>2, <3>1, MailboxFacts DEF Keeps
  <2>3. CASE c \in Scenes /\ c # s
    BY <1>11, <2>3, MailboxFacts DEF Keeps
  <2> QED
    BY <2>1, <2>2, <2>3, MailboxFacts
<1>14. \A g \in Nat : \A p : Leaving(g, p) => Leaving(g, p)'
  BY <1>7, <1>8, <1>11, <1>12, LeavingAnswered
<1>15. \A g \in Nat : \A p :
         /\ p \in Members(g)' => p \in Members(g)
         /\ Left(g, p)' => Left(g, p)
  BY <1>4, <1>7, <1>10, MembersFacts, StageFacts
<1>16. ASSUME NEW p \in Pids
       PROVE  Stage(p)'
  BY <1>4, <1>13, <1>14, <1>15, StageKept DEF LoginsInv
<1> QED
  BY <1>16 DEF LoginsInv

(* A service takes a message: a leave takes the player out of the game for  *)
(* good.                                                                    *)
LEMMA Stages_scene ==
  ASSUME Types, AtItsService, LoginsInv, NEW s \in Scenes,
         game_over_answer(s) \/ scene_enter_player(s) \/ scene_leave_player(s)
  PROVE  LoginsInv'
<1>1. PICK h : h = Head(sceneq[s])
  OBVIOUS
<1>2. /\ sceneq[s] # <<>> /\ sceneq' = [sceneq EXCEPT ![s] = Tail(@)]
      /\ UNCHANGED <<online, agentq, playerlist, mgrq>>
  BY DEF game_over_answer, scene_enter_player, scene_leave_player, Receives,
         agentVars, mgrVars
<1>3. h \in InScenes /\ h \in SceneMsgs /\ InScenes' \subseteq InScenes
  BY <1>1, <1>2, SceneTaken
<1>4. \A p : \A c \in Places : Keeps(p, c)
  BY <1>2, ScenesKeep, MailboxFacts
<1>5. ASSUME NEW g \in Nat, NEW p, g \in DOMAIN m_Players', p \in m_Players'[g]
      PROVE  /\ p \in Members(g)
             /\ ~(h.cmd = "leave_player" /\ h.game_id = g /\ h.pid = p)
  <2>1. CASE scene_enter_player(s)
    <3>1. /\ h.cmd = "enter_player" /\ DOMAIN m_Players' = DOMAIN m_Players
          /\ m_Players'[g] = IF g = h.game_id THEN m_Players[g] \cup {h.pid}
                             ELSE m_Players[g]
      BY <1>1, <1>5, <2>1 DEF scene_enter_player, Receives
    <3>2. p \in m_Players[g] \/ (g = h.game_id /\ p = h.pid)
      BY <1>5, <3>1
    <3> QED
      BY <1>3, <1>5, <3>1, <3>2, MembersFacts
  <2>2. CASE scene_leave_player(s)
    <3>1. /\ DOMAIN m_Players' = DOMAIN m_Players
          /\ m_Players'[g] = IF g = h.game_id THEN m_Players[g] \ {h.pid}
                             ELSE m_Players[g]
      BY <1>1, <1>5, <2>2 DEF scene_leave_player, Receives
    <3>2. p \in m_Players[g] /\ ~(h.game_id = g /\ h.pid = p)
      BY <1>5, <3>1
    <3> QED
      BY <1>5, <3>1, <3>2, MembersFacts
  <2>3. CASE game_over_answer(s)
    <3>1. h.cmd = "game_over" /\ m_Players' = m_Players
      BY <1>1, <2>3 DEF game_over_answer, Receives
    <3> QED
      BY <1>5, <3>1, MembersFacts
  <2> QED
    BY <2>1, <2>2, <2>3
<1>6. ASSUME NEW g \in Nat, NEW p, p \in Members(g)'
      PROVE  p \in Members(g) /\ (Leaving(g, p) => Leaving(g, p)')
  <2>1. CASE g \in DOMAIN m_Players' /\ p \in m_Players'[g]
    BY <1>1, <1>2, <1>5, <2>1, LeavingTaken
  <2>2. CASE \E m \in InScenes' : m.cmd = "enter_player" /\ m.game_id = g /\ m.pid = p
    BY <1>1, <1>2, <1>3, <2>2, LeavingTaken, MembersFacts
  <2> QED
    BY <1>6, <2>1, <2>2, MembersFacts
<1>7. \A g \in Nat : \A p : Left(g, p)' => Left(g, p)
  BY <1>3, StageFacts
<1>8. ASSUME NEW p \in Pids
      PROVE  Stage(p)'
  BY <1>2, <1>4, <1>6, <1>7, StageKept DEF LoginsInv
<1> QED
  BY <1>8 DEF LoginsInv

(* A new game: the answer of the call is a call's stage, too.               *)
LEMMA Stages_new_game ==
  ASSUME GameInv, AtItsService, LoginsInv, NEW s \in Scenes, new_game(s)
  PROVE  LoginsInv'
<1>1. PICK h : h = Head(sceneq[s])
  OBVIOUS
<1>2. /\ Types /\ sceneq[s] # <<>> /\ h.cmd = "new_game"
      /\ sceneq' = [sceneq EXCEPT ![s] = Tail(@)]
      /\ m_Players' = [g \in DOMAIN m_Players \cup {h.game_id} |->
                         IF g = h.game_id THEN {} ELSE m_Players[g]]
      /\ mgrq' \in Answer(mgrq, h)
      /\ UNCHANGED <<online, agentq, playerlist>>
  BY <1>1 DEF new_game, Receives, agentVars, GameInv
<1>3. h \in InScenes /\ h \in SceneMsgs /\ InScenes' \subseteq InScenes
  BY <1>1, <1>2, SceneTaken
<1>4. h \in MgrMsgs /\ h.pid \in Pids /\ h.game_id \in Nat
  BY <1>2, <1>3, Fields
<1>5. /\ sceneq[s] \in Seq(SceneMsgs) /\ sceneq'[s] = Tail(sceneq[s])
      /\ \A t \in Scenes : t # s => sceneq'[t] = sceneq[t]
      /\ mgrq \in Seq(MgrMsgs)
  BY <1>2 DEF Types
<1>6. PICK k \in Nat : GotIn(mgrq, h, mgrq', k)
  BY <1>2, <1>4, <1>5, AnswerFacts
<1>7. \A p : \A t \in Scenes : Keeps(p, t)
  BY <1>2, ScenesKeep
<1>8. \A g \in Nat : \A p :
        /\ p \in Members(g)' => p \in Members(g)
        /\ Left(g, p)' => Left(g, p)
  <2>1. ASSUME NEW g \in Nat, NEW p, p \in Members(g)'
        PROVE  p \in Members(g)
    <3>1. CASE g \in DOMAIN m_Players' /\ p \in m_Players'[g]
      <4>1. g \in DOMAIN m_Players /\ p \in m_Players[g]
        BY <1>2, <3>1
      <4> QED
        BY <4>1, MembersFacts
    <3>2. CASE \E m \in InScenes' : m.cmd = "enter_player" /\ m.game_id = g /\ m.pid = p
      BY <1>3, <3>2, MembersFacts
    <3> QED
      BY <2>1, <3>1, <3>2, MembersFacts
  <2> QED
    BY <1>3, <2>1, StageFacts
<1>9. \A g \in Nat : \A p : Leaving(g, p) => Leaving(g, p)'
  BY <1>1, <1>2, LeavingTaken
<1>10. ASSUME NEW p \in Pids, p # h.pid
       PROVE  Stage(p)'
  <2>1. ~IsCall(0, h, p)
    BY <1>10 DEF IsCall
  <2>2. Keeps(p, 0)
    BY <1>6, <2>1, MailboxFacts DEF Keeps
  <2>3. \A c \in Places : Keeps(p, c)
    BY <1>7, <2>2, MailboxFacts
  <2> QED
    BY <1>2, <1>8, <1>9, <2>3, StageKept DEF LoginsInv
<1>11. Stage(h.pid)'
  <2>1. Stage(h.pid) /\ OneCall(h.pid)
    BY <1>4 DEF LoginsInv, Stage
  <2>2. /\ 0 \in Places /\ s \in Places /\ s # 0
        /\ Mailbox(s) # <<>> /\ IsCall(s, Head(Mailbox(s)), h.pid)
        /\ Mailbox(s)' = Tail(Mailbox(s))
        /\ GotIn(Mailbox(0), h, Mailbox(0)', k)
        /\ \A d \in Places : d \notin {s, 0} => Mailbox(d)' = Mailbox(d)
    BY <1>1, <1>2, <1>5, <1>6, MailboxFacts DEF IsCall
  <2>3. /\ CallAt(h.pid, s, 1) /\ Head(Mailbox(s)) = Mailbox(s)[1]
        /\ OneCall(h.pid)'
        /\ \A d \in Places, i \in Nat : CallAt(h.pid, d, i)' => Mailbox(d)'[i] = h
    BY <1>2, <2>1, <2>2, CallMoved
  <2>4. h.fd = Mailbox(s)[1].fd
    BY <1>1, <2>3, MailboxFacts
  <2> QED
    BY <1>2, <1>4, <1>8, <2>1, <2>2, <2>3, <2>4, StageMoved
<1> QED
  BY <1>10, <1>11 DEF LoginsInv

LEMMA Stages_check_over ==
  ASSUME Types, LoginsInv, NEW g0 \in checking, check_over(g0)
  PROVE  LoginsInv'
<1>1. g0 \in Nat
  BY DEF Types
<1>2. PICK m : m = AboutGame("game_over", g0)
  OBVIOUS
<1>3. m \in MgrMsgs /\ m.cmd = "game_over"
  BY <1>1, <1>2, Messages
<1>4. /\ mgrq' = Append(mgrq, m)
      /\ UNCHANGED <<online, agentq, playerlist, sceneq, m_Players>>
  BY <1>2 DEF check_over, agentVars, sceneVars
<1>5. PICK k \in Nat : GotIn(mgrq, m, mgrq', k)
  BY <1>4, AppendGetsIn DEF Types
<1>6. ASSUME NEW p, NEW c \in Places
      PROVE  Keeps(p, c)
  <2>1. ~IsCall(0, m, p)
    BY <1>3 DEF IsCall
  <2>2. Keeps(p, 0)
    BY <1>5, <2>1, MailboxFacts DEF Keeps
  <2> QED
    BY <1>4, <2>2, ScenesKeep, MailboxFacts
<1>7. ASSUME NEW p \in Pids
      PROVE  Stage(p)'
  BY <1>4, <1>6, StageKept, ScenesUnchanged DEF LoginsInv
<1> QED
  BY <1>7 DEF LoginsInv

LEMMA StagesStutter == Types /\ LoginsInv /\ UNCHANGED vars => LoginsInv'
<1> SUFFICES ASSUME Types, LoginsInv, UNCHANGED vars
             PROVE  LoginsInv'
  OBVIOUS
<1>1. UNCHANGED <<online, agentq, playerlist, mgrq, sceneq, m_Players>>
  BY DEF vars, agentVars, mgrVars, sceneVars
<1>2. \A p : \A c \in Places : Keeps(p, c)
  BY <1>1, ScenesKeep, MailboxFacts
<1>3. ASSUME NEW p \in Pids
      PROVE  Stage(p)'
  BY <1>1, <1>2, StageKept, ScenesUnchanged DEF LoginsInv
<1> QED
  BY <1>3 DEF LoginsInv

LEMMA StagesInit == Init => LoginsInv
<1> SUFFICES ASSUME Init, NEW p \in Pids
             PROVE  Stage(p)
  BY DEF LoginsInv
<1>1. /\ agentq[p] = <<>> /\ playerlist[p] = nil /\ InScenes = {}
      /\ mgrq = <<>> /\ \A s \in Scenes : sceneq[s] = <<>>
      /\ DOMAIN m_Players = {}
  BY DEF Init, Range, InScenes
<1>2. NoCall(p)
  <2>1. \A c \in Places : DOMAIN Mailbox(c) = {}
    BY <1>1, MailboxFacts
  <2> QED
    BY <2>1 DEF NoCall, CallAt
<1>3. OneCall(p) /\ CallsWait(p)
  BY <1>2 DEF NoCall, OneCall, CallsWait
<1>4. OneMessage(p)
  BY <1>1 DEF OneMessage
<1>5. LeavesAway(p)
  BY <1>1 DEF LeavesAway, Left
<1>6. MembersKnown(p)
  BY <1>1, MembersFacts DEF MembersKnown
<1> QED
  BY <1>3, <1>4, <1>5, <1>6 DEF Stage

LEMMA StagesStep ==
  ASSUME Allowed = {}, PlayersInv, LoginsInv, [Next]_vars
  PROVE  LoginsInv'
<1>1. GameInv /\ Types /\ AtItsService
  BY DEF PlayersInv, GameInv
<1>2. ASSUME NEW pid \in Pids, Connect(pid) \/ Disconnect(pid) \/ Agent(pid)
      PROVE  LoginsInv'
  BY <1>1, <1>2, Stages_Connect, Stages_Disconnect, Stages_start, Stages_enterwar,
     Stages_kick DEF Agent
<1>3. CASE SceneMgr
  BY <1>1, <1>3, Stages_enter_player, Stages_new_proxy, Stages_new_game_answer,
     Stages_mgr_game_over DEF SceneMgr
<1>4. ASSUME NEW s \in Scenes, SceneService(s)
      PROVE  LoginsInv'
  BY <1>1, <1>4, Stages_new_game, Stages_scene DEF SceneService
<1>5. ASSUME NEW g \in checking, check_over(g)
      PROVE  LoginsInv'
  BY <1>1, <1>5, Stages_check_over
<1>6. CASE UNCHANGED vars
  BY <1>1, <1>6, StagesStutter
<1> QED
  BY <1>2, <1>3, <1>4, <1>5, <1>6 DEF Next

(* The players of a game are players.                                       *)
PlayersInGames == \A g \in DOMAIN m_Players : m_Players[g] \subseteq Pids

LEMMA PlayersInGamesStep ==
  ASSUME Types, PlayersInGames, [Next]_vars
  PROVE  PlayersInGames'
<1>1. CASE UNCHANGED m_Players
  BY <1>1 DEF PlayersInGames
<1>2. ASSUME NEW s \in Scenes, new_game(s)
      PROVE  PlayersInGames'
  BY <1>2 DEF new_game, PlayersInGames
<1>3. ASSUME NEW s \in Scenes, scene_enter_player(s)
      PROVE  PlayersInGames'
  <2>1. PICK h : h = Head(sceneq[s])
    OBVIOUS
  <2>2. sceneq[s] # <<>> /\ h.cmd = "enter_player" /\ sceneq' = [sceneq EXCEPT ![s] = Tail(@)]
    BY <1>3, <2>1 DEF scene_enter_player, Receives
  <2>3. h \in SceneMsgs
    BY <2>1, <2>2, SceneTaken
  <2>4. h.pid \in Pids
    BY <2>2, <2>3, Fields
  <2> QED
    BY <1>3, <2>1, <2>4 DEF scene_enter_player, PlayersInGames
<1>4. ASSUME NEW s \in Scenes, scene_leave_player(s)
      PROVE  PlayersInGames'
  BY <1>4 DEF scene_leave_player, PlayersInGames
<1>5. CASE SceneMgr
  BY <1>1, <1>5 DEF SceneMgr, enter_player, new_proxy, new_game_answer, mgr_game_over
<1>6. ASSUME NEW pid \in Pids, Connect(pid) \/ Disconnect(pid) \/ Agent(pid)
      PROVE  PlayersInGames'
  BY <1>1, <1>6 DEF Connect, Disconnect, Agent, start, enterwar, kick, sceneVars
<1>7. ASSUME NEW s \in Scenes, game_over_answer(s)
      PROVE  PlayersInGames'
  BY <1>1, <1>7 DEF game_over_answer
<1>8. ASSUME NEW g \in checking, check_over(g)
      PROVE  PlayersInGames'
  BY <1>1, <1>8 DEF check_over, sceneVars
<1>9. CASE UNCHANGED vars
  BY <1>1, <1>9 DEF vars, sceneVars
<1> QED
  BY <1>2, <1>3, <1>4, <1>5, <1>6, <1>7, <1>8, <1>9 DEF Next, SceneService

LEMMA MembersArePlayers ==
  ASSUME Types, PlayersInGames, NEW g \in Nat, NEW p \in Members(g)
  PROVE  p \in Pids
<1>1. CASE g \in DOMAIN m_Players /\ p \in m_Players[g]
  BY <1>1 DEF PlayersInGames
<1>2. CASE \E m \in InScenes : m.cmd = "enter_player" /\ m.game_id = g /\ m.pid = p
  <2>1. PICK m \in InScenes : m.cmd = "enter_player" /\ m.pid = p
    BY <1>2
  <2>2. m \in SceneMsgs
    <3>1. PICK s \in Scenes : m \in Range(sceneq[s])
      BY DEF InScenes
    <3>2. sceneq[s] \in Seq(SceneMsgs)
      BY DEF Types
    <3> QED
      BY <3>1, <3>2 DEF Range
  <2> QED
    BY <2>1, <2>2, Fields
<1> QED
  BY <1>1, <1>2, MembersFacts

(* A player is in one game at a time, whichever way logins, answers, leaves *)
(* and the ends of games cross, if clients come back only after they have   *)
(* left and leave only a game that they are in.                             *)
THEOREM InOneGame ==
  ASSUME Allowed = {}
  PROVE  Spec => []OneGameEach
<1>1. PlayersInv /\ PlayersInGames /\ LoginsInv => OneGameEach
  <2> SUFFICES ASSUME PlayersInv, PlayersInGames, LoginsInv, NEW g \in Games, NEW h \in Games,
                      g # h, NEW p, p \in Members(g), p \in Members(h)
               PROVE  FALSE
    BY DEF OneGameEach
  <2>1. g \in Nat /\ h \in Nat /\ Types
    BY GamesAreNumbers DEF PlayersInv, GameInv
  <2>2. p \in Pids
    BY <2>1, MembersArePlayers
  <2>3. Stage(p)
    BY <2>2 DEF LoginsInv
  <2>4. /\ Claims(p, g) \/ Leaving(g, p)
        /\ Claims(p, h) \/ Leaving(h, p)
    BY <2>1, <2>3 DEF Stage, MembersKnown
  <2>5. CASE Claims(p, g) /\ Claims(p, h)
    <3>1. playerlist[p] # nil
      BY <2>5 DEF Claims
    <3>2. \A m \in Range(agentq[p]) :
            m = Head(agentq[p]) /\ (m.cmd = "entering" => playerlist[p].m_GameID = nil)
      BY <2>1, <2>2, <2>3, StageNow DEF Stage, OneMessage
    <3> QED
      BY <2>1, <2>5, <3>1, <3>2, GameLifeAssumption DEF Claims
  <2>6. CASE \/ Claims(p, g) /\ Leaving(h, p)
             \/ Leaving(g, p) /\ Claims(p, h)
    BY <2>1, <2>2, <2>3, <2>6, StageNow DEF Claims
  <2>7. CASE Leaving(g, p) /\ Leaving(h, p)
    BY <2>1, <2>3, <2>7, LeavingIsLeft DEF Stage, LeavesAway
  <2> QED
    BY <2>4, <2>5, <2>6, <2>7
<1>2. Spec => []PlayersInv
  BY PlayersInit, PlayersStep, GameInvariant, PTL DEF Spec
<1>3. Spec => []LoginsInv
  BY <1>2, StagesInit, StagesStep, PTL DEF Spec
<1>4. Init => PlayersInGames
  BY DEF Init, PlayersInGames
<1>5. PlayersInv => Types
  BY DEF PlayersInv, GameInv
<1>6. Spec => []PlayersInGames
  BY <1>2, <1>4, <1>5, PlayersInGamesStep, PTL DEF Spec
<1> QED
  BY <1>1, <1>2, <1>3, <1>6, PTL
-----------------------------------------------------------------------------
(* The bounds of ids.  A login asks SCENE_MGR once, and SCENE_MGR creates   *)
(* at most one game for it, so that there are no more games than logins.    *)
StartAt(p, fd) == \E i \in Nat : ToStart(p, i, fd)

AskAt(i, fd) ==
  i \in DOMAIN mgrq /\ mgrq[i].cmd = "enter_player" /\ mgrq[i].fd = fd

(* The logins that have asked, and been heard.                              *)
Waiting(fd) == (\E p \in Pids : StartAt(p, fd)) \/ (\E i \in Nat : AskAt(i, fd))

Heard == {fd \in 1 .. nfd : ~Waiting(fd)}

AsksOnce ==
  /\ nfd \in 0 .. MaxConns
  /\ \A fd : Waiting(fd) => fd \in 1 .. nfd
  /\ \A fd : \A p, r \in Pids : StartAt(p, fd) /\ StartAt(r, fd) => p = r
  /\ \A fd : \A p \in Pids, i \in Nat : ~(StartAt(p, fd) /\ AskAt(i, fd))
  /\ \A fd : \A i, j \in Nat : AskAt(i, fd) /\ AskAt(j, fd) => i = j

LoginsAsk == AsksOnce /\ GAMEID <= Cardinality(Heard)

(* A mailbox of SCENE_MGR that a message is taken from, or that one other   *)
(* than a login gets into, keeps the logins in their order.                 *)
KeepsAsks ==
  \/ UNCHANGED mgrq
  \/ mgrq # <<>> /\ mgrq' = Tail(mgrq)
  \/ \E m, k : k \in Nat /\ GotIn(mgrq, m, mgrq', k) /\ m.cmd # "enter_player"

LEMMA AsksInOrder ==
  ASSUME Types, KeepsAsks, NEW fd, NEW i \in Nat, NEW j \in Nat,
         AskAt(i, fd)', AskAt(j, fd)'
  PROVE  \E x, y \in Nat : AskAt(x, fd) /\ AskAt(y, fd) /\ (x = y => i = j)
<1>1. /\ mgrq \in Seq(MgrMsgs)
      /\ i \in DOMAIN mgrq' /\ mgrq'[i].cmd = "enter_player" /\ mgrq'[i].fd = fd
      /\ j \in DOMAIN mgrq' /\ mgrq'[j].cmd = "enter_player" /\ mgrq'[j].fd = fd
  BY DEF Types, AskAt
<1>2. CASE UNCHANGED mgrq
  BY <1>1, <1>2 DEF AskAt
<1>3. CASE mgrq # <<>> /\ mgrq' = Tail(mgrq)
  <2>1. \A l \in DOMAIN Tail(mgrq) :
          /\ l \in Nat /\ l + 1 \in DOMAIN mgrq
          /\ Tail(mgrq)[l] = mgrq[l + 1]
    BY <1>1, <1>3, TailFacts
  <2>2. AskAt(i + 1, fd) /\ AskAt(j + 1, fd)
    BY <1>1, <1>3, <2>1 DEF AskAt
  <2> QED
    BY <2>2
<1>4. ASSUME NEW m, NEW k \in Nat, GotIn(mgrq, m, mgrq', k), m.cmd # "enter_player"
      PROVE  \E x, y \in Nat : AskAt(x, fd) /\ AskAt(y, fd) /\ (x = y => i = j)
  <2>1. i # k /\ j # k
    BY <1>1, <1>4 DEF GotIn
  <2>2. PICK x \in Nat : /\ AskAt(x, fd)
                         /\ (i < k /\ x = i) \/ (i > k /\ x = i - 1)
    <3>1. i > k => i - 1 \in Nat
      OBVIOUS
    <3> QED
      BY <1>1, <1>4, <2>1, <3>1 DEF GotIn, AskAt
  <2>3. PICK y \in Nat : /\ AskAt(y, fd)
                         /\ (j < k /\ y = j) \/ (j > k /\ y = j - 1)
    <3>1. j > k => j - 1 \in Nat
      OBVIOUS
    <3> QED
      BY <1>1, <1>4, <2>1, <3>1 DEF GotIn, AskAt
  <2> QED
    BY <2>2, <2>3
<1> QED
  BY <1>2, <1>3, <1>4 DEF KeepsAsks

(* A step after which nobody waits who did not before.                      *)
LEMMA HeardKept ==
  ASSUME AsksOnce, nfd' \in Nat, nfd <= nfd', \A fd \in 1 .. nfd : Waiting(fd)' => Waiting(fd)
  PROVE  /\ Cardinality(Heard) \in Nat /\ Cardinality(Heard)' \in Nat
         /\ Cardinality(Heard) <= Cardinality(Heard)'
<1>1. nfd \in Int /\ \A fd \in 1 .. nfd : fd \in 1 .. nfd'
  BY DEF AsksOnce
<1>2. Heard' \subseteq 1 .. nfd' /\ Heard \subseteq Heard'
  BY <1>1 DEF Heard
<1>3. PICK S : S = Heard'
  OBVIOUS
<1>4. PICK T : T = 1 .. nfd'
  OBVIOUS
<1>5. IsFiniteSet(T)
  BY <1>4, FS_Interval
<1>6. IsFiniteSet(S)
  BY <1>2, <1>3, <1>4, <1>5, FS_Subset
<1>7. /\ Cardinality(S) \in Nat /\ Cardinality(Heard) \in Nat
      /\ Cardinality(Heard) <= Cardinality(S)
  BY <1>2, <1>3, <1>6, FS_Subset, FS_CardinalityType
<1> QED
  BY <1>3, <1>7

LEMMA AsksKept ==
  ASSUME Types, AsksOnce, UNCHANGED nfd, KeepsAsks,
         \A p \in Pids : \A fd : StartAt(p, fd)' => StartAt(p, fd)
  PROVE  AsksOnce' /\ \A fd : Waiting(fd)' => Waiting(fd)
<1>1. ASSUME NEW fd, NEW i \in Nat, AskAt(i, fd)'
      PROVE  \E x \in Nat : AskAt(x, fd)
  BY <1>1, AsksInOrder
<1>2. ASSUME NEW fd, Waiting(fd)'
      PROVE  Waiting(fd)
  BY <1>1, <1>2 DEF Waiting
<1>3. ASSUME NEW fd, Waiting(fd)'
      PROVE  fd \in 1 .. nfd'
  BY <1>2, <1>3 DEF AsksOnce
<1>4. ASSUME NEW fd, NEW p \in Pids, NEW r \in Pids, StartAt(p, fd)', StartAt(r, fd)'
      PROVE  p = r
  BY <1>4 DEF AsksOnce
<1>5. ASSUME NEW fd, NEW p \in Pids, NEW i \in Nat, StartAt(p, fd)', AskAt(i, fd)'
      PROVE  FALSE
  BY <1>1, <1>5 DEF AsksOnce
<1>6. ASSUME NEW fd, NEW i \in Nat, NEW j \in Nat, AskAt(i, fd)', AskAt(j, fd)'
      PROVE  i = j
  BY <1>6, AsksInOrder DEF AsksOnce
<1>7. nfd' \in 0 .. MaxConns
  BY DEF AsksOnce
<1> QED
  BY <1>2, <1>3, <1>4, <1>5, <1>6, <1>7 DEF AsksOnce

LEMMA LoginsAskKept ==
  ASSUME Types, LoginsAsk, UNCHANGED <<nfd, GAMEID>>, KeepsAsks,
         \A p \in Pids : \A fd : StartAt(p, fd)' => StartAt(p, fd)
  PROVE  LoginsAsk'
<1>1. AsksOnce' /\ \A fd : Waiting(fd)' => Waiting(fd)
  BY AsksKept DEF LoginsAsk
<1>2. /\ Cardinality(Heard) \in Nat /\ Cardinality(Heard)' \in Nat
      /\ Cardinality(Heard) <= Cardinality(Heard)'
  <2>1. nfd \in Nat /\ nfd' = nfd /\ nfd <= nfd'
    BY DEF Types
  <2> QED
    BY <1>1, <2>1, HeardKept DEF LoginsAsk
<1>3. GAMEID \in Nat /\ GAMEID' = GAMEID
  BY DEF Types
<1> QED
  BY <1>1, <1>2, <1>3 DEF LoginsAsk

(* Agents that read their mailboxes, or get answers, start nothing new.     *)
LEMMA StartsRead ==
  ASSUME Types, NEW p \in Pids, Reads(p), NEW fd, StartAt(p, fd)'
  PROVE  StartAt(p, fd)
<1>1. PICK i \in Nat : ToStart(p, i, fd)'
  BY DEF StartAt
<1> QED
  BY <1>1, LoginsWait DEF StartAt

LEMMA Asks_Connect ==
  ASSUME Types, LoginsAsk, NEW pid \in Pids, Connect(pid)
  PROVE  LoginsAsk'
<1> DEFINE m == [cmd |-> "start", fd |-> nfd + 1]
<1>1. /\ nfd \in Nat /\ nfd' = nfd + 1 /\ nfd < MaxConns
      /\ UNCHANGED <<mgrq, GAMEID>>
      /\ agentq' = [agentq EXCEPT ![pid] = Append(@, m)]
      /\ m \in AgentMsgs /\ m.fd = nfd + 1
  BY DEF Connect, mgrVars, Types, AgentMsgs
<1> HIDE DEF m
<1>2. /\ agentq[pid] \in Seq(AgentMsgs)
      /\ agentq'[pid] = Append(agentq[pid], m)
      /\ \A p \in Pids : p # pid => agentq'[p] = agentq[p]
  BY <1>1 DEF Types
<1>3. \A i \in DOMAIN Append(agentq[pid], m) :
        \/ i \in DOMAIN agentq[pid] /\ Append(agentq[pid], m)[i] = agentq[pid][i]
        \/ i = Len(agentq[pid]) + 1 /\ Append(agentq[pid], m)[i] = m
  BY <1>1, <1>2, AppendFacts
<1>4. ASSUME NEW p \in Pids, NEW fd, StartAt(p, fd)'
      PROVE  StartAt(p, fd) \/ (p = pid /\ fd = nfd + 1)
  <2>1. PICK i \in Nat : ToStart(p, i, fd)'
    BY <1>4 DEF StartAt
  <2>2. ToStart(p, i, fd) \/ (p = pid /\ fd = nfd + 1)
    BY <1>1, <1>2, <1>3, <2>1 DEF ToStart
  <2> QED
    BY <2>2 DEF StartAt
<1>5. \A fd : \A i \in Nat : AskAt(i, fd)' <=> AskAt(i, fd)
  BY <1>1 DEF AskAt
<1>6. \A fd : Waiting(fd)' => Waiting(fd) \/ fd = nfd + 1
  BY <1>4, <1>5 DEF Waiting
<1>7. ~Waiting(nfd + 1)
  BY <1>1 DEF LoginsAsk, AsksOnce
<1>8. /\ \A p \in Pids : ~StartAt(p, nfd + 1)
      /\ \A i \in Nat : ~AskAt(i, nfd + 1)
  BY <1>7 DEF Waiting
<1>9. AsksOnce'
  <2>1. nfd' \in 0 .. MaxConns
    BY <1>1, GameLifeAssumption
  <2>2. \A fd : Waiting(fd)' => fd \in 1 .. nfd'
    BY <1>1, <1>6 DEF LoginsAsk, AsksOnce
  <2>3. \A fd : \A p, r \in Pids : StartAt(p, fd)' /\ StartAt(r, fd)' => p = r
    BY <1>4, <1>8 DEF LoginsAsk, AsksOnce
  <2>4. \A fd : \A p \in Pids, i \in Nat : ~(StartAt(p, fd)' /\ AskAt(i, fd)')
    BY <1>4, <1>5, <1>8 DEF LoginsAsk, AsksOnce
  <2>5. \A fd : \A i, j \in Nat : AskAt(i, fd)' /\ AskAt(j, fd)' => i = j
    BY <1>5 DEF LoginsAsk, AsksOnce
  <2> QED
    BY <2>1, <2>2, <2>3, <2>4, <2>5 DEF AsksOnce
<1>10. /\ Cardinality(Heard) \in Nat /\ Cardinality(Heard)' \in Nat
       /\ Cardinality(Heard) <= Cardinality(Heard)'
  <2>1. nfd' \in Nat /\ nfd <= nfd' /\ \A fd \in 1 .. nfd : fd # nfd + 1
    BY <1>1
  <2>2. \A fd \in 1 .. nfd : Waiting(fd)' => Waiting(fd)
    BY <1>6, <2>1
  <2> QED
    BY <2>1, <2>2, HeardKept DEF LoginsAsk
<1>11. GAMEID \in Nat /\ GAMEID' = GAMEID
  BY <1>1 DEF Types
<1> QED
  BY <1>9, <1>10, <1>11 DEF LoginsAsk

(* The login is taken from the agent's mailbox to that of SCENE_MGR.        *)
LEMMA Asks_start ==
  ASSUME Types, StartedOnce, LoginsAsk, NEW pid \in Pids, start(pid)
  PROVE  LoginsAsk'
<1>1. PICK f : f = Head(agentq[pid]).fd
  OBVIOUS
<1>2. /\ agentq[pid] # <<>> /\ Head(agentq[pid]).cmd = "start"
      /\ agentq' = [agentq EXCEPT ![pid] = Tail(@)]
      /\ mgrq' = Append(mgrq, EnterPlayer(pid, f))
      /\ UNCHANGED <<nfd, GAMEID>>
  BY <1>1 DEF start, Receives
<1>3. /\ agentq[pid] \in Seq(AgentMsgs) /\ mgrq \in Seq(MgrMsgs) /\ f \in Nat
      /\ agentq'[pid] = Tail(agentq[pid])
      /\ \A p \in Pids : p # pid => agentq'[p] = agentq[p]
  BY <1>1, <1>2, TailFacts, Fields DEF Types
<1>4. PICK m : m = EnterPlayer(pid, f)
  OBVIOUS
<1>5. m \in MgrMsgs /\ m.fd = f
  BY <1>3, <1>4, Messages DEF EnterPlayer
<1>6. ToStart(pid, 1, f)
  BY <1>1, <1>2, <1>3, TailFacts DEF ToStart
<1>7. \A p \in Pids : Reads(p)
  BY <1>2, <1>3 DEF Reads
<1>8. \A p \in Pids : \A fd : StartAt(p, fd)' => StartAt(p, fd)
  BY <1>7, StartsRead
<1>9. StartAt(pid, f) /\ ~StartAt(pid, f)'
  <2>1. ASSUME NEW i \in Nat, ToStart(pid, i, f)' PROVE FALSE
    <3>1. ToStart(pid, i + 1, f) /\ i # 0
      BY <1>2, <2>1, AgentReads DEF ToStart
    <3>2. i + 1 = 1
      BY <1>3, <1>6, <3>1 DEF StartedOnce
    <3> QED
      BY <3>1, <3>2
  <2> QED
    BY <1>6, <2>1 DEF StartAt
<1>10. ASSUME NEW fd, NEW i \in Nat, AskAt(i, fd)'
       PROVE  AskAt(i, fd) \/ (fd = f /\ i = Len(mgrq) + 1)
  <2>1. \A k \in DOMAIN Append(mgrq, m) :
          \/ k \in DOMAIN mgrq /\ Append(mgrq, m)[k] = mgrq[k]
          \/ k = Len(mgrq) + 1 /\ Append(mgrq, m)[k] = m
    BY <1>3, <1>5, AppendFacts
  <2> QED
    BY <1>2, <1>4, <1>5, <1>10, <2>1 DEF AskAt
<1>11. \A fd : Waiting(fd)' => Waiting(fd)
  BY <1>8, <1>9, <1>10 DEF Waiting
<1>12. \A i \in Nat : ~AskAt(i, f)
  BY <1>9 DEF LoginsAsk, AsksOnce
<1>13. AsksOnce'
  <2>1. nfd' \in 0 .. MaxConns
    BY <1>2 DEF LoginsAsk, AsksOnce
  <2>2. \A fd : Waiting(fd)' => fd \in 1 .. nfd'
    BY <1>2, <1>11 DEF LoginsAsk, AsksOnce
  <2>3. \A fd : \A p, r \in Pids : StartAt(p, fd)' /\ StartAt(r, fd)' => p = r
    BY <1>8 DEF LoginsAsk, AsksOnce
  <2>4. ASSUME NEW fd, NEW p \in Pids, NEW i \in Nat, StartAt(p, fd)', AskAt(i, fd)'
        PROVE  FALSE
    <3>1. StartAt(p, fd)
      BY <1>8, <2>4
    <3>2. fd = f
      BY <1>10, <2>4, <3>1 DEF LoginsAsk, AsksOnce
    <3>3. p = pid
      BY <1>9, <3>1, <3>2 DEF LoginsAsk, AsksOnce
    <3> QED
      BY <1>9, <2>4, <3>2, <3>3
  <2>5. \A fd : \A i, j \in Nat : AskAt(i, fd)' /\ AskAt(j, fd)' => i = j
    BY <1>10, <1>12 DEF LoginsAsk, AsksOnce
  <2> QED
    BY <2>1, <2>2, <2>3, <2>4, <2>5 DEF AsksOnce
<1>14. /\ Cardinality(Heard) \in Nat /\ Cardinality(Heard)' \in Nat
       /\ Cardinality(Heard) <= Cardinality(Heard)'
  <2>1. nfd' \in Nat /\ nfd <= nfd'
    BY <1>2 DEF Types
  <2> QED
    BY <1>11, <2>1, HeardKept DEF LoginsAsk
<1>15. GAMEID \in Nat /\ GAMEID' = GAMEID
  BY <1>2 DEF Types
<1> QED
  BY <1>13, <1>14, <1>15 DEF LoginsAsk

(* A login that is heard makes room for the game it creates.                *)
LEMMA Asks_new_proxy ==
  ASSUME Types, LoginsAsk, new_proxy
  PROVE  LoginsAsk'
<1>1. PICK f : f = Head(mgrq).fd
  OBVIOUS
<1>2. /\ mgrq # <<>> /\ Head(mgrq).cmd = "enter_player" /\ mgrq' = Tail(mgrq)
      /\ GAMEID' = GAMEID + 1 /\ UNCHANGED <<nfd, agentq>>
  BY DEF new_proxy, Receives, NewServiceUniqID, agentVars
<1>3. mgrq \in Seq(MgrMsgs) /\ nfd \in Nat /\ GAMEID \in Nat
  BY DEF Types
<1>4. \A p \in Pids : \A fd : StartAt(p, fd)' => StartAt(p, fd)
  BY <1>2 DEF StartAt, ToStart
<1>5. AsksOnce' /\ \A fd : Waiting(fd)' => Waiting(fd)
  BY <1>2, <1>4, AsksKept DEF KeepsAsks, LoginsAsk
<1>6. AskAt(1, f)
  BY <1>1, <1>2, <1>3, TailFacts DEF AskAt
<1>7. f \in 1 .. nfd /\ Waiting(f)
  <2>1. Waiting(f)
    BY <1>6 DEF Waiting
  <2> QED
    BY <2>1 DEF LoginsAsk, AsksOnce
<1>8. ~Waiting(f)'
  <2>1. ASSUME NEW i \in Nat, AskAt(i, f)' PROVE FALSE
    <3>1. AskAt(i + 1, f) /\ i + 1 # 1 /\ i + 1 \in Nat
      BY <1>2, <1>3, <2>1, TailFacts DEF AskAt
    <3> QED
      BY <1>6, <3>1 DEF LoginsAsk, AsksOnce
  <2>2. ASSUME NEW p \in Pids, StartAt(p, f)' PROVE FALSE
    BY <1>4, <1>6, <2>2 DEF LoginsAsk, AsksOnce
  <2> QED
    BY <2>1, <2>2 DEF Waiting
<1>9. /\ IsFiniteSet(Heard) /\ IsFiniteSet(Heard')
      /\ Heard \cup {f} \subseteq Heard' /\ f \notin Heard
  <2>1. IsFiniteSet(1 .. nfd)
    BY <1>3, FS_Interval
  <2>2. Heard \subseteq 1 .. nfd /\ Heard' \subseteq 1 .. nfd
    BY <1>2 DEF Heard
  <2>3. IsFiniteSet(Heard) /\ IsFiniteSet(Heard')
    BY <2>1, <2>2, FS_Subset
  <2> QED
    BY <1>2, <1>5, <1>7, <1>8, <2>3 DEF Heard
<1>10. /\ Cardinality(Heard) \in Nat /\ Cardinality(Heard)' \in Nat
       /\ Cardinality(Heard) + 1 <= Cardinality(Heard)'
  <2>1. PICK S : S = Heard'
    OBVIOUS
  <2>2. Cardinality(Heard \cup {f}) = Cardinality(Heard) + 1
    BY <1>9, FS_AddElement
  <2>3. Cardinality(Heard \cup {f}) <= Cardinality(S)
    BY <1>9, <2>1, FS_Subset
  <2>4. Cardinality(Heard) \in Nat /\ Cardinality(S) \in Nat
    BY <1>9, <2>1, FS_CardinalityType
  <2> QED
    BY <2>1, <2>2, <2>3, <2>4
<1> QED
  BY <1>2, <1>3, <1>5, <1>10 DEF LoginsAsk


(* A player enters a game of the list, or one that SCENE_MGR has just been  *)
(* answered about.                                                          *)
EnterReads(list, i, pid, fd) ==
  \A p \in Pids :
    /\ Reads(p)
    /\ \A y \in Range(agentq'[p]) :
         y \in Range(agentq[p]) \/ (p = pid /\ y = Entering(list[i].game_id, fd))

LEMMA EnterIsRead ==
  ASSUME Types, NEW list \in Seq(Proxies), NEW i \in DOMAIN list,
         NEW pid \in Pids, NEW fd \in Nat, Enter(list, i, pid, fd)
  PROVE  EnterReads(list, i, pid, fd)
<1>1. PICK m : m = Entering(list[i].game_id, fd)
  OBVIOUS
<1>2. m \in AgentMsgs /\ m.cmd = "entering"
  <2>1. list[i].game_id \in Nat
    BY Entered
  <2> QED
    BY <1>1, <2>1 DEF Entering, AgentMsgs
<1>3. PICK mailbox \in Answer(agentq[pid], m) :
        agentq' = [agentq EXCEPT ![pid] = mailbox]
  BY <1>1 DEF Enter
<1>4. /\ agentq[pid] \in Seq(AgentMsgs) /\ agentq'[pid] = mailbox
      /\ \A p \in Pids : p # pid => agentq'[p] = agentq[p]
  BY <1>3 DEF Types
<1>5. Range(mailbox) = Range(agentq[pid]) \cup {m}
  BY <1>2, <1>4, AnswerFacts
<1>6. \A p \in Pids : Reads(p)
  BY <1>2, <1>3, <1>4 DEF Reads
<1>7. \A p \in Pids : \A y \in Range(agentq'[p]) : y \in Range(agentq[p]) \/ (p = pid /\ y = m)
  BY <1>4, <1>5
<1> QED
  BY <1>1, <1>6, <1>7 DEF EnterReads

Lets(list, i, h) ==
  /\ mgrq # <<>> /\ h = Head(mgrq) /\ mgrq' = Tail(mgrq)
  /\ h \in MgrMsgs /\ h \in Range(mgrq) /\ h.cmd \in {"enter_player", "new_game"}
  /\ list \in Seq(Proxies) /\ i \in DOMAIN list
  /\ h.pid \in Pids /\ h.fd \in Nat
  /\ Enter(list, i, h.pid, h.fd)
  /\ \A j \in DOMAIN list :
       \/ list[j].game_id \in Listed
       \/ h.cmd = "new_game" /\ list[j].game_id = h.game_id
  /\ UNCHANGED <<nfd, online, playerlist, GAMEID, m_Players>>

LEMMA MgrLets ==
  ASSUME Types, enter_player \/ new_game_answer
  PROVE  \E list, i, h : Lets(list, i, h)
<1>1. PICK h : h = Head(mgrq)
  OBVIOUS
<1>2. mgrq # <<>> /\ mgrq' = Tail(mgrq) /\ h.cmd \in {"enter_player", "new_game"}
  BY <1>1 DEF enter_player, new_game_answer, Receives
<1>3. h \in Range(mgrq) /\ h \in MgrMsgs
  BY <1>1, <1>2, MgrTaken
<1>4. /\ h.pid \in Pids /\ h.fd \in Nat /\ m_SceneProxyList \in Seq(Proxies)
      /\ h.cmd = "new_game" => h.game_id \in Nat
  BY <1>2, <1>3, Fields DEF Types
<1>5. CASE enter_player
  <2>1. /\ m_SceneProxyList # <<>> /\ Enter(m_SceneProxyList, 1, h.pid, h.fd)
        /\ UNCHANGED <<nfd, online, playerlist, GAMEID, m_Players>>
    BY <1>1, <1>5 DEF enter_player
  <2>2. 1 \in DOMAIN m_SceneProxyList
    BY <1>4, <2>1
  <2>3. Lets(m_SceneProxyList, 1, h)
    BY <1>1, <1>2, <1>3, <1>4, <2>1, <2>2 DEF Lets, Listed
  <2> QED
    BY <2>3
<1>6. CASE new_game_answer
  <2>1. PICK r : r = [game_id |-> h.game_id, playercnt |-> 0]
    OBVIOUS
  <2>2. PICK list : list = Append(m_SceneProxyList, r)
    OBVIOUS
  <2>3. /\ h.cmd = "new_game" /\ Enter(list, Len(list), h.pid, h.fd)
        /\ UNCHANGED <<nfd, online, playerlist, GAMEID, m_Players>>
    BY <1>1, <1>6, <2>1, <2>2 DEF new_game_answer, Receives
  <2>4. r \in Proxies /\ r.game_id = h.game_id
    BY <1>4, <2>1, <2>3 DEF Proxies
  <2>5. list \in Seq(Proxies) /\ Len(list) \in DOMAIN list
    BY <1>4, <2>2, <2>4
  <2>6. \A j \in DOMAIN list :
          (j \in DOMAIN m_SceneProxyList /\ list[j] = m_SceneProxyList[j]) \/ list[j] = r
    BY <1>4, <2>2, <2>4, AppendFacts
  <2>7. Lets(list, Len(list), h)
    BY <1>1, <1>2, <1>3, <1>4, <2>3, <2>4, <2>5, <2>6 DEF Lets, Listed
  <2> QED
    BY <2>7
<1> QED
  BY <1>5, <1>6

(* The other steps.                                                         *)
LEMMA AsksStep ==
  ASSUME Types, StartedOnce, LoginsAsk, [Next]_vars
  PROVE  LoginsAsk'
<1>1. ASSUME NEW pid \in Pids, Disconnect(pid) PROVE LoginsAsk'
  <2> DEFINE m == [cmd |-> "kick"]
  <2>1. /\ agentq' = [agentq EXCEPT ![pid] = Append(@, m)]
        /\ UNCHANGED <<nfd, mgrq, GAMEID>>
        /\ m \in AgentMsgs /\ m.cmd = "kick"
    BY <1>1 DEF Disconnect, mgrVars, AgentMsgs
  <2> HIDE DEF m
  <2>2. /\ agentq[pid] \in Seq(AgentMsgs)
        /\ agentq'[pid] = Append(agentq[pid], m)
        /\ \A p \in Pids : p # pid => agentq'[p] = agentq[p]
    BY <2>1 DEF Types
  <2>3. \A i \in DOMAIN Append(agentq[pid], m) :
          \/ i \in DOMAIN agentq[pid] /\ Append(agentq[pid], m)[i] = agentq[pid][i]
          \/ i = Len(agentq[pid]) + 1 /\ Append(agentq[pid], m)[i] = m
    BY <2>1, <2>2, AppendFacts
  <2>4. \A p \in Pids : \A fd : StartAt(p, fd)' => StartAt(p, fd)
    BY <2>1, <2>2, <2>3 DEF StartAt, ToStart
  <2> QED
    BY <2>1, <2>4, LoginsAskKept DEF KeepsAsks
<1>2. ASSUME NEW pid \in Pids, enterwar(pid) \/ kick(pid) PROVE LoginsAsk'
  <2>1. /\ agentq[pid] # <<>> /\ agentq' = [agentq EXCEPT ![pid] = Tail(@)]
        /\ UNCHANGED <<nfd, mgrq, GAMEID>>
    BY <1>2 DEF enterwar, kick, Receives, mgrVars
  <2>2. \A p \in Pids : Reads(p)
    BY <2>1 DEF Reads, Types
  <2>3. \A p \in Pids : \A fd : StartAt(p, fd)' => StartAt(p, fd)
    BY <2>2, StartsRead
  <2> QED
    BY <2>1, <2>3, LoginsAskKept DEF KeepsAsks
<1>3. CASE enter_player \/ new_game_answer
  <2>1. PICK list, i, h : Lets(list, i, h)
    BY <1>3, MgrLets
  <2>2. EnterReads(list, i, h.pid, h.fd)
    BY <2>1, EnterIsRead DEF Lets
  <2>3. \A p \in Pids : \A fd : StartAt(p, fd)' => StartAt(p, fd)
    BY <2>2, StartsRead DEF EnterReads
  <2> QED
    BY <2>1, <2>3, LoginsAskKept DEF KeepsAsks, Lets
<1>4. CASE /\ UNCHANGED <<nfd, GAMEID, agentq>>
           /\ KeepsAsks
  <2>1. \A p \in Pids : \A fd : StartAt(p, fd)' => StartAt(p, fd)
    BY <1>4 DEF StartAt, ToStart
  <2> QED
    BY <1>4, <2>1, LoginsAskKept
<1>5. CASE mgr_game_over
  BY <1>4, <1>5 DEF mgr_game_over, Receives, agentVars, KeepsAsks
<1>6. ASSUME NEW s \in Scenes, new_game(s) PROVE LoginsAsk'
  <2>1. PICK m : m = Head(sceneq[s])
    OBVIOUS
  <2>2. m \in SceneMsgs /\ m.cmd = "new_game" /\ mgrq' \in Answer(mgrq, m)
    BY <1>6, <2>1, SceneTaken DEF new_game, Receives
  <2>3. m \in MgrMsgs /\ mgrq \in Seq(MgrMsgs)
    BY <2>2, Fields DEF Types
  <2>4. \E k \in Nat : GotIn(mgrq, m, mgrq', k)
    BY <2>2, <2>3, AnswerFacts
  <2>5. KeepsAsks
    BY <2>2, <2>4 DEF KeepsAsks
  <2> QED
    BY <1>4, <1>6, <2>5 DEF new_game, agentVars
<1>7. ASSUME NEW s \in Scenes,
             scene_enter_player(s) \/ scene_leave_player(s) \/ game_over_answer(s)
      PROVE  LoginsAsk'
  BY <1>4, <1>7 DEF scene_enter_player, scene_leave_player, game_over_answer, agentVars,
                    mgrVars, KeepsAsks
<1>8. ASSUME NEW g \in checking, check_over(g) PROVE LoginsAsk'
  <2>1. PICK m : m = AboutGame("game_over", g)
    OBVIOUS
  <2>2. m.cmd # "enter_player" /\ mgrq' = Append(mgrq, m) /\ mgrq \in Seq(MgrMsgs)
    BY <1>8, <2>1 DEF check_over, AboutGame, Types
  <2>3. GotIn(mgrq, m, mgrq', Len(mgrq) + 1) /\ Len(mgrq) + 1 \in Nat
    BY <2>2, AppendGetsIn
  <2>4. KeepsAsks
    BY <2>2, <2>3 DEF KeepsAsks
  <2> QED
    BY <1>4, <1>8, <2>4 DEF check_over, agentVars
<1>9. CASE UNCHANGED vars
  BY <1>4, <1>9 DEF vars, agentVars, mgrVars, KeepsAsks
<1> QED
  BY <1>1, <1>2, <1>3, <1>5, <1>6, <1>7, <1>8, <1>9, Asks_Connect, Asks_start, Asks_new_proxy
     DEF Next, Agent, SceneMgr, SceneService

LEMMA AsksInit == Init => LoginsAsk
<1> SUFFICES ASSUME Init PROVE LoginsAsk
  OBVIOUS
<1>1. /\ nfd = 0 /\ GAMEID = 0 /\ mgrq = <<>> /\ MaxConns \in Nat
      /\ \A p \in Pids : agentq[p] = <<>>
  BY GameLifeAssumption DEF Init
<1>2. \A fd : ~Waiting(fd)
  BY <1>1 DEF Waiting, StartAt, AskAt, ToStart
<1>3. AsksOnce
  BY <1>1, <1>2 DEF AsksOnce, Waiting
<1>4. Heard = {}
  BY <1>1 DEF Heard
<1>5. Cardinality(Heard) = 0
  BY <1>4, FS_EmptySet
<1> QED
  BY <1>1, <1>3, <1>5 DEF LoginsAsk

(* The ids in the messages, with n logins and k games.                      *)
AgentFits(m, n, k) ==
  /\ m.cmd # "kick" => m.fd \in 1 .. n
  /\ m.cmd = "entering" => m.game_id \in 1 .. k

MgrFits(m, n, k) ==
  /\ m.cmd # "game_over" => m.fd \in 1 .. n
  /\ m.cmd # "enter_player" => m.game_id \in 1 .. k

SceneFits(m, n, k) ==
  /\ m.game_id \in 1 .. k
  /\ m.cmd = "new_game" => m.fd \in 1 .. n

PlayerFits(x, n, k) ==
  x # nil => x.m_FD \in 1 .. n /\ x.m_GameID \in {nil} \cup 1 .. k

AgentsFit(n, k) ==
  \A p \in Pids :
    /\ \A m \in Range(agentq[p]) : AgentFits(m, n, k)
    /\ PlayerFits(playerlist[p], n, k)

MgrFit(n, k) ==
  /\ \A m \in Range(mgrq) : MgrFits(m, n, k)
  /\ Listed \subseteq 1 .. k

ScenesFit(n, k) ==
  /\ \A m \in InScenes : SceneFits(m, n, k)
  /\ DOMAIN m_Players \subseteq 1 .. k

Fit(n, k) == AgentsFit(n, k) /\ MgrFit(n, k) /\ ScenesFit(n, k)

LEMMA FitMore ==
  ASSUME NEW n \in Nat, NEW k \in Nat, NEW a \in Nat, NEW b \in Nat, n <= a, k <= b,
         Fit(n, k)
  PROVE  Fit(a, b)
<1>1. 1 .. n \subseteq 1 .. a /\ 1 .. k \subseteq 1 .. b
  OBVIOUS
<1>2. AgentsFit(a, b)
  BY <1>1 DEF Fit, AgentsFit, AgentFits, PlayerFits
<1>3. MgrFit(a, b)
  BY <1>1 DEF Fit, MgrFit, MgrFits
<1>4. ScenesFit(a, b)
  BY <1>1 DEF Fit, ScenesFit, SceneFits
<1> QED
  BY <1>2, <1>3, <1>4 DEF Fit

(* What a step of an agent does to the ids.                                 *)
LEMMA FitAgents ==
  ASSUME Types, NEW n \in Nat, NEW k \in Nat, Fit(n, k), nfd' <= n,
         NEW pid \in Pids, Connect(pid) \/ Disconnect(pid) \/ Agent(pid)
  PROVE  Fit(n, k)'
<1>0. nfd \in Nat /\ agentq[pid] \in Seq(AgentMsgs) /\ mgrq \in Seq(MgrMsgs)
  BY DEF Types
<1>1. ASSUME NEW m \in AgentMsgs, AgentFits(m, n, k),
             agentq' = [agentq EXCEPT ![pid] = Append(@, m)],
             UNCHANGED <<playerlist, mgrVars, sceneVars>>
      PROVE  Fit(n, k)'
  <2>1. /\ Range(Append(agentq[pid], m)) = Range(agentq[pid]) \cup {m}
        /\ agentq'[pid] = Append(agentq[pid], m)
        /\ \A p \in Pids : p # pid => agentq'[p] = agentq[p]
    BY <1>0, <1>1, AppendFacts DEF Types
  <2>2. AgentsFit(n, k)'
    BY <1>1, <2>1 DEF Fit, AgentsFit
  <2>3. MgrFit(n, k)' /\ ScenesFit(n, k)'
    BY <1>1 DEF Fit, MgrFit, ScenesFit, mgrVars, sceneVars, InScenes, Listed
  <2> QED
    BY <2>2, <2>3 DEF Fit
<1>2. CASE Connect(pid)
  <2>1. PICK m : m = [cmd |-> "start", fd |-> nfd + 1]
    OBVIOUS
  <2>2. nfd + 1 <= n /\ m.fd = nfd + 1 /\ m.cmd = "start" /\ m \in AgentMsgs
    BY <1>0, <1>2, <2>1 DEF Connect, AgentMsgs
  <2>3. AgentFits(m, n, k)
    BY <1>0, <2>2 DEF AgentFits
  <2> QED
    BY <1>1, <1>2, <2>1, <2>2, <2>3 DEF Connect
<1>3. CASE Disconnect(pid)
  <2>1. PICK m : m = [cmd |-> "kick"]
    OBVIOUS
  <2>2. m \in AgentMsgs /\ AgentFits(m, n, k)
    BY <2>1 DEF AgentMsgs, AgentFits
  <2> QED
    BY <1>1, <1>3, <2>1, <2>2 DEF Disconnect
<1>4. ASSUME NEW h, h = Head(agentq[pid]), agentq[pid] # <<>>,
             agentq' = [agentq EXCEPT ![pid] = Tail(@)],
             \A p \in Pids : AgentFits(h, n, k) => PlayerFits(playerlist'[p], n, k)
      PROVE  AgentsFit(n, k)' /\ h \in AgentMsgs /\ AgentFits(h, n, k)
  <2>1. /\ h \in AgentMsgs /\ h \in Range(agentq[pid])
        /\ \A p \in Pids : Range(agentq'[p]) \subseteq Range(agentq[p])
    BY <1>4, AgentReads
  <2>2. AgentFits(h, n, k)
    BY <2>1 DEF Fit, AgentsFit
  <2> QED
    BY <1>4, <2>1, <2>2 DEF Fit, AgentsFit
<1>5. PICK h : h = Head(agentq[pid])
  OBVIOUS
<1>6. \A p \in Pids : PlayerFits(playerlist[p], n, k)
  BY DEF Fit, AgentsFit
<1>7. CASE start(pid)
  <2>1. /\ agentq[pid] # <<>> /\ agentq' = [agentq EXCEPT ![pid] = Tail(@)]
        /\ h.cmd = "start"
        /\ playerlist' = [playerlist EXCEPT ![pid] = [m_FD |-> h.fd, m_GameID |-> nil]]
        /\ mgrq' = Append(mgrq, EnterPlayer(pid, h.fd))
        /\ UNCHANGED <<m_SceneProxyList, sceneVars>>
    BY <1>5, <1>7 DEF start, Receives
  <2>2. \A p \in Pids : AgentFits(h, n, k) => PlayerFits(playerlist'[p], n, k)
    BY <1>6, <2>1 DEF Types, PlayerFits, AgentFits
  <2>3. AgentsFit(n, k)' /\ h \in AgentMsgs /\ AgentFits(h, n, k)
    BY <1>4, <1>5, <2>1, <2>2
  <2>4. PICK m : m = EnterPlayer(pid, h.fd)
    OBVIOUS
  <2>5. m \in MgrMsgs /\ m.cmd = "enter_player" /\ m.fd \in 1 .. n
    BY <2>1, <2>3, <2>4 DEF EnterPlayer, AgentFits, MgrMsgs
  <2>6. MgrFit(n, k)'
    BY <1>0, <2>1, <2>4, <2>5, AppendFacts DEF Fit, MgrFit, MgrFits, Listed
  <2> QED
    BY <2>1, <2>3, <2>6 DEF Fit, ScenesFit, sceneVars, InScenes
<1>8. CASE enterwar(pid)
  <2>1. /\ agentq[pid] # <<>> /\ agentq' = [agentq EXCEPT ![pid] = Tail(@)]
        /\ h.cmd = "entering"
        /\ \/ playerlist[pid] # nil
              /\ playerlist' = [playerlist EXCEPT ![pid].m_GameID = h.game_id]
           \/ playerlist' = playerlist
        /\ UNCHANGED <<mgrVars, sceneVars>>
    BY <1>5, <1>8 DEF enterwar, Receives
  <2>2. ASSUME NEW p \in Pids, AgentFits(h, n, k)
        PROVE  PlayerFits(playerlist'[p], n, k)
    <3>1. CASE playerlist' = playerlist \/ p # pid
      BY <1>6, <2>1, <3>1 DEF Types
    <3>2. CASE p = pid /\ playerlist[pid] # nil
               /\ playerlist' = [playerlist EXCEPT ![pid].m_GameID = h.game_id]
      <4>1. PICK x : x = playerlist[pid]
        OBVIOUS
      <4>2. x \in [m_FD : Nat, m_GameID : {nil} \cup Nat] /\ x.m_FD \in 1 .. n
        BY <1>6, <3>2, <4>1 DEF Types, PlayerFits
      <4>3. playerlist'[pid] = [x EXCEPT !.m_GameID = h.game_id]
        BY <3>2, <4>1 DEF Types
      <4>4. playerlist'[pid].m_FD = x.m_FD /\ playerlist'[pid].m_GameID = h.game_id
        BY <4>2, <4>3
      <4> QED
        BY <2>1, <2>2, <3>2, <4>2, <4>4 DEF PlayerFits, AgentFits
    <3> QED
      BY <2>1, <3>1, <3>2
  <2>3. AgentsFit(n, k)'
    BY <1>4, <1>5, <2>1, <2>2
  <2> QED
    BY <2>1, <2>3 DEF Fit, MgrFit, ScenesFit, mgrVars, sceneVars, InScenes, Listed
<1>9. CASE kick(pid)
  <2>1. /\ agentq[pid] # <<>> /\ agentq' = [agentq EXCEPT ![pid] = Tail(@)]
        /\ playerlist' = [playerlist EXCEPT ![pid] = nil]
        /\ UNCHANGED <<mgrVars, m_Players>>
    BY <1>9 DEF kick, Receives
  <2>2. \A p \in Pids : PlayerFits(playerlist'[p], n, k)
    BY <1>6, <2>1 DEF Types, PlayerFits
  <2>3. AgentsFit(n, k)'
    BY <1>4, <1>5, <2>1, <2>2
  <2>4. \A m \in InScenes' : SceneFits(m, n, k)
    <3>1. CASE InGame(pid)
      <4>1. PICK g : g = playerlist[pid].m_GameID
        OBVIOUS
      <4>2. g \in 1 .. k
        BY <1>6, <3>1, <4>1 DEF InGame, PlayerFits
      <4>3. PICK m : m = AboutPlayer("leave_player", g, pid)
        OBVIOUS
      <4>4. m \in SceneMsgs /\ m.game_id = g /\ m.game_id \in Nat /\ m.cmd = "leave_player"
        BY <4>2, <4>3 DEF AboutPlayer, SceneMsgs
      <4>5. sceneq' = SendScene(sceneq, m)
        BY <1>9, <3>1, <4>1, <4>3 DEF kick
      <4>6. InScenes' = InScenes \cup {m}
        BY <4>4, <4>5, SceneSent
      <4> QED
        BY <4>2, <4>4, <4>6 DEF Fit, ScenesFit, SceneFits
    <3>2. CASE ~InGame(pid)
      BY <1>9, <3>2 DEF kick, Fit, ScenesFit, InScenes
    <3> QED
      BY <3>1, <3>2
  <2> QED
    BY <2>1, <2>3, <2>4 DEF Fit, MgrFit, ScenesFit, mgrVars, Listed
<1> QED
  BY <1>2, <1>3, <1>7, <1>8, <1>9 DEF Agent

(* What SCENE_MGR does to them.                                             *)
LEMMA FitMgr ==
  ASSUME Types, NEW n \in Nat, NEW k \in Nat, Fit(n, k), GAMEID' <= k, SceneMgr
  PROVE  Fit(n, k)'
<1>1. PICK h : h = Head(mgrq)
  OBVIOUS
<1>2. mgrq # <<>> /\ mgrq' = Tail(mgrq)
  BY DEF SceneMgr, enter_player, new_proxy, new_game_answer, mgr_game_over, Receives
<1>3. h \in Range(mgrq) /\ h \in MgrMsgs /\ Range(mgrq)' \subseteq Range(mgrq)
  BY <1>1, <1>2, MgrTaken
<1>4. MgrFits(h, n, k) /\ \A m \in Range(mgrq)' : MgrFits(m, n, k)
  BY <1>3 DEF Fit, MgrFit
<1>5. CASE enter_player \/ new_game_answer
  <2>1. PICK list, i, h0 : Lets(list, i, h0)
    BY <1>5, MgrLets
  <2>2. /\ h0 = h /\ list \in Seq(Proxies) /\ i \in DOMAIN list
        /\ h.pid \in Pids /\ h.fd \in Nat /\ Enter(list, i, h.pid, h.fd)
        /\ h.cmd \in {"enter_player", "new_game"}
        /\ UNCHANGED <<playerlist, m_Players>>
    BY <1>1, <2>1 DEF Lets
  <2>3. \A j \in DOMAIN list : list[j].game_id \in 1 .. k
    BY <1>4, <2>1, <2>2 DEF Lets, MgrFits, Fit, MgrFit
  <2>4. PICK g : g = list[i].game_id
    OBVIOUS
  <2>5. /\ g \in Nat /\ g \in 1 .. k
        /\ m_SceneProxyList' = counted(list, i)
        /\ sceneq' = SendScene(sceneq, AboutPlayer("enter_player", g, h.pid))
    BY <2>2, <2>3, <2>4, Entered
  <2>6. Listed' \subseteq 1 .. k
    <3>1. \A j \in DOMAIN counted(list, i) :
            \E l \in DOMAIN list : counted(list, i)[j].game_id = list[l].game_id
      BY <2>2, CountedFacts
    <3> QED
      BY <2>3, <2>5, <3>1 DEF Listed
  <2>7. PICK m : m = AboutPlayer("enter_player", g, h.pid)
    OBVIOUS
  <2>8. m \in SceneMsgs /\ m.cmd = "enter_player" /\ m.game_id = g
    BY <2>2, <2>5, <2>7, EnterMessage
  <2>9. InScenes' = InScenes \cup {m}
    BY <2>5, <2>7, <2>8, SceneSent
  <2>10. ScenesFit(n, k)'
    BY <2>2, <2>5, <2>8, <2>9 DEF Fit, ScenesFit, SceneFits
  <2>11. EnterReads(list, i, h.pid, h.fd)
    BY <2>2, EnterIsRead
  <2>12. AgentFits(Entering(g, h.fd), n, k)
    BY <1>4, <2>2, <2>5 DEF AgentFits, Entering, MgrFits
  <2>13. AgentsFit(n, k)'
    BY <2>2, <2>4, <2>11, <2>12 DEF EnterReads, Fit, AgentsFit
  <2> QED
    BY <1>4, <2>6, <2>10, <2>13 DEF Fit, MgrFit
<1>6. CASE new_proxy
  <2>1. PICK g : g = GAMEID + 1
    OBVIOUS
  <2>2. PICK m : m = NewGame(g, h.pid, h.fd)
    OBVIOUS
  <2>3. /\ h.cmd = "enter_player" /\ GAMEID' = g /\ sceneq' = SendScene(sceneq, m)
        /\ UNCHANGED <<agentVars, m_SceneProxyList, m_Players>>
    BY <1>1, <1>6, <2>1, <2>2 DEF new_proxy, NewServiceUniqID, Receives
  <2>4. g \in Nat /\ g \in 1 .. k /\ h.pid \in Pids /\ h.fd \in Nat
    <3>1. GAMEID \in Nat
      BY DEF Types
    <3> QED
      BY <1>3, <2>1, <2>3, <3>1, Fields
  <2>5. /\ m \in SceneMsgs /\ m.game_id = g /\ m.game_id \in Nat
        /\ m.cmd = "new_game" /\ m.fd = h.fd
    BY <2>2, <2>4 DEF NewGame, SceneMsgs
  <2>6. InScenes' = InScenes \cup {m}
    BY <2>3, <2>5, SceneSent
  <2>7. ScenesFit(n, k)'
    BY <1>4, <2>3, <2>4, <2>5, <2>6 DEF Fit, ScenesFit, SceneFits, MgrFits
  <2> QED
    BY <1>4, <2>3, <2>7 DEF Fit, MgrFit, AgentsFit, agentVars, Listed
<1>7. CASE mgr_game_over
  <2>1. PICK g : g = h.game_id
    OBVIOUS
  <2>2. PICK m : m = AboutGame("game_over", g)
    OBVIOUS
  <2>3. PICK s : s = get_scene_service(g)
    OBVIOUS
  <2>4. /\ h.cmd = "game_over"
        /\ m_SceneProxyList' = del_proxy(m_SceneProxyList, g)
        /\ \E mailbox \in Answer(sceneq[s], m) : sceneq' = [sceneq EXCEPT ![s] = mailbox]
        /\ UNCHANGED <<agentVars, m_Players>>
    BY <1>1, <1>7, <2>1, <2>2, <2>3 DEF mgr_game_over, Receives
  <2>5. g \in Nat /\ g \in 1 .. k /\ s \in Scenes
    BY <1>3, <1>4, <2>1, <2>3, <2>4, Fields, ServiceIsScene DEF MgrFits
  <2>6. m \in SceneMsgs /\ m.cmd = "game_over" /\ m.game_id = g
    BY <2>2, <2>5, Messages
  <2>7. InScenes' = InScenes \cup {m}
    BY <2>4, <2>5, <2>6, SceneAnswered
  <2>8. ScenesFit(n, k)'
    BY <2>4, <2>5, <2>6, <2>7 DEF Fit, ScenesFit, SceneFits
  <2>9. Listed' \subseteq Listed
    <3>1. PICK list : list = m_SceneProxyList
      OBVIOUS
    <3>2. PICK at : at = {j \in DOMAIN list : list[j].game_id = g}
      OBVIOUS
    <3>3. CASE at = {}
      BY <2>4, <3>1, <3>2, <3>3 DEF del_proxy, Listed
    <3>4. CASE at # {}
      <4>1. PICK l \in at : del_proxy(list, g) = RemoveAt(list, l)
        BY <3>2, <3>4 DEF del_proxy
      <4>2. l \in DOMAIN list /\ list \in Seq(Proxies)
        BY <3>1, <3>2 DEF Types
      <4>3. \A j \in DOMAIN RemoveAt(list, l) :
              \E x \in DOMAIN list : RemoveAt(list, l)[j] = list[x]
        BY <4>2, RemoveFacts
      <4> QED
        BY <2>4, <3>1, <4>1, <4>3 DEF Listed
    <3> QED
      BY <3>3, <3>4
  <2> QED
    BY <1>4, <2>4, <2>8, <2>9 DEF Fit, MgrFit, AgentsFit, agentVars
<1> QED
  BY <1>5, <1>6, <1>7 DEF SceneMgr

(* What the scene services do to them.                                      *)
LEMMA FitScenes ==
  ASSUME Types, NEW n \in Nat, NEW k \in Nat, Fit(n, k),
         \/ \E s \in Scenes : SceneService(s)
         \/ \E g \in checking : check_over(g)
  PROVE  Fit(n, k)'
<1>1. mgrq \in Seq(MgrMsgs)
  BY DEF Types
<1>2. ASSUME NEW s \in Scenes, SceneService(s)
      PROVE  Fit(n, k)'
  <2>1. PICK m : m = Head(sceneq[s])
    OBVIOUS
  <2>2. /\ sceneq[s] # <<>> /\ sceneq' = [sceneq EXCEPT ![s] = Tail(@)]
        /\ UNCHANGED <<agentVars, m_SceneProxyList>>
    BY <1>2 DEF SceneService, new_game, scene_enter_player, scene_leave_player,
                game_over_answer, Receives, mgrVars
  <2>3. m \in InScenes /\ m \in SceneMsgs /\ InScenes' \subseteq InScenes
    BY <2>1, <2>2, SceneTaken
  <2>4. AgentsFit(n, k)' /\ SceneFits(m, n, k)
    BY <2>2, <2>3 DEF Fit, AgentsFit, ScenesFit, agentVars
  <2>5. CASE new_game(s)
    <3>1. /\ m.cmd = "new_game" /\ mgrq' \in Answer(mgrq, m)
          /\ DOMAIN m_Players' = DOMAIN m_Players \cup {m.game_id}
      BY <2>1, <2>5 DEF new_game, Receives
    <3>2. Range(mgrq') = Range(mgrq) \cup {m}
      BY <1>1, <2>3, <3>1, Fields, AnswerFacts
    <3>3. MgrFit(n, k)'
      BY <2>2, <2>4, <3>1, <3>2 DEF Fit, MgrFit, MgrFits, SceneFits, Listed
    <3>4. ScenesFit(n, k)'
      BY <2>3, <2>4, <3>1 DEF Fit, ScenesFit, SceneFits
    <3> QED
      BY <2>4, <3>3, <3>4 DEF Fit
  <2>6. CASE scene_enter_player(s) \/ scene_leave_player(s) \/ game_over_answer(s)
    <3>1. DOMAIN m_Players' = DOMAIN m_Players /\ UNCHANGED mgrq
      BY <2>6 DEF scene_enter_player, scene_leave_player, game_over_answer, mgrVars
    <3> QED
      BY <2>2, <2>3, <2>4, <3>1 DEF Fit, MgrFit, ScenesFit, Listed
  <2> QED
    BY <1>2, <2>5, <2>6 DEF SceneService
<1>3. ASSUME NEW g \in checking, check_over(g)
      PROVE  Fit(n, k)'
  <2>1. g \in Nat /\ g \in 1 .. k
    BY DEF Types, Fit, ScenesFit
  <2>2. PICK m : m = AboutGame("game_over", g)
    OBVIOUS
  <2>3. m \in MgrMsgs /\ m.cmd = "game_over" /\ m.game_id = g
    BY <2>1, <2>2, Messages
  <2>4. mgrq' = Append(mgrq, m) /\ UNCHANGED <<agentVars, m_SceneProxyList, sceneVars>>
    BY <1>3, <2>2 DEF check_over
  <2>5. Range(mgrq') = Range(mgrq) \cup {m}
    BY <1>1, <2>3, <2>4, AppendFacts
  <2>6. MgrFit(n, k)'
    BY <2>1, <2>3, <2>4, <2>5 DEF Fit, MgrFit, MgrFits, Listed
  <2> QED
    BY <2>4, <2>6 DEF Fit, AgentsFit, ScenesFit, agentVars, sceneVars, InScenes
<1> QED
  BY <1>2, <1>3

FitNow == Fit(nfd, GAMEID)

LEMMA FitStep ==
  ASSUME Types, FitNow, [Next]_vars
  PROVE  FitNow'
<1>1. PICK n : n = nfd'
  OBVIOUS
<1>2. PICK k : k = GAMEID'
  OBVIOUS
<1>3. /\ nfd \in Nat /\ GAMEID \in Nat /\ n \in Nat /\ k \in Nat
      /\ nfd <= n /\ GAMEID <= k
  <2>1. nfd \in Nat /\ GAMEID \in Nat
    BY DEF Types
  <2>2. n \in {nfd, nfd + 1} /\ k \in {GAMEID, GAMEID + 1}
    BY <1>1, <1>2 DEF Next, Connect, Disconnect, Agent, start, enterwar, kick, SceneMgr,
       enter_player, new_proxy, new_game_answer, mgr_game_over, SceneService, new_game,
       scene_enter_player, scene_leave_player, game_over_answer, check_over,
       NewServiceUniqID, vars, agentVars, mgrVars
  <2> QED
    BY <2>1, <2>2
<1>4. Fit(n, k)
  BY <1>3, FitMore DEF FitNow
<1>5. nfd' <= n /\ GAMEID' <= k
  BY <1>1, <1>2, <1>3
<1>6. Fit(n, k)'
  <2>1. CASE UNCHANGED vars
    BY <1>4, <2>1 DEF vars, agentVars, mgrVars, sceneVars, Fit, AgentsFit, MgrFit,
                      ScenesFit, InScenes, Listed
  <2> QED
    BY <1>3, <1>4, <1>5, <2>1, FitAgents, FitMgr, FitScenes DEF Next
<1> QED
  BY <1>1, <1>2, <1>6 DEF FitNow

OnlineArePlayers == online \subseteq Pids

LEMMA OnlineStep ==
  ASSUME OnlineArePlayers, [Next]_vars
  PROVE  OnlineArePlayers'
<1>1. \/ UNCHANGED online
      \/ \E pid \in Pids : online' \in {online \cup {pid}, online \ {pid}}
  BY DEF Next, Connect, Disconnect, Agent, start, enterwar, kick, SceneMgr, enter_player,
     new_proxy, new_game_answer, mgr_game_over, SceneService, new_game,
     scene_enter_player, scene_leave_player, game_over_answer, check_over, vars, agentVars
<1> QED
  BY <1>1 DEF OnlineArePlayers

(* A mailbox whose messages are in T.                                       *)
LEMMA AllIn ==
  ASSUME NEW S, NEW T, NEW q \in Seq(S), \A m \in Range(q) : m \in S => m \in T
  PROVE  q \in Seq(T)
<1>1. \A i \in 1 .. Len(q) : q[i] \in T
  BY DEF Range
<1>2. Len(q) \in Nat /\ q = [i \in 1 .. Len(q) |-> q[i]]
  OBVIOUS
<1> QED
  BY <1>1, <1>2

LEMMA TypesBounded ==
  ASSUME GameInv, LoginsAsk, FitNow, PlayersInGames, OnlineArePlayers
  PROVE  TypeOK
<1>1. Types /\ AsksOnce /\ GAMEID <= Cardinality(Heard)
  BY DEF GameInv, LoginsAsk
<1>2. nfd \in Nat /\ nfd <= MaxConns /\ MaxConns \in Nat
  BY <1>1, GameLifeAssumption DEF AsksOnce, Types
<1>3. GAMEID \in Nat /\ GAMEID <= MaxConns
  <2>1. PICK S : S = 1 .. nfd
    OBVIOUS
  <2>2. IsFiniteSet(S) /\ Cardinality(S) = nfd
    BY <1>2, <2>1, FS_Interval
  <2>3. /\ Cardinality(Heard) <= nfd
        /\ Cardinality(Heard) \in Nat
    <3>1. Heard \subseteq S
      BY <2>1 DEF Heard
    <3> QED
      BY <2>2, <3>1, FS_Subset, FS_CardinalityType
  <2>4. GAMEID \in Nat
    BY <1>1 DEF Types
  <2> QED
    BY <1>1, <1>2, <2>3, <2>4
<1>4. PICK n \in Nat, k \in Nat : n = MaxConns /\ k = MaxConns /\ Fit(n, k)
  BY <1>2, <1>3, FitMore DEF FitNow
<1>5. Fds = 1 .. n /\ Games = 1 .. k
  BY <1>4 DEF Fds, Games
<1>6. ASSUME NEW pid \in Pids
      PROVE  agentq[pid] \in Seq(AgentMsg)
  <2>1. agentq[pid] \in Seq(AgentMsgs)
    BY <1>1 DEF Types
  <2>2. ASSUME NEW m \in Range(agentq[pid]), m \in AgentMsgs
        PROVE  m \in AgentMsg
    <3>1. AgentFits(m, n, k)
      BY <1>4 DEF Fit, AgentsFit
    <3> QED
      BY <1>5, <2>2, <3>1 DEF AgentFits, AgentMsgs, AgentMsg
  <2> QED
    BY <2>1, <2>2, AllIn
<1>7. ASSUME NEW pid \in Pids
      PROVE  playerlist[pid] \in {nil} \cup [m_FD : Fds, m_GameID : {nil} \cup Games]
  <2>1. /\ playerlist[pid] \in {nil} \cup [m_FD : Nat, m_GameID : {nil} \cup Nat]
        /\ PlayerFits(playerlist[pid], n, k)
    BY <1>1, <1>4 DEF Types, Fit, AgentsFit
  <2> QED
    BY <1>5, <2>1 DEF PlayerFits
<1>8. mgrq \in Seq(MgrMsg)
  <2>1. mgrq \in Seq(MgrMsgs)
    BY <1>1 DEF Types
  <2>2. ASSUME NEW m \in Range(mgrq), m \in MgrMsgs
        PROVE  m \in MgrMsg
    <3>1. MgrFits(m, n, k)
      BY <1>4 DEF Fit, MgrFit
    <3> QED
      BY <1>5, <2>2, <3>1 DEF MgrFits, MgrMsgs, MgrMsg
  <2> QED
    BY <2>1, <2>2, AllIn
<1>9. ASSUME NEW s \in Scenes
      PROVE  sceneq[s] \in Seq(SceneMsg)
  <2>1. sceneq[s] \in Seq(SceneMsgs)
    BY <1>1 DEF Types
  <2>2. ASSUME NEW m \in Range(sceneq[s]), m \in SceneMsgs
        PROVE  m \in SceneMsg
    <3>1. SceneFits(m, n, k)
      BY <1>4 DEF Fit, ScenesFit, InScenes
    <3> QED
      BY <1>5, <2>2, <3>1 DEF SceneFits, SceneMsgs, SceneMsg
  <2> QED
    BY <2>1, <2>2, AllIn
<1>10. m_SceneProxyList \in Seq([game_id : Games, playercnt : 0 .. MaxPlayers])
  <2>1. m_SceneProxyList \in Seq(Proxies) /\ MaxPlayers \in Nat
    BY <1>1, GameLifeAssumption DEF Types
  <2>2. ASSUME NEW x \in Range(m_SceneProxyList), x \in Proxies
        PROVE  x \in [game_id : Games, playercnt : 0 .. MaxPlayers]
    <3>1. PICK i \in DOMAIN m_SceneProxyList : m_SceneProxyList[i] = x
      BY DEF Range
    <3>2. x.game_id \in Games
      BY <1>4, <1>5, <3>1 DEF Fit, MgrFit, Listed
    <3>3. x.game_id \in Nat /\ x.playercnt \in Nat
      BY <2>2 DEF Proxies
    <3>4. ListedWith(x.game_id, x.playercnt)
      BY <3>1 DEF ListedWith
    <3>5. x.playercnt < MaxPlayers
      BY <3>3, <3>4 DEF GameInv, Game, OnList
    <3> QED
      BY <2>1, <2>2, <3>2, <3>3, <3>5 DEF Proxies
  <2> QED
    BY <2>1, <2>2, AllIn
<1>11. DOMAIN m_Players \subseteq Games
  BY <1>4, <1>5 DEF Fit, ScenesFit
<1>12. /\ nfd \in 0 .. MaxConns /\ GAMEID \in 0 .. MaxConns
       /\ online \subseteq Pids /\ checking \subseteq DOMAIN m_Players
       /\ \A g \in DOMAIN m_Players : m_Players[g] \subseteq Pids
  BY <1>1, <1>2, <1>3 DEF Types, OnlineArePlayers, PlayersInGames
<1>13. /\ agentq \in [Pids -> Seq(AgentMsg)] /\ sceneq \in [Scenes -> Seq(SceneMsg)]
       /\ playerlist \in [Pids -> {nil} \cup [m_FD : Fds, m_GameID : {nil} \cup Games]]
  BY <1>1, <1>6, <1>7, <1>9 DEF Types
<1> QED
  BY <1>8, <1>10, <1>11, <1>12, <1>13 DEF TypeOK

(* Every mailbox holds what its service handles, whatever order messages    *)
(* and answers come in, and SCENE_MGR gives out no more game ids than there *)
(* were logins.                                                             *)
THEOREM Typed == Spec => []TypeOK
<1>1. PlayersInv => GameInv /\ Types /\ StartedOnce
  BY DEF PlayersInv, GameInv
<1>2. Spec => []PlayersInv
  BY PlayersInit, PlayersStep, GameInvariant, PTL DEF Spec
<1>3. Spec => []LoginsAsk
  BY <1>1, <1>2, AsksInit, AsksStep, PTL DEF Spec
<1>4. Init => FitNow /\ PlayersInGames /\ OnlineArePlayers
  <2> SUFFICES ASSUME Init
               PROVE  FitNow /\ PlayersInGames /\ OnlineArePlayers
    OBVIOUS
  <2>1. /\ \A p \in Pids : Range(agentq[p]) = {} /\ playerlist[p] = nil
        /\ Range(mgrq) = {} /\ InScenes = {} /\ Listed = {}
        /\ DOMAIN m_Players = {} /\ online = {}
    BY DEF Init, InScenes, Listed, Range
  <2> QED
    BY <2>1 DEF FitNow, Fit, AgentsFit, MgrFit, ScenesFit, PlayerFits, PlayersInGames,
                OnlineArePlayers
<1>5. Spec => []FitNow
  BY <1>1, <1>2, <1>4, FitStep, PTL DEF Spec
<1>6. Spec => []PlayersInGames
  BY <1>1, <1>2, <1>4, PlayersInGamesStep, PTL DEF Spec
<1>7. Spec => []OnlineArePlayers
  BY <1>4, OnlineStep, PTL DEF Spec
<1> QED
  BY <1>1, <1>2, <1>3, <1>5, <1>6, <1>7, TypesBounded, PTL
=============================================================================
