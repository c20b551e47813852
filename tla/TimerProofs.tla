----------------------------- MODULE TimerProofs -----------------------------
(***************************************************************************)
(* The properties of TimerObject, for all handles, counts and numbers of   *)
(* timers.  A closure is told from those of other timers by the number of  *)
(* its timer, so the invariant rests on the numbering: the i-th timer      *)
(* added has number i - 1, for ever.                                       *)
(*                                                                         *)
(* Then the wheel of the node.  Its lists are not told apart: what counts  *)
(* is which ids its nodes have and how many cells they take up, and that   *)
(* what leaves it is what it has no more.  With that, timers over the      *)
(* wheel are shown to be timers of TimerObject.                            *)
(***************************************************************************)
EXTENDS Timeouts, MailboxProofs, FiniteSetTheorems

(* A closure on its way whose timer was neither removed nor replaced.       *)
Live(i) == i \in timeouts /\ i \notin stopped

Numbered ==
  /\ m_TimerNo = Len(timers)
  /\ \A i \in DOMAIN timers : timers[i].tno = i - 1

(* Each entry of m_TimerList is that of a live closure,                     *)
EntriesAreLive ==
  \A h \in DOMAIN m_TimerList :
    \E i \in timeouts : /\ i \notin stopped
                        /\ timers[i].handle = h
                        /\ m_TimerList[h].tno = i - 1

(* and each live closure has one, with what is left of its count.           *)
LiveHaveEntries ==
  \A i \in DOMAIN timers :
    Live(i) =>
      /\ InForce(i)
      /\ timers[i].count = 0 => Left(i) = 0
      /\ timers[i].count > 0 =>
           Left(i) > 0 /\ timers[i].runs + Left(i) = timers[i].count

IInv == TypeOK /\ Numbered /\ EntriesAreLive /\ LiveHaveEntries /\ RunsAsAsked

(* Facts about the history that do not depend on the step.                  *)
LEMMA TimersFacts ==
  ASSUME TypeOK
  PROVE  /\ Len(timers) \in Nat
         /\ DOMAIN timers = 1 .. Len(timers)
         /\ \A i \in DOMAIN timers :
              /\ timers[i] \in Timer
              /\ timers[i].handle \in AllHandles
              /\ timers[i].tno \in Nat
              /\ timers[i].count \in Nat
              /\ timers[i].runs \in Nat
<1>1. /\ Len(timers) \in Nat
      /\ DOMAIN timers = 1 .. Len(timers)
      /\ \A i \in DOMAIN timers : timers[i] \in Timer
  BY DEF TypeOK
<1>2. ASSUME NEW t \in Timer
      PROVE  /\ t.handle \in AllHandles
             /\ t.tno \in Nat
             /\ t.count \in Nat
             /\ t.runs \in Nat
  BY TimerAssumption DEF Timer
<1> QED
  BY <1>1, <1>2

(* Adding a timer under a handle of either kind.                            *)
LEMMA ArmStep ==
  ASSUME IInv, NEW handle \in AllHandles, NEW count \in Counts,
         Arm(handle, count),
         m_TimerDefaultHdl' \in Nat
  PROVE  IInv'
<1> DEFINE new == [handle |-> handle, tno |-> m_TimerNo, count |-> count,
                   runs |-> 0]
           n == Len(timers) + 1
<1>1. /\ Len(timers) \in Nat /\ DOMAIN timers = 1 .. Len(timers)
      /\ \A i \in DOMAIN timers : timers[i] \in Timer
  BY TimersFacts DEF IInv
<1>2. new \in Timer /\ count \in Nat
  BY TimerAssumption DEF IInv, TypeOK, Timer
<1>3. /\ timers' = Append(timers, new)
      /\ DOMAIN timers' = 1 .. n
      /\ Len(timers') = n
      /\ timers' \in Seq(Timer)
      /\ timers'[n] = new
      /\ \A i \in DOMAIN timers : timers'[i] = timers[i]
  BY <1>1, <1>2 DEF IInv, TypeOK, Arm
<1>4. /\ DOMAIN m_TimerList' = DOMAIN m_TimerList \cup {handle}
      /\ m_TimerList'[handle] = [tno |-> m_TimerNo, count |-> count]
      /\ \A h \in DOMAIN m_TimerList : h # handle => m_TimerList'[h] = m_TimerList[h]
  BY DEF Arm
<1>5. /\ timeouts' = timeouts \cup {n}
      /\ stopped' = stopped \cup {i \in timeouts : timers[i].handle = handle}
      /\ timeouts \subseteq DOMAIN timers /\ stopped \subseteq DOMAIN timers
      /\ n \notin DOMAIN timers
  BY <1>1 DEF Arm, Stopping, IInv, TypeOK
<1>6. TypeOK'
  <2>1. /\ DOMAIN m_TimerList' \subseteq AllHandles
        /\ \A h \in DOMAIN m_TimerList' :
             m_TimerList'[h] \in [tno : Nat, count : Nat]
    BY <1>2, <1>4 DEF IInv, TypeOK
  <2>2. m_TimerNo' \in Nat /\ ran' = 0
    BY DEF IInv, TypeOK, Arm
  <2>3. timeouts' \subseteq DOMAIN timers' /\ stopped' \subseteq DOMAIN timers'
    BY <1>1, <1>3, <1>5
  <2> QED
    BY <1>3, <2>1, <2>2, <2>3 DEF TypeOK
<1>7. Numbered'
  BY <1>1, <1>3 DEF IInv, Numbered, Arm
<1>8. EntriesAreLive'
  <2> SUFFICES ASSUME NEW h \in DOMAIN m_TimerList'
               PROVE  \E i \in timeouts' : /\ i \notin stopped'
                                           /\ timers'[i].handle = h
                                           /\ m_TimerList'[h].tno = i - 1
    BY DEF EntriesAreLive
  <2>1. CASE h = handle
    <3>1. n \in timeouts' /\ n \notin stopped'
      BY <1>1, <1>5
    <3> QED
      BY <1>1, <1>3, <1>4, <2>1, <3>1 DEF IInv, Numbered
  <2>2. CASE h # handle
    <3>1. PICK i \in timeouts : /\ i \notin stopped
                                /\ timers[i].handle = h
                                /\ m_TimerList[h].tno = i - 1
      BY <1>4, <2>2 DEF IInv, EntriesAreLive
    <3> QED
      BY <1>3, <1>4, <1>5, <2>2, <3>1
  <2> QED
    BY <2>1, <2>2
<1>9. LiveHaveEntries'
  <2> SUFFICES ASSUME NEW i \in DOMAIN timers', Live(i)'
               PROVE  /\ InForce(i)'
                      /\ timers'[i].count = 0 => Left(i)' = 0
                      /\ timers'[i].count > 0 =>
                           /\ Left(i)' > 0
                           /\ timers'[i].runs + Left(i)' = timers'[i].count
    BY DEF LiveHaveEntries
  <2>1. CASE i = n
    BY <1>2, <1>3, <1>4, <2>1 DEF InForce, Left
  <2>2. CASE i # n
    <3>1. /\ i \in DOMAIN timers /\ Live(i)
          /\ timers[i].handle # handle
      BY <1>5, <2>2 DEF Live
    <3> QED
      BY <1>3, <1>4, <3>1 DEF IInv, LiveHaveEntries, InForce, Left
  <2> QED
    BY <2>1, <2>2
<1>10. RunsAsAsked'
  BY <1>1, <1>2, <1>3, <1>5 DEF IInv, RunsAsAsked
<1> QED
  BY <1>6, <1>7, <1>8, <1>9, <1>10 DEF IInv

(* Removing timers: the entries under H go and their closures stop.         *)
LEMMA RemoveStep ==
  ASSUME IInv, NEW H, m_TimerList' = Without(H),
         stopped' = stopped \cup Stopping(H), ran' = 0,
         UNCHANGED <<m_TimerNo, m_TimerDefaultHdl, timeouts, timers>>
  PROVE  IInv'
<1>1. /\ DOMAIN m_TimerList' = DOMAIN m_TimerList \ H
      /\ \A h \in DOMAIN m_TimerList' : m_TimerList'[h] = m_TimerList[h]
  BY DEF Without
<1>2. stopped' = stopped \cup {i \in timeouts : timers[i].handle \in H}
  BY DEF Stopping
<1>3. TypeOK'
  BY <1>1, <1>2 DEF IInv, TypeOK
<1>4. Numbered'
  BY DEF IInv, Numbered
<1>5. EntriesAreLive'
  BY <1>1, <1>2 DEF IInv, EntriesAreLive
<1>6. LiveHaveEntries'
  BY <1>1, <1>2 DEF IInv, LiveHaveEntries, Live, InForce, Left
<1>7. RunsAsAsked'
  BY <1>2 DEF IInv, RunsAsAsked
<1> QED
  BY <1>3, <1>4, <1>5, <1>6, <1>7 DEF IInv

(* RemoveAllTimers is RemoveTimer for all handles at once.                  *)
LEMMA RemoveAllStep ==
  ASSUME IInv, RemoveAllTimers
  PROVE  IInv'
<1>1. Without(AllHandles) = <<>>
  <2>1. DOMAIN m_TimerList \ AllHandles = {}
    BY DEF IInv, TypeOK
  <2> QED
    BY <2>1 DEF Without
<1>2. Stopping(AllHandles) = timeouts
  BY TimersFacts DEF IInv, TypeOK, Stopping
<1> QED
  BY <1>1, <1>2, RemoveStep DEF RemoveAllTimers

(* A closure goes off and finds its timer outdated: it was not live.        *)
LEMMA OutdatedStep ==
  ASSUME IInv, NEW i \in timeouts, Outdated(i)
  PROVE  IInv'
<1>1. i \in DOMAIN timers /\ i \in stopped
  BY DEF IInv, TypeOK, LiveHaveEntries, Live, Outdated
<1>2. TypeOK'
  BY DEF IInv, TypeOK, Outdated
<1>3. Numbered'
  BY DEF IInv, Numbered, Outdated
<1>4. EntriesAreLive'
  BY <1>1 DEF IInv, EntriesAreLive, Outdated
<1>5. LiveHaveEntries'
  BY DEF IInv, LiveHaveEntries, Live, InForce, Left, Outdated
<1>6. RunsAsAsked'
  BY <1>1 DEF IInv, RunsAsAsked, Outdated
<1> QED
  BY <1>2, <1>3, <1>4, <1>5, <1>6 DEF IInv

(* A closure that finds its timer in force is a live one: no other closure  *)
(* has the number of the entry under its handle.                            *)
LEMMA InForceIsLive ==
  ASSUME IInv, NEW i \in timeouts, InForce(i)
  PROVE  i \in DOMAIN timers /\ Live(i)
<1>1. i \in DOMAIN timers /\ timeouts \subseteq DOMAIN timers
      /\ DOMAIN timers = 1 .. Len(timers) /\ Len(timers) \in Nat
  BY TimersFacts DEF IInv, TypeOK
<1>2. PICK j \in timeouts : /\ j \notin stopped
                            /\ m_TimerList[timers[i].handle].tno = j - 1
  BY DEF IInv, EntriesAreLive, InForce
<1>3. timers[i].tno = i - 1 /\ timers[i].tno = j - 1
  BY <1>1, <1>2 DEF IInv, Numbered, InForce
<1>4. i = j
  BY <1>1, <1>3
<1> QED
  BY <1>1, <1>2, <1>4 DEF Live

(* One more run of a timer for ever.                                        *)
LEMMA RunForeverStep ==
  ASSUME IInv, NEW i \in timeouts, RunForever(i)
  PROVE  IInv'
<1>1. i \in DOMAIN timers
  BY DEF IInv, TypeOK
<1>2. TypeOK'
  BY <1>1 DEF IInv, TypeOK, RunForever
<1>3. Numbered' /\ EntriesAreLive' /\ RunsAsAsked'
  BY DEF IInv, Numbered, EntriesAreLive, RunsAsAsked, RunForever
<1>4. LiveHaveEntries'
  BY DEF IInv, LiveHaveEntries, Live, InForce, Left, RunForever
<1> QED
  BY <1>2, <1>3, <1>4 DEF IInv

(* One more run of a counted timer, perhaps its last.                       *)
LEMMA RunCountedStep ==
  ASSUME IInv, NEW i \in timeouts, RunCounted(i)
  PROVE  IInv'
<1> DEFINE h == timers[i].handle
<1>1. /\ i \in DOMAIN timers /\ Live(i) /\ InForce(i)
      /\ h \in DOMAIN m_TimerList
      /\ m_TimerList[h].tno = i - 1
  BY InForceIsLive DEF RunCounted, InForce, IInv, Numbered
<1>2. /\ Len(timers) \in Nat /\ DOMAIN timers = 1 .. Len(timers)
      /\ \A j \in DOMAIN timers :
           timers[j] \in Timer /\ timers[j].count \in Nat /\ timers[j].runs \in Nat
  BY TimersFacts DEF IInv
<1>3. /\ Left(i) \in Nat /\ Left(i) > 0
      /\ timers[i].count > 0
      /\ timers[i].runs + Left(i) = timers[i].count
  BY <1>1, <1>2 DEF IInv, LiveHaveEntries, RunCounted, TypeOK, Left
<1>4. /\ DOMAIN timers' = DOMAIN timers /\ Len(timers') = Len(timers)
      /\ timers' \in Seq(Timer)
      /\ timers'[i] = [timers[i] EXCEPT !.runs = @ + 1]
      /\ \A j \in DOMAIN timers : j # i => timers'[j] = timers[j]
  <2>1. timers' = [timers EXCEPT ![i] = [timers[i] EXCEPT !.runs = @ + 1]]
    BY DEF RunCounted
  <2>2. [timers[i] EXCEPT !.runs = @ + 1] \in Timer
    BY <1>1, <1>2 DEF Timer
  <2> QED
    BY <1>1, <1>2, <2>1, <2>2 DEF IInv, TypeOK
<1>5. /\ timers'[i].runs = timers[i].runs + 1
      /\ \A j \in DOMAIN timers :
           /\ timers'[j].handle = timers[j].handle
           /\ timers'[j].tno = timers[j].tno
           /\ timers'[j].count = timers[j].count
           /\ j # i => timers'[j].runs = timers[j].runs
  BY <1>1, <1>2, <1>4 DEF Timer
<1>6. stopped' = stopped /\ m_TimerNo' = m_TimerNo /\ ran' = i
      /\ m_TimerDefaultHdl' = m_TimerDefaultHdl
  BY DEF RunCounted
<1>7. Numbered'
  BY <1>4, <1>5, <1>6 DEF IInv, Numbered
<1>8. \A j \in DOMAIN timers : Live(j) /\ j # i => timers[j].handle # h
  BY <1>1, <1>2 DEF IInv, LiveHaveEntries, InForce, Numbered
<1>9. CASE Left(i) > 1
  <2>1. /\ timeouts' = timeouts
        /\ DOMAIN m_TimerList' = DOMAIN m_TimerList
        /\ m_TimerList'[h] = [m_TimerList[h] EXCEPT !.count = @ - 1]
        /\ \A k \in DOMAIN m_TimerList : k # h => m_TimerList'[k] = m_TimerList[k]
    BY <1>1, <1>9 DEF RunCounted
  <2>2. /\ m_TimerList[h] \in [tno : Nat, count : Nat]
        /\ m_TimerList[h].count = Left(i)
    BY <1>1 DEF IInv, TypeOK, Left
  <2>3. /\ m_TimerList'[h] \in [tno : Nat, count : Nat]
        /\ m_TimerList'[h].tno = m_TimerList[h].tno
        /\ m_TimerList'[h].count = Left(i) - 1
    BY <1>3, <1>9, <2>1, <2>2
  <2>4. TypeOK'
    BY <1>1, <1>4, <1>6, <2>1, <2>3 DEF IInv, TypeOK
  <2>5. EntriesAreLive'
    <3> SUFFICES ASSUME NEW k \in DOMAIN m_TimerList
                 PROVE  \E j \in timeouts : /\ j \notin stopped
                                            /\ timers'[j].handle = k
                                            /\ m_TimerList'[k].tno = j - 1
      BY <1>6, <2>1 DEF EntriesAreLive
    <3>1. PICK j \in timeouts : /\ j \notin stopped
                                /\ timers[j].handle = k
                                /\ m_TimerList[k].tno = j - 1
      BY DEF IInv, EntriesAreLive
    <3>2. m_TimerList'[k].tno = m_TimerList[k].tno /\ j \in DOMAIN timers
      BY <2>1, <2>3 DEF IInv, TypeOK
    <3> QED
      BY <1>5, <3>1, <3>2
  <2>6. LiveHaveEntries'
    <3> SUFFICES ASSUME NEW j \in DOMAIN timers, Live(j)
                 PROVE  /\ InForce(j)'
                        /\ timers'[j].count = 0 => Left(j)' = 0
                        /\ timers'[j].count > 0 =>
                             /\ Left(j)' > 0
                             /\ timers'[j].runs + Left(j)' = timers'[j].count
      BY <1>4, <1>6, <2>1 DEF LiveHaveEntries, Live
    <3>1. CASE j = i
      <4>1. InForce(i)' /\ Left(i)' = Left(i) - 1
        BY <1>1, <1>5, <2>1, <2>3 DEF InForce, Left
      <4>2. /\ Left(i)' > 0
            /\ timers'[i].count > 0
            /\ timers'[i].runs + Left(i)' = timers'[i].count
        <5>1. /\ timers[i].runs \in Nat
              /\ timers'[i].runs = timers[i].runs + 1
              /\ timers'[i].count = timers[i].count
          BY <1>1, <1>2, <1>5
        <5>2. Left(i) - 1 > 0
          BY <1>3, <1>9
        <5>3. timers[i].runs + 1 + (Left(i) - 1) = timers[i].count
          BY <1>3, <5>1
        <5> QED
          BY <1>3, <4>1, <5>1, <5>2, <5>3
      <4>3. timers'[i].count # 0
        BY <1>1, <1>2, <1>3, <1>5
      <4> QED
        BY <3>1, <4>1, <4>2, <4>3 DEF InForce, Left
    <3>2. CASE j # i
      BY <1>5, <1>8, <2>1, <3>2 DEF IInv, LiveHaveEntries, InForce, Left
    <3> QED
      BY <3>1, <3>2
  <2>7. RunsAsAsked'
    <3>1. timers'[i].runs <= timers'[i].count
      BY <1>1, <1>2, <1>3, <1>5
    <3> QED
      BY <1>1, <1>4, <1>5, <1>6, <2>1, <3>1 DEF IInv, RunsAsAsked, Live
  <2> QED
    BY <1>7, <2>4, <2>5, <2>6, <2>7 DEF IInv
<1>10. CASE ~(Left(i) > 1)
  <2>1. /\ timeouts' = timeouts \ {i}
        /\ DOMAIN m_TimerList' = DOMAIN m_TimerList \ {h}
        /\ \A k \in DOMAIN m_TimerList' : m_TimerList'[k] = m_TimerList[k]
    BY <1>10 DEF RunCounted, Without
  <2>2. Left(i) = 1
    BY <1>3, <1>10
  <2>3. TypeOK'
    BY <1>1, <1>4, <1>6, <2>1 DEF IInv, TypeOK
  <2>4. EntriesAreLive'
    <3> SUFFICES ASSUME NEW k \in DOMAIN m_TimerList, k # h
                 PROVE  \E j \in timeouts \ {i} : /\ j \notin stopped
                                                  /\ timers'[j].handle = k
                                                  /\ m_TimerList[k].tno = j - 1
      BY <1>6, <2>1 DEF EntriesAreLive
    <3>1. PICK j \in timeouts : /\ j \notin stopped
                                /\ timers[j].handle = k
                                /\ m_TimerList[k].tno = j - 1
      BY DEF IInv, EntriesAreLive
    <3> QED
      BY <1>5, <3>1 DEF IInv, TypeOK
  <2>5. LiveHaveEntries'
    BY <1>4, <1>5, <1>6, <1>8, <2>1
       DEF IInv, LiveHaveEntries, Live, InForce, Left
  <2>6. RunsAsAsked'
    <3>1. timers'[i].runs = timers'[i].count /\ timers'[i].count \in Nat
      BY <1>1, <1>2, <1>3, <1>5, <2>2
    <3>2. timers'[i].runs <= timers'[i].count
      BY <3>1
    <3> QED
      BY <1>1, <1>4, <1>5, <1>6, <2>1, <3>1, <3>2 DEF IInv, RunsAsAsked, Live
  <2> QED
    BY <1>7, <2>3, <2>4, <2>5, <2>6 DEF IInv
<1> QED
  BY <1>9, <1>10

LEMMA InitInv ==
  ASSUME Init
  PROVE  IInv
BY DEF Init, IInv, TypeOK, Numbered, EntriesAreLive, LiveHaveEntries,
       RunsAsAsked, Timer

LEMMA StepInv ==
  ASSUME IInv, [Next]_vars
  PROVE  IInv'
<1>1. ASSUME NEW handle \in Handles, NEW count \in Counts,
             AddTimer(handle, count)
      PROVE  IInv'
  BY <1>1, ArmStep DEF AddTimer, IInv, TypeOK, AllHandles
<1>2. ASSUME NEW count \in Counts, AddTimerNoHandle(count)
      PROVE  IInv'
  <2>1. m_TimerDefaultHdl \in AllHandles /\ m_TimerDefaultHdl' \in Nat
    BY <1>2 DEF AddTimerNoHandle, IInv, TypeOK, AllHandles
  <2> QED
    BY <1>2, <2>1, ArmStep DEF AddTimerNoHandle
<1>3. ASSUME NEW handle \in DOMAIN m_TimerList, RemoveTimer(handle)
      PROVE  IInv'
  BY <1>3, RemoveStep DEF RemoveTimer
<1>4. CASE RemoveAllTimers
  BY <1>4, RemoveAllStep
<1>5. ASSUME NEW i \in timeouts, f(i)
      PROVE  IInv'
  BY <1>5, OutdatedStep, RunForeverStep, RunCountedStep DEF f
<1>6. CASE UNCHANGED vars
  BY <1>6 DEF vars, IInv, TypeOK, Numbered, EntriesAreLive, LiveHaveEntries,
              RunsAsAsked, Live, InForce, Left
<1> QED
  BY <1>1, <1>2, <1>3, <1>4, <1>5, <1>6 DEF Next

(* The invariant holds in every behaviour of the timers.                    *)
THEOREM Invariance == Spec => []IInv
<1>1. Init => IInv
  BY InitInv
<1>2. IInv /\ [Next]_vars => IInv'
  BY StepInv
<1> QED
  BY <1>1, <1>2, PTL DEF Spec

(* Whatever timers an object adds, replaces and removes, each one in force  *)
(* has exactly one closure on its way.                                      *)
THEOREM OneClosure == Spec => []OneClosurePerTimer
<1>1. IInv => OneClosurePerTimer
  <2> SUFFICES ASSUME IInv, NEW h \in DOMAIN m_TimerList
               PROVE  /\ \E i \in timeouts : timers[i].handle = h /\ InForce(i)
                      /\ \A i, j \in timeouts :
                           /\ timers[i].handle = h /\ timers[j].handle = h
                           /\ InForce(i) /\ InForce(j)
                           => i = j
    BY DEF OneClosurePerTimer
  <2>1. /\ timeouts \subseteq DOMAIN timers
        /\ DOMAIN timers = 1 .. Len(timers) /\ Len(timers) \in Nat
    BY TimersFacts DEF IInv, TypeOK
  <2>2. \E i \in timeouts : timers[i].handle = h /\ InForce(i)
    BY <2>1 DEF IInv, EntriesAreLive, LiveHaveEntries, Live
  <2>3. \A i, j \in timeouts :
          /\ timers[i].handle = h /\ timers[j].handle = h
          /\ InForce(i) /\ InForce(j)
          => i = j
    BY <2>1 DEF IInv, Numbered, InForce
  <2> QED
    BY <2>2, <2>3
<1> QED
  BY <1>1, Invariance, PTL

(* A counted timer is run as often as was asked, neither more nor less.     *)
THEOREM CountsAreKept == Spec => []RunsAsAsked
<1>1. IInv => RunsAsAsked
  BY DEF IInv
<1> QED
  BY <1>1, Invariance, PTL

(* No step runs a timer that was removed or replaced before it.             *)
THEOREM StoppedRest == Spec => StoppedTimersRest
<1>1. IInv /\ [Next]_vars => [ran' \notin stopped]_vars
  <2> SUFFICES ASSUME IInv, Next
               PROVE  ran' \notin stopped
    BY DEF vars
  <2>1. 0 \notin stopped
    BY TimersFacts DEF IInv, TypeOK
  <2>2. ASSUME NEW i \in timeouts, f(i)
        PROVE  ran' \notin stopped
    <3>1. CASE Outdated(i)
      BY <2>1, <3>1 DEF Outdated
    <3>2. CASE InForce(i) /\ ran' = i
      BY <3>2, InForceIsLive DEF Live
    <3> QED
      BY <2>2, <3>1, <3>2 DEF f, RunForever, RunCounted
  <2> QED
    BY <2>1, <2>2 DEF Next, AddTimer, AddTimerNoHandle, Arm, RemoveTimer,
                      RemoveAllTimers
<1> QED
  BY <1>1, Invariance, PTL DEF Spec, StoppedTimersRest

-----------------------------------------------------------------------------
(* Over the wheel.  Above any closure may go off at any time; the wheel and *)
(* the queue of the service say which does.  What they have to provide is   *)
(* that a closure that is called is one that was asked for and not called   *)
(* yet, which ClosuresInOnePlace says.  Its invariant counts: the wheel     *)
(* with its nodes, their ids and its places is followed through each        *)
(* operation, and as there are no more places than closures, the one that   *)
(* is called has no second place.                                           *)

(* The wheel is well formed: its nodes are in N, it has c places for them,  *)
(* and I are the ids of the nodes.                                          *)
Holding(T, N, I, c) ==
  /\ T = [time |-> T.time, list |-> T.list]
  /\ T.list \in [DOMAIN T.list -> Seq(N)]
  /\ IsFiniteSet(Cells(T)) /\ Cardinality(Cells(T)) = c
  /\ {n.id : n \in Nodes(T)} = I

(* The ids of the nodes of a list.                                          *)
IdsOf(s) == {s[k].id : k \in 1 .. Len(s)}

LEMMA CellMember ==
  ASSUME NEW T, NEW x
  PROVE  x \in Cells(T) <=> \E slot \in DOMAIN T.list : \E k \in DOMAIN T.list[slot] :
                              x = <<slot, k>>
BY DEF Cells

LEMMA IdMember ==
  ASSUME NEW T, NEW N, T.list \in [DOMAIN T.list -> Seq(N)], NEW i
  PROVE  i \in {n.id : n \in Nodes(T)} <=>
           \E slot \in DOMAIN T.list : i \in IdsOf(T.list[slot])
<1>1. \A slot \in DOMAIN T.list :
        /\ DOMAIN T.list[slot] = 1 .. Len(T.list[slot])
  OBVIOUS
<1> QED
  BY <1>1 DEF Nodes, ToSet, IdsOf

LEMMA ListAtTyped ==
  ASSUME NEW T, NEW N, T.list \in [DOMAIN T.list -> Seq(N)], NEW slot
  PROVE  ListAt(T, slot) \in Seq(N)
BY DEF ListAt

LEMMA LinkHolds ==
  ASSUME NEW N, NEW I, NEW c \in Nat, NEW T, Holding(T, N, I, c), NEW slot, NEW n \in N
  PROVE  Holding(link(T, slot, n), N, I \cup {n.id}, c + 1)
<1> DEFINE L == T.list
           u == ListAt(T, slot)
           M == [s \in DOMAIN L \cup {slot} |->
                   IF s = slot THEN Append(ListAt(T, s), n) ELSE L[s]]
           S == link(T, slot, n)
<1>1. /\ S = [time |-> T.time, list |-> M]
      /\ S.list = M /\ S = [time |-> S.time, list |-> S.list]
  <2>1. S = [T EXCEPT !.list = M]
    BY DEF link
  <2>2. T = [time |-> T.time, list |-> T.list]
    BY DEF Holding
  <2> HIDE DEF S, M
  <2> QED
    BY <2>1, <2>2
<1>2. /\ L \in [DOMAIN L -> Seq(N)] /\ u \in Seq(N)
      /\ slot \in DOMAIN L => L[slot] = u
      /\ slot \notin DOMAIN L => u = <<>>
  BY ListAtTyped DEF Holding, ListAt
<1>3. /\ DOMAIN M = DOMAIN L \cup {slot}
      /\ M[slot] = Append(u, n)
      /\ \A s \in DOMAIN L : s # slot => M[s] = L[s]
  OBVIOUS
<1>4. /\ Append(u, n) \in Seq(N)
      /\ DOMAIN Append(u, n) = 1 .. Len(u) + 1
      /\ DOMAIN u = 1 .. Len(u) /\ Len(u) \in Nat
  BY <1>2
<1>5. M \in [DOMAIN M -> Seq(N)]
  BY <1>2, <1>3, <1>4
<1> HIDE DEF L, u, M, S
<1>6. <<slot, Len(u) + 1>> \notin Cells(T)
  <2> SUFFICES ASSUME NEW s \in DOMAIN T.list, NEW k \in DOMAIN T.list[s],
                      <<slot, Len(u) + 1>> = <<s, k>>
               PROVE  FALSE
    BY CellMember
  <2>1. s = slot /\ k = Len(u) + 1
    OBVIOUS
  <2>2. T.list[s] = u
    BY <1>2, <2>1 DEF L
  <2> QED
    BY <1>4, <2>1, <2>2
<1>7. Cells(S) = Cells(T) \cup {<<slot, Len(u) + 1>>}
  <2>1. ASSUME NEW x, x \in Cells(S)
        PROVE  x \in Cells(T) \/ x = <<slot, Len(u) + 1>>
    <3>1. PICK s \in DOMAIN M : \E k \in DOMAIN M[s] : x = <<s, k>>
      BY <1>1, <2>1, CellMember
    <3>2. PICK k \in DOMAIN M[s] : x = <<s, k>>
      BY <3>1
    <3>3. CASE s = slot
      <4>1. k \in 1 .. Len(u) + 1
        BY <1>3, <1>4, <3>3
      <4>2. CASE k = Len(u) + 1
        BY <3>2, <3>3, <4>2
      <4>3. CASE k # Len(u) + 1
        <5>1. k \in 1 .. Len(u)
          BY <1>4, <4>1, <4>3
        <5>2. slot \in DOMAIN L
          BY <1>2, <5>1
        <5> QED
          BY <1>2, <1>4, <3>2, <3>3, <5>1, <5>2, CellMember DEF L
      <4> QED
        BY <4>2, <4>3
    <3>4. CASE s # slot
      BY <1>3, <3>2, <3>4, CellMember DEF L
    <3> QED
      BY <3>3, <3>4
  <2>2. ASSUME NEW x, x \in Cells(T)
        PROVE  x \in Cells(S)
    <3>1. PICK s \in DOMAIN L : \E k \in DOMAIN L[s] : x = <<s, k>>
      BY <2>2, CellMember DEF L
    <3>2. PICK k \in DOMAIN L[s] : x = <<s, k>>
      BY <3>1
    <3>3. s \in DOMAIN M /\ k \in DOMAIN M[s]
      <4>1. CASE s = slot
        BY <1>2, <1>3, <1>4, <3>2, <4>1
      <4>2. CASE s # slot
        BY <1>3, <3>2, <4>2
      <4> QED
        BY <4>1, <4>2
    <3> QED
      BY <1>1, <3>2, <3>3, CellMember
  <2>3. <<slot, Len(u) + 1>> \in Cells(S)
    <3>1. slot \in DOMAIN M /\ Len(u) + 1 \in DOMAIN M[slot]
      BY <1>3, <1>4
    <3> QED
      BY <1>1, <3>1, CellMember
  <2> QED
    BY <2>1, <2>2, <2>3
<1>8. IsFiniteSet(Cells(S)) /\ Cardinality(Cells(S)) = c + 1
  <2>1. IsFiniteSet(Cells(T)) /\ Cardinality(Cells(T)) = c
    BY DEF Holding
  <2>2. /\ IsFiniteSet(Cells(T) \cup {<<slot, Len(u) + 1>>})
        /\ Cardinality(Cells(T) \cup {<<slot, Len(u) + 1>>}) = c + 1
    BY <1>6, <2>1, FS_AddElement
  <2> QED
    BY <1>7, <2>2
<1>9. {m.id : m \in Nodes(S)} = I \cup {n.id}
  <2>1. /\ IdsOf(Append(u, n)) = IdsOf(u) \cup {n.id}
    <3>1. /\ Len(Append(u, n)) = Len(u) + 1
          /\ Append(u, n)[Len(u) + 1] = n
          /\ \A k \in 1 .. Len(u) : Append(u, n)[k] = u[k]
      BY <1>2
    <3>2. 1 .. Len(u) + 1 = 1 .. Len(u) \cup {Len(u) + 1}
      BY <1>4
    <3> QED
      BY <3>1, <3>2 DEF IdsOf
  <2>2. \A i : i \in I <=> \E s \in DOMAIN L : i \in IdsOf(L[s])
    BY <1>2, IdMember DEF Holding, L
  <2>3. \A i : i \in {m.id : m \in Nodes(S)} <=> \E s \in DOMAIN M : i \in IdsOf(M[s])
    BY <1>1, <1>5, IdMember
  <2>4. slot \notin DOMAIN L => IdsOf(u) = {}
    BY <1>2 DEF IdsOf
  <2>5. \A i : i \in I \cup {n.id} <=> \E s \in DOMAIN M : i \in IdsOf(M[s])
    <3>1. \A i : (\E s \in DOMAIN M : i \in IdsOf(M[s])) <=>
                   \/ i \in IdsOf(u) \cup {n.id}
                   \/ \E s \in DOMAIN L : s # slot /\ i \in IdsOf(L[s])
      BY <1>3, <2>1
    <3> QED
      BY <1>2, <2>2, <2>4, <3>1
  <2> QED
    BY <2>3, <2>5
<1> QED
  BY <1>1, <1>5, <1>8, <1>9 DEF Holding, S

LEMMA AddHolds ==
  ASSUME NEW N, NEW I, NEW c \in Nat, NEW T, Holding(T, N, I, c), NEW n \in N
  PROVE  Holding(add_node(T, n), N, I \cup {n.id}, c + 1)
<1>1. \E slot : add_node(T, n) = link(T, slot, n)
  BY DEF add_node
<1> QED
  BY <1>1, LinkHolds

(* The places of one list.                                                  *)
LEMMA CellsOfOne ==
  ASSUME NEW slot, NEW k \in Nat
  PROVE  IsFiniteSet({slot} \X (1 .. k)) /\ Cardinality({slot} \X (1 .. k)) = k
<1>1. IsFiniteSet({slot}) /\ Cardinality({slot}) = 1
  BY FS_Singleton, Zenon
<1>2. IsFiniteSet(1 .. k) /\ Cardinality(1 .. k) = k
  <2>1. /\ IsFiniteSet(1 .. k)
        /\ Cardinality(1 .. k) = IF 1 > k THEN 0 ELSE k - 1 + 1
    <3>1. 1 \in Int /\ k \in Int
      OBVIOUS
    <3> QED
      BY <3>1, FS_Interval
  <2> QED
    BY <2>1
<1>3. PICK A, B : A = {slot} /\ B = 1 .. k
  OBVIOUS
<1>4. /\ IsFiniteSet(A \X B)
      /\ Cardinality(A \X B) = 1 * k
  <2>1. IsFiniteSet(A) /\ IsFiniteSet(B) /\ Cardinality(A) = 1 /\ Cardinality(B) = k
    BY <1>1, <1>2, <1>3
  <2>2. IsFiniteSet(A \X B) /\ Cardinality(A \X B) = Cardinality(A) * Cardinality(B)
    BY <2>1, FS_Product, Zenon
  <2> QED
    BY <2>1, <2>2, Zenon
<1>5. 1 * k = k
  OBVIOUS
<1> QED
  BY <1>3, <1>4, <1>5, Zenon

(* What was held with these is held by S and in the list u.                 *)
Parted(S, u, N, I, c) ==
  /\ u \in Seq(N)
  /\ \E J : \E d \in Nat : /\ Holding(S, N, J, d)
                          /\ J \cup IdsOf(u) = I
                          /\ d + Len(u) = c

LEMMA ClearHolds ==
  ASSUME NEW N, NEW I, NEW c \in Nat, NEW T, Holding(T, N, I, c), NEW slot
  PROVE  Parted(link_clear(T, slot), ListAt(T, slot), N, I, c)
<1> DEFINE L == T.list
           u == ListAt(T, slot)
           M == [s \in DOMAIN L \ {slot} |-> L[s]]
           S == link_clear(T, slot)
           P == {slot} \X (1 .. Len(u))
<1>1. /\ S = [time |-> T.time, list |-> M]
      /\ S.list = M /\ S = [time |-> S.time, list |-> S.list]
  <2>1. S = [T EXCEPT !.list = M]
    BY DEF link_clear
  <2>2. T = [time |-> T.time, list |-> T.list]
    BY DEF Holding
  <2> HIDE DEF S, M
  <2> QED
    BY <2>1, <2>2
<1>2. /\ L \in [DOMAIN L -> Seq(N)] /\ u \in Seq(N)
      /\ slot \in DOMAIN L => L[slot] = u
      /\ slot \notin DOMAIN L => u = <<>>
  BY ListAtTyped DEF Holding, ListAt
<1>3. /\ DOMAIN M = DOMAIN L \ {slot}
      /\ \A s \in DOMAIN L : s # slot => M[s] = L[s]
  OBVIOUS
<1>4. DOMAIN u = 1 .. Len(u) /\ Len(u) \in Nat
  BY <1>2
<1>5. M \in [DOMAIN M -> Seq(N)]
  BY <1>2, <1>3
<1> HIDE DEF L, u, M, S
<1>6. /\ Cells(T) = Cells(S) \cup P
      /\ Cells(S) \cap P = {}
  <2>1. \A x : x \in P <=> slot \in DOMAIN L /\ \E k \in DOMAIN L[slot] : x = <<slot, k>>
    BY <1>2, <1>4
  <2>2. \A x : x \in Cells(S) <=>
               \E s \in DOMAIN L \ {slot} : \E k \in DOMAIN L[s] : x = <<s, k>>
    BY <1>1, <1>3, CellMember
  <2>3. \A x : x \in Cells(T) <=> \E s \in DOMAIN L : \E k \in DOMAIN L[s] : x = <<s, k>>
    BY CellMember DEF L
  <2>4. Cells(T) = Cells(S) \cup P
    BY <2>1, <2>2, <2>3
  <2>5. Cells(S) \cap P = {}
    BY <2>1, <2>2
  <2> QED
    BY <2>4, <2>5
<1>7. IsFiniteSet(P) /\ Cardinality(P) = Len(u)
  BY <1>4, CellsOfOne
<1> HIDE DEF P
<1>8. /\ IsFiniteSet(Cells(S)) /\ Cardinality(Cells(S)) = c - Len(u)
      /\ c - Len(u) \in Nat
  <2>1. IsFiniteSet(Cells(T)) /\ Cardinality(Cells(T)) = c
    BY DEF Holding
  <2>2. IsFiniteSet(Cells(S))
    <3>1. Cells(S) \in SUBSET Cells(T)
      BY <1>6
    <3> QED
      BY <2>1, <3>1, FS_Subset
  <2>3. /\ Cardinality(Cells(S) \cup P)
             = Cardinality(Cells(S)) + Cardinality(P) - Cardinality(Cells(S) \cap P)
    BY <1>7, <2>2, FS_Union
  <2>4. Cardinality(Cells(S) \cap P) = 0
    BY <1>6, FS_EmptySet
  <2>5. Cardinality(Cells(S)) \in Nat
    BY <2>2, FS_CardinalityType
  <2>6. c = Cardinality(Cells(S)) + Len(u)
    <3>1. Cardinality(Cells(S) \cup P) = c
      BY <1>6, <2>1
    <3> QED
      BY <1>4, <1>7, <2>3, <2>4, <2>5, <3>1
  <2> QED
    BY <1>4, <2>2, <2>5, <2>6
<1>9. {m.id : m \in Nodes(S)} \cup IdsOf(u) = I
  <2>1. \A i : i \in I <=> \E s \in DOMAIN L : i \in IdsOf(L[s])
    BY <1>2, IdMember DEF Holding, L
  <2>2. \A i : i \in {m.id : m \in Nodes(S)} <=> \E s \in DOMAIN M : i \in IdsOf(M[s])
    BY <1>1, <1>5, IdMember
  <2>3. slot \notin DOMAIN L => IdsOf(u) = {}
    BY <1>2 DEF IdsOf
  <2>4. \A i : (\E s \in DOMAIN L : i \in IdsOf(L[s])) <=>
                 (\E s \in DOMAIN M : i \in IdsOf(M[s])) \/ i \in IdsOf(u)
    BY <1>2, <1>3, <2>3
  <2> QED
    BY <2>1, <2>2, <2>4
<1>10. \E J : \E d \in Nat : /\ Holding(S, N, J, d)
                            /\ J \cup IdsOf(u) = I
                            /\ d + Len(u) = c
  <2>1. Holding(S, N, {m.id : m \in Nodes(S)}, c - Len(u))
    BY <1>1, <1>5, <1>8 DEF Holding
  <2>2. (c - Len(u)) + Len(u) = c
    BY <1>4
  <2> QED
    BY <1>8, <1>9, <2>1, <2>2
<1> QED
  BY <1>2, <1>10 DEF Parted, u, S

(* What the fold over the nodes of s has added, for each part of the list.  *)
Adds(g, T, s, n) ==
  g = [u \in SUBSET (1 .. n) |-> IF u = {} THEN T
                                 ELSE add_node(g[u \ {Max(u)}], s[Max(u)])]

LEMMA AddsExist ==
  ASSUME NEW T, NEW s, NEW len \in Nat
  PROVE  \E g : Adds(g, T, s, len)
<1> DEFINE P == {n \in Nat : \E g : Adds(g, T, s, n)}
<1>1. 0 \in P
  <2> DEFINE g == [u \in SUBSET (1 .. 0) |-> T]
  <2>1. 1 .. 0 = {}
    OBVIOUS
  <2>2. \A u \in SUBSET (1 .. 0) : u = {}
    BY <2>1
  <2>3. g = [u \in SUBSET (1 .. 0) |->
               IF u = {} THEN T ELSE add_node(g[u \ {Max(u)}], s[Max(u)])]
    BY <2>2
  <2>4. Adds(g, T, s, 0)
    BY <2>3 DEF Adds
  <2> QED
    BY <2>4
<1>2. ASSUME NEW n \in Nat, n \in P
      PROVE  n + 1 \in P
  <2>1. PICK g : Adds(g, T, s, n)
    BY <1>2
  <2> DEFINE h == [u \in SUBSET (1 .. n + 1) |->
                     IF n + 1 \in u THEN add_node(g[u \ {n + 1}], s[n + 1])
                     ELSE g[u]]
             F(u) == IF u = {} THEN T ELSE add_node(h[u \ {Max(u)}], s[Max(u)])
  <2>2. ASSUME NEW u \in SUBSET (1 .. n + 1)
        PROVE  h[u] = F(u)
    <3>1. CASE n + 1 \in u
      <4>1. Max(u) = n + 1
        <5>1. n + 1 \in u /\ \A y \in u : y \in Int /\ n + 1 >= y
          BY <3>1
        <5>2. \A x \in u : (\A y \in u : x >= y) => x = n + 1
          BY <5>1
        <5> QED
          BY <5>1, <5>2 DEF Max
      <4>2. u \ {n + 1} \in SUBSET (1 .. n + 1) /\ n + 1 \notin u \ {n + 1}
        OBVIOUS
      <4>3. h[u \ {n + 1}] = g[u \ {n + 1}]
        BY <4>2
      <4>4. h[u] = add_node(g[u \ {n + 1}], s[n + 1])
        BY <3>1
      <4> QED
        BY <3>1, <4>1, <4>3, <4>4
    <3>2. CASE n + 1 \notin u
      <4>1. u \in SUBSET (1 .. n)
        BY <3>2
      <4>2. h[u] = g[u]
        BY <3>2
      <4>3. g[u] = IF u = {} THEN T ELSE add_node(g[u \ {Max(u)}], s[Max(u)])
        <5>1. PICK e : e = g
          OBVIOUS
        <5>2. g = [v \in SUBSET (1 .. n) |->
                     IF v = {} THEN T ELSE add_node(e[v \ {Max(v)}], s[Max(v)])]
          BY <2>1, <5>1 DEF Adds
        <5> HIDE DEF h
        <5> QED
          BY <4>1, <5>1, <5>2
      <4>4. h[u \ {Max(u)}] = g[u \ {Max(u)}]
        <5>1. u \ {Max(u)} \in SUBSET (1 .. n + 1) /\ n + 1 \notin u \ {Max(u)}
          BY <3>2
        <5> QED
          BY <5>1
      <4> QED
        BY <4>2, <4>3, <4>4
    <3> QED
      BY <3>1, <3>2
  <2>3. h = [u \in SUBSET (1 .. n + 1) |-> F(u)]
    <3>1. h = [u \in SUBSET (1 .. n + 1) |-> h[u]]
      OBVIOUS
    <3> HIDE DEF h, F
    <3> QED
      BY <2>2, <3>1
  <2>4. Adds(h, T, s, n + 1)
    <3> HIDE DEF h
    <3> QED
      BY <2>3 DEF Adds
  <2> QED
    BY <2>4
<1>3. len \in P
  <2> HIDE DEF P
  <2> QED
    BY <1>1, <1>2, AllNumbers
<1> QED
  BY <1>3

(* The fold is what the last of them has.                                   *)
LEMMA FoldIs ==
  ASSUME NEW T, NEW A, NEW s \in Seq(A)
  PROVE  \E g : /\ Adds(g, T, s, Len(s))
               /\ FoldLeft(add_node, T, s) = g[1 .. Len(s)]
<1> DEFINE F == CHOOSE g : g = [u \in SUBSET (1 .. Len(s)) |-> IF u = {} THEN T
                                 ELSE add_node(g[u \ {Max(u)}], s[Max(u)])]
<1>1. FoldLeft(add_node, T, s) = F[1 .. Len(s)]
  <2>1. DOMAIN s = 1 .. Len(s)
    OBVIOUS
  <2> QED
    BY <2>1 DEF FoldLeft, MapThenFoldSet
<1>2. Adds(F, T, s, Len(s))
  <2>1. Len(s) \in Nat
    OBVIOUS
  <2>2. \E g : g = [u \in SUBSET (1 .. Len(s)) |-> IF u = {} THEN T
                      ELSE add_node(g[u \ {Max(u)}], s[Max(u)])]
    <3>1. PICK g : Adds(g, T, s, Len(s))
      BY <2>1, AddsExist
    <3>2. g = [u \in SUBSET (1 .. Len(s)) |-> IF u = {} THEN T
                 ELSE add_node(g[u \ {Max(u)}], s[Max(u)])]
      BY <3>1, Zenon DEF Adds
    <3> QED
      BY <3>2, Zenon
  <2> QED
    BY <2>2, Zenon DEF Adds
<1> QED
  BY <1>1, <1>2

LEMMA FoldHolds ==
  ASSUME NEW N, NEW I, NEW c \in Nat, NEW T, Holding(T, N, I, c), NEW s \in Seq(N)
  PROVE  Holding(FoldLeft(add_node, T, s), N, I \cup IdsOf(s), c + Len(s))
<1>1. PICK g : /\ Adds(g, T, s, Len(s))
               /\ FoldLeft(add_node, T, s) = g[1 .. Len(s)]
  BY FoldIs
<1> DEFINE B(n) == {s[k].id : k \in 1 .. n}
           P == {n \in Nat : n <= Len(s) => Holding(g[1 .. n], N, I \cup B(n), c + n)}
<1>2. \A u \in SUBSET (1 .. Len(s)) :
        g[u] = IF u = {} THEN T ELSE add_node(g[u \ {Max(u)}], s[Max(u)])
  <2>1. PICK e : e = g
    OBVIOUS
  <2>2. g = [v \in SUBSET (1 .. Len(s)) |->
               IF v = {} THEN T ELSE add_node(e[v \ {Max(v)}], s[Max(v)])]
    BY <1>1, <2>1 DEF Adds
  <2> QED
    BY <2>1, <2>2
<1>3. 0 \in P
  <2>1. 1 .. 0 = {} /\ B(0) = {} /\ c + 0 = c
    OBVIOUS
  <2>2. g[1 .. 0] = T
    BY <1>2, <2>1
  <2>3. I \cup B(0) = I
    BY <2>1
  <2>4. Holding(g[1 .. 0], N, I \cup B(0), c + 0)
    BY <2>1, <2>2, <2>3
  <2> QED
    BY <2>4
<1>4. ASSUME NEW n \in Nat, n \in P
      PROVE  n + 1 \in P
  <2> SUFFICES ASSUME n + 1 <= Len(s)
               PROVE  Holding(g[1 .. n + 1], N, I \cup B(n + 1), c + (n + 1))
    OBVIOUS
  <2>1. Len(s) \in Nat /\ n <= Len(s) /\ n + 1 \in 1 .. Len(s) /\ s[n + 1] \in N
    OBVIOUS
  <2>2. Holding(g[1 .. n], N, I \cup B(n), c + n)
    BY <1>4, <2>1
  <2>3. /\ 1 .. n + 1 \in SUBSET (1 .. Len(s)) /\ 1 .. n + 1 # {}
        /\ (1 .. n + 1) \ {n + 1} = 1 .. n
    BY <2>1
  <2>4. Max(1 .. n + 1) = n + 1
    <3>1. n + 1 \in 1 .. n + 1 /\ \A y \in 1 .. n + 1 : n + 1 >= y
      OBVIOUS
    <3>2. \A x \in 1 .. n + 1 : (\A y \in 1 .. n + 1 : x >= y) => x = n + 1
      BY <3>1
    <3> QED
      BY <3>1, <3>2 DEF Max
  <2>5. g[1 .. n + 1] = add_node(g[1 .. n], s[n + 1])
    BY <1>2, <2>3, <2>4
  <2>6. Holding(g[1 .. n + 1], N, (I \cup B(n)) \cup {s[n + 1].id}, (c + n) + 1)
    <3>1. c + n \in Nat
      OBVIOUS
    <3> HIDE DEF B, P
    <3>2. Holding(add_node(g[1 .. n], s[n + 1]), N, (I \cup B(n)) \cup {s[n + 1].id},
                  (c + n) + 1)
      <4>1. PICK x \in N : x = s[n + 1]
        BY <2>1
      <4>2. PICK W, J, d : W = g[1 .. n] /\ J = I \cup B(n) /\ d = c + n
        OBVIOUS
      <4>3. Holding(W, N, J, d) /\ d \in Nat
        BY <2>2, <3>1, <4>2
      <4>4. Holding(add_node(W, x), N, J \cup {x.id}, d + 1)
        BY <4>3, AddHolds
      <4> QED
        BY <4>1, <4>2, <4>4
    <3> QED
      BY <2>5, <3>2
  <2>7. B(n + 1) = B(n) \cup {s[n + 1].id}
    <3>1. 1 .. n + 1 = 1 .. n \cup {n + 1}
      OBVIOUS
    <3> QED
      BY <3>1
  <2>8. (c + n) + 1 = c + (n + 1) /\ (I \cup B(n)) \cup {s[n + 1].id} = I \cup B(n + 1)
    <3> HIDE DEF B, P
    <3> QED
      BY <2>7
  <2> QED
    BY <2>6, <2>8
<1>5. Len(s) \in P
  <2>1. Len(s) \in Nat
    OBVIOUS
  <2> HIDE DEF P
  <2> QED
    BY <1>3, <1>4, <2>1, AllNumbers
<1>6. Holding(g[1 .. Len(s)], N, I \cup B(Len(s)), c + Len(s))
  BY <1>5
<1> QED
  BY <1>1, <1>6 DEF IdsOf

-----------------------------------------------------------------------------
(* A list is taken out and its nodes are added anew.                        *)
LEMMA MoveHolds ==
  ASSUME NEW N, NEW I, NEW c \in Nat, NEW T, Holding(T, N, I, c), NEW slot
  PROVE  Holding(move_list(T, slot), N, I, c)
<1> DEFINE u == ListAt(T, slot)
           S == link_clear(T, slot)
<1>1. Parted(S, u, N, I, c)
  BY ClearHolds
<1>2. move_list(T, slot) = FoldLeft(add_node, S, u)
  BY DEF move_list
<1> HIDE DEF u, S
<1>3. u \in Seq(N)
  BY <1>1 DEF Parted
<1>4. PICK J : \E d \in Nat : /\ Holding(S, N, J, d)
                            /\ J \cup IdsOf(u) = I
                            /\ d + Len(u) = c
  BY <1>1 DEF Parted
<1>5. PICK d \in Nat : /\ Holding(S, N, J, d)
                     /\ J \cup IdsOf(u) = I
                     /\ d + Len(u) = c
  BY <1>4
<1>6. Holding(FoldLeft(add_node, S, u), N, J \cup IdsOf(u), d + Len(u))
  BY <1>3, <1>5, FoldHolds
<1> QED
  BY <1>2, <1>5, <1>6

LEMMA ShiftHolds ==
  ASSUME NEW N, NEW I, NEW c \in Nat, NEW T, Holding(T, N, I, c)
  PROVE  Holding(timer_shift(T), N, I, c)
<1> DEFINE ct == (T.time + 1) % Word
           S == [T EXCEPT !.time = ct]
<1>1. Holding(S, N, I, c)
  <2> HIDE DEF ct
  <2>1. T = [time |-> T.time, list |-> T.list]
    BY DEF Holding
  <2>2. S = [time |-> ct, list |-> T.list]
    BY <2>1
  <2>3. S.list = T.list /\ S = [time |-> S.time, list |-> S.list]
    BY <2>2
  <2>4. Cells(S) = Cells(T) /\ Nodes(S) = Nodes(T)
    BY <2>3 DEF Cells, Nodes
  <2> HIDE DEF S
  <2> QED
    BY <2>3, <2>4 DEF Holding
<1>2. timer_shift(T) = S \/ \E slot : timer_shift(T) = move_list(S, slot)
  <2> DEFINE turned == {i \in 0 .. 3 : ct % Span(i) = 0 /\ Digit(ct, i) # 0}
             i == CHOOSE i \in turned : TRUE
  <2>1. timer_shift(T) = IF ct = 0 THEN move_list(S, <<3, 0>>)
                         ELSE IF turned # {} THEN move_list(S, <<i, Digit(ct, i)>>)
                         ELSE S
    BY DEF timer_shift
  <2> HIDE DEF ct, S, turned, i
  <2> QED
    BY <2>1
<1> HIDE DEF S
<1> QED
  BY <1>1, <1>2, MoveHolds

LEMMA ExecuteHolds ==
  ASSUME NEW N, NEW I, NEW c \in Nat, NEW T, Holding(T, N, I, c)
  PROVE  Parted(timer_execute(T), Expired(T), N, I, c)
BY ClearHolds DEF Expired, timer_execute

(* The same with two lists.                                                 *)
PartedTwice(S, u, v, N, I, c) ==
  /\ u \in Seq(N) /\ v \in Seq(N)
  /\ \E J : \E d \in Nat : /\ Holding(S, N, J, d)
                          /\ J \cup IdsOf(u) \cup IdsOf(v) = I
                          /\ d + Len(u) + Len(v) = c

(* What timer_update takes out is what the wheel has no more.               *)
LEMMA UpdateHolds ==
  ASSUME NEW N, NEW I, NEW c \in Nat, NEW T, Holding(T, N, I, c),
         NEW S, S = timer_shift(timer_execute(T))
  PROVE  PartedTwice(timer_execute(S), Expired(T), Expired(S), N, I, c)
<1>1. Parted(timer_execute(T), Expired(T), N, I, c)
  BY ExecuteHolds
<1>2. PICK J : \E d \in Nat : /\ Holding(timer_execute(T), N, J, d)
                            /\ J \cup IdsOf(Expired(T)) = I
                            /\ d + Len(Expired(T)) = c
  BY <1>1 DEF Parted
<1>3. PICK d \in Nat : /\ Holding(timer_execute(T), N, J, d)
                     /\ J \cup IdsOf(Expired(T)) = I
                     /\ d + Len(Expired(T)) = c
  BY <1>2
<1>4. Holding(S, N, J, d)
  BY <1>3, ShiftHolds
<1>5. Parted(timer_execute(S), Expired(S), N, J, d)
  BY <1>4, ExecuteHolds
<1>6. PICK K : \E e \in Nat : /\ Holding(timer_execute(S), N, K, e)
                            /\ K \cup IdsOf(Expired(S)) = J
                            /\ e + Len(Expired(S)) = d
  BY <1>5 DEF Parted
<1>7. PICK e \in Nat : /\ Holding(timer_execute(S), N, K, e)
                     /\ K \cup IdsOf(Expired(S)) = J
                     /\ e + Len(Expired(S)) = d
  BY <1>6
<1>8. Expired(T) \in Seq(N) /\ Expired(S) \in Seq(N)
  BY <1>1, <1>5 DEF Parted
<1>9. Len(Expired(T)) \in Nat /\ Len(Expired(S)) \in Nat
  BY <1>8
<1>10. e + Len(Expired(T)) + Len(Expired(S)) = c
  BY <1>3, <1>7, <1>9
<1>11. K \cup IdsOf(Expired(T)) \cup IdsOf(Expired(S)) = I
  BY <1>3, <1>7
<1> QED
  BY <1>7, <1>8, <1>10, <1>11 DEF PartedTwice

(* As many ids as places, at most.                                          *)
LEMMA IdsBounded ==
  ASSUME NEW N, NEW I, NEW c \in Nat, NEW T, Holding(T, N, I, c)
  PROVE  IsFiniteSet(I) /\ Cardinality(I) <= c
<1> DEFINE g == [x \in Cells(T) |-> T.list[x[1]][x[2]].id]
<1>1. T.list \in [DOMAIN T.list -> Seq(N)]
  BY DEF Holding
<1>2. \A slot \in DOMAIN T.list : DOMAIN T.list[slot] = 1 .. Len(T.list[slot])
  BY <1>1
<1>3. \A i : i \in I <=> \E slot \in DOMAIN T.list : i \in IdsOf(T.list[slot])
  BY <1>1, IdMember DEF Holding
<1>4. ASSUME NEW x \in Cells(T)
      PROVE  g[x] \in I
  <2>1. PICK slot \in DOMAIN T.list : \E k \in DOMAIN T.list[slot] : x = <<slot, k>>
    BY CellMember
  <2>2. PICK k \in DOMAIN T.list[slot] : x = <<slot, k>>
    BY <2>1
  <2>3. g[x] = T.list[slot][k].id /\ k \in 1 .. Len(T.list[slot])
    BY <1>2, <2>2
  <2> QED
    BY <1>3, <2>3 DEF IdsOf
<1>5. ASSUME NEW i \in I
      PROVE  \E x \in Cells(T) : g[x] = i
  <2>1. PICK slot \in DOMAIN T.list : i \in IdsOf(T.list[slot])
    BY <1>3
  <2>2. PICK k \in DOMAIN T.list[slot] : i = T.list[slot][k].id
    BY <1>2, <2>1 DEF IdsOf
  <2>3. <<slot, k>> \in Cells(T)
    BY CellMember
  <2>4. g[<<slot, k>>] = i
    BY <2>2, <2>3
  <2> QED
    BY <2>3, <2>4
<1>6. g \in Surjection(Cells(T), I)
  <2>1. g \in [Cells(T) -> I]
    BY <1>4
  <2> HIDE DEF g
  <2> QED
    BY <1>5, <2>1 DEF Surjection
<1>7. IsFiniteSet(Cells(T)) /\ Cardinality(Cells(T)) = c
  BY DEF Holding
<1> QED
  <2> HIDE DEF g
  <2> QED
    BY <1>6, <1>7, FS_Surjection

LEMMA ElementsBounded ==
  ASSUME NEW A, NEW s \in Seq(A)
  PROVE  IsFiniteSet(ToSet(s)) /\ Cardinality(ToSet(s)) <= Len(s)
<1>1. Len(s) \in Nat /\ DOMAIN s = 1 .. Len(s)
  OBVIOUS
<1>2. s \in Surjection(1 .. Len(s), ToSet(s))
  BY <1>1 DEF Surjection, ToSet
<1>3. IsFiniteSet(1 .. Len(s)) /\ Cardinality(1 .. Len(s)) = Len(s)
  <2>1. /\ IsFiniteSet(1 .. Len(s))
        /\ Cardinality(1 .. Len(s)) = IF 1 > Len(s) THEN 0 ELSE Len(s) - 1 + 1
    <3>1. 1 \in Int /\ Len(s) \in Int
      OBVIOUS
    <3> QED
      BY <3>1, FS_Interval
  <2> QED
    BY <1>1, <2>1
<1> QED
  BY <1>2, <1>3, FS_Surjection

-----------------------------------------------------------------------------
(* The closures to, in their places: those of I in the wheel, with c places *)
(* there, those handed out, and those in the queue.                         *)
Placed(I, c, d, q, to) ==
  /\ d \in Seq(to) /\ q \in Seq(to)
  /\ I \cup ToSet(d) \cup ToSet(q) = to
  /\ c + Len(d) + Len(q) = Cardinality(to)

LEMMA PushedElements ==
  ASSUME NEW A, NEW s \in Seq(A), NEW x
  PROVE  /\ ToSet(Append(s, x)) = ToSet(s) \cup {x}
         /\ Len(Append(s, x)) = Len(s) + 1
<1>1. PICK B : B = A \cup {x}
  OBVIOUS
<1>2. s \in Seq(B) /\ x \in B
  BY <1>1
<1>3. PICK t : t = Append(s, x)
  OBVIOUS
<1>4. /\ DOMAIN t = 1 .. Len(s) + 1 /\ DOMAIN s = 1 .. Len(s) /\ Len(s) \in Nat
      /\ Len(t) = Len(s) + 1 /\ t[Len(s) + 1] = x
      /\ \A k \in 1 .. Len(s) : t[k] = s[k]
  BY <1>2, <1>3
<1>5. 1 .. Len(s) + 1 = 1 .. Len(s) \cup {Len(s) + 1}
  BY <1>4
<1>6. ToSet(t) = ToSet(s) \cup {x}
  BY <1>4, <1>5 DEF ToSet
<1> QED
  BY <1>3, <1>4, <1>6

LEMMA PoppedElements ==
  ASSUME NEW A, NEW s \in Seq(A), s # <<>>
  PROVE  /\ ToSet(s) = ToSet(Tail(s)) \cup {Head(s)}
         /\ Tail(s) \in Seq(A) /\ Head(s) \in A
         /\ Len(s) = Len(Tail(s)) + 1
<1>1. PICK t : t = Tail(s)
  OBVIOUS
<1>2. /\ DOMAIN s = 1 .. Len(s) /\ DOMAIN t = 1 .. Len(s) - 1 /\ Len(s) \in Nat \ {0}
      /\ Len(t) = Len(s) - 1 /\ s[1] = Head(s) /\ t \in Seq(A) /\ Head(s) \in A
      /\ \A k \in 1 .. Len(s) - 1 : t[k] = s[k + 1]
  BY <1>1
<1>3. \A k \in 2 .. Len(s) : k - 1 \in 1 .. Len(s) - 1 /\ s[k] = t[k - 1]
  BY <1>2
<1>4. \A k \in 1 .. Len(s) - 1 : k + 1 \in 1 .. Len(s)
  BY <1>2
<1>5. \A k \in 1 .. Len(s) : k = 1 \/ k \in 2 .. Len(s)
  BY <1>2
<1>6. 1 \in 1 .. Len(s)
  BY <1>2
<1>7. \A x : x \in ToSet(s) <=> x \in ToSet(t) \cup {Head(s)}
  <2>1. ASSUME NEW x, x \in ToSet(s)
        PROVE  x \in ToSet(t) \cup {Head(s)}
    <3>1. PICK k \in 1 .. Len(s) : x = s[k]
      BY <1>2, <2>1 DEF ToSet
    <3>2. CASE k = 1
      BY <1>2, <3>1, <3>2
    <3>3. CASE k \in 2 .. Len(s)
      BY <1>2, <1>3, <3>1, <3>3 DEF ToSet
    <3> QED
      BY <1>5, <3>2, <3>3
  <2>2. ASSUME NEW x, x \in ToSet(t) \cup {Head(s)}
        PROVE  x \in ToSet(s)
    <3>1. CASE x = Head(s)
      BY <1>2, <1>6, <3>1 DEF ToSet
    <3>2. CASE x \in ToSet(t)
      <4>1. PICK k \in 1 .. Len(s) - 1 : x = t[k]
        BY <1>2, <3>2 DEF ToSet
      <4> QED
        BY <1>2, <1>4, <4>1 DEF ToSet
    <3> QED
      BY <2>2, <3>1, <3>2
  <2> QED
    BY <2>1, <2>2
<1> QED
  BY <1>1, <1>2, <1>7

(* A sequence is one over its elements.                                     *)
LEMMA OverElements ==
  ASSUME NEW A, NEW s \in Seq(A), NEW B, ToSet(s) \subseteq B
  PROVE  s \in Seq(B)
<1>1. /\ DOMAIN s = 1 .. Len(s) /\ Len(s) \in Nat /\ s = [k \in 1 .. Len(s) |-> s[k]]
  OBVIOUS
<1>2. \A k \in 1 .. Len(s) : s[k] \in B
  BY <1>1 DEF ToSet
<1> QED
  BY <1>1, <1>2

(* A new closure, in the queue or in the wheel.                             *)
LEMMA QueuedNew ==
  ASSUME NEW I, NEW c \in Nat, NEW d, NEW q, NEW to, Placed(I, c, d, q, to),
         IsFiniteSet(to), NEW x, x \notin to
  PROVE  Placed(I, c, d, Append(q, x), to \cup {x})
<1>1. Cardinality(to \cup {x}) = Cardinality(to) + 1
  BY FS_AddElement
<1>2. /\ d \in Seq(to) /\ q \in Seq(to) /\ Len(d) \in Nat /\ Len(q) \in Nat
      /\ I \cup ToSet(d) \cup ToSet(q) = to
      /\ c + Len(d) + Len(q) = Cardinality(to)
  BY DEF Placed
<1>3. /\ ToSet(Append(q, x)) = ToSet(q) \cup {x} /\ Len(Append(q, x)) = Len(q) + 1
  BY <1>2, PushedElements
<1>4. d \in Seq(to \cup {x}) /\ Append(q, x) \in Seq(to \cup {x})
  <2>1. PICK B : B = to \cup {x}
    OBVIOUS
  <2>2. d \in Seq(B) /\ q \in Seq(B) /\ x \in B
    BY <1>2, <2>1
  <2> QED
    BY <2>1, <2>2
<1>5. I \cup ToSet(d) \cup ToSet(Append(q, x)) = to \cup {x}
  BY <1>2, <1>3
<1>6. c + Len(d) + Len(Append(q, x)) = Cardinality(to \cup {x})
  BY <1>1, <1>2, <1>3
<1> QED
  BY <1>4, <1>5, <1>6 DEF Placed

LEMMA WheeledNew ==
  ASSUME NEW I, NEW c \in Nat, NEW d, NEW q, NEW to, Placed(I, c, d, q, to),
         IsFiniteSet(to), NEW x, x \notin to
  PROVE  Placed(I \cup {x}, c + 1, d, q, to \cup {x})
<1>1. Cardinality(to \cup {x}) = Cardinality(to) + 1
  BY FS_AddElement
<1>2. /\ d \in Seq(to) /\ q \in Seq(to) /\ Len(d) \in Nat /\ Len(q) \in Nat
      /\ I \cup ToSet(d) \cup ToSet(q) = to
      /\ c + Len(d) + Len(q) = Cardinality(to)
  BY DEF Placed
<1>3. d \in Seq(to \cup {x}) /\ q \in Seq(to \cup {x})
  BY <1>2
<1>4. (I \cup {x}) \cup ToSet(d) \cup ToSet(q) = to \cup {x}
  BY <1>2
<1>5. (c + 1) + Len(d) + Len(q) = Cardinality(to \cup {x})
  BY <1>1, <1>2
<1> QED
  BY <1>3, <1>4, <1>5 DEF Placed

(* A closure is handed out into the queue.                                  *)
LEMMA HandedOut ==
  ASSUME NEW I, NEW c \in Nat, NEW d, NEW q, NEW to, Placed(I, c, d, q, to), d # <<>>
  PROVE  Placed(I, c, Tail(d), Append(q, Head(d)), to)
<1>1. /\ d \in Seq(to) /\ q \in Seq(to) /\ Len(q) \in Nat
      /\ I \cup ToSet(d) \cup ToSet(q) = to
      /\ c + Len(d) + Len(q) = Cardinality(to)
  BY DEF Placed
<1>2. /\ ToSet(d) = ToSet(Tail(d)) \cup {Head(d)}
      /\ Tail(d) \in Seq(to) /\ Head(d) \in to
      /\ Len(d) = Len(Tail(d)) + 1
  BY <1>1, PoppedElements
<1>3. /\ ToSet(Append(q, Head(d))) = ToSet(q) \cup {Head(d)}
      /\ Len(Append(q, Head(d))) = Len(q) + 1
  BY <1>1, PushedElements
<1>4. Append(q, Head(d)) \in Seq(to) /\ Len(Tail(d)) \in Nat
  BY <1>1, <1>2
<1>5. I \cup ToSet(Tail(d)) \cup ToSet(Append(q, Head(d))) = to
  BY <1>1, <1>2, <1>3
<1>6. c + Len(Tail(d)) + Len(Append(q, Head(d))) = Cardinality(to)
  BY <1>1, <1>2, <1>3, <1>4
<1> QED
  BY <1>2, <1>4, <1>5, <1>6 DEF Placed

(* The closure at the head of the queue is asked for again,                 *)
LEMMA CalledToQueue ==
  ASSUME NEW I, NEW c \in Nat, NEW d, NEW q, NEW to, Placed(I, c, d, q, to), q # <<>>
  PROVE  Placed(I, c, d, Append(Tail(q), Head(q)), to)
<1>1. /\ d \in Seq(to) /\ q \in Seq(to) /\ Len(d) \in Nat
      /\ I \cup ToSet(d) \cup ToSet(q) = to
      /\ c + Len(d) + Len(q) = Cardinality(to)
  BY DEF Placed
<1>2. /\ ToSet(q) = ToSet(Tail(q)) \cup {Head(q)}
      /\ Tail(q) \in Seq(to) /\ Head(q) \in to
      /\ Len(q) = Len(Tail(q)) + 1
  BY <1>1, PoppedElements
<1>3. /\ ToSet(Append(Tail(q), Head(q))) = ToSet(Tail(q)) \cup {Head(q)}
      /\ Len(Append(Tail(q), Head(q))) = Len(Tail(q)) + 1
  BY <1>2, PushedElements
<1>4. Append(Tail(q), Head(q)) \in Seq(to)
  BY <1>2
<1> QED
  BY <1>1, <1>2, <1>3, <1>4 DEF Placed

LEMMA CalledToWheel ==
  ASSUME NEW I, NEW c \in Nat, NEW d, NEW q, NEW to, Placed(I, c, d, q, to), q # <<>>
  PROVE  Placed(I \cup {Head(q)}, c + 1, d, Tail(q), to)
<1>1. /\ d \in Seq(to) /\ q \in Seq(to) /\ Len(d) \in Nat
      /\ I \cup ToSet(d) \cup ToSet(q) = to
      /\ c + Len(d) + Len(q) = Cardinality(to)
  BY DEF Placed
<1>2. /\ ToSet(q) = ToSet(Tail(q)) \cup {Head(q)}
      /\ Tail(q) \in Seq(to) /\ Head(q) \in to /\ Len(Tail(q)) \in Nat
      /\ Len(q) = Len(Tail(q)) + 1
  <2>1. /\ ToSet(q) = ToSet(Tail(q)) \cup {Head(q)}
        /\ Tail(q) \in Seq(to) /\ Head(q) \in to
        /\ Len(q) = Len(Tail(q)) + 1
    BY <1>1, PoppedElements
  <2> QED
    BY <2>1
<1>3. (I \cup {Head(q)}) \cup ToSet(d) \cup ToSet(Tail(q)) = to
  BY <1>1, <1>2
<1>4. (c + 1) + Len(d) + Len(Tail(q)) = Cardinality(to)
  BY <1>1, <1>2
<1> QED
  BY <1>1, <1>2, <1>3, <1>4 DEF Placed

(* or never again: with no more places than closures, it has no other.      *)
LEMMA CalledLast ==
  ASSUME NEW I, NEW c \in Nat, NEW d, NEW q, NEW to, Placed(I, c, d, q, to), q # <<>>,
         IsFiniteSet(to), IsFiniteSet(I), Cardinality(I) <= c
  PROVE  Placed(I, c, d, Tail(q), to \ {Head(q)})
<1> DEFINE x == Head(q)
           R == I \cup ToSet(d) \cup ToSet(Tail(q))
<1>1. /\ d \in Seq(to) /\ q \in Seq(to) /\ Len(d) \in Nat
      /\ I \cup ToSet(d) \cup ToSet(q) = to
      /\ c + Len(d) + Len(q) = Cardinality(to)
  BY DEF Placed
<1>2. /\ ToSet(q) = ToSet(Tail(q)) \cup {x}
      /\ Tail(q) \in Seq(to) /\ x \in to
      /\ Len(q) = Len(Tail(q)) + 1
  BY <1>1, PoppedElements
<1>3. Len(Tail(q)) \in Nat
  BY <1>2
<1> HIDE DEF x
<1>4. /\ IsFiniteSet(R)
      /\ Cardinality(R) <= c + Len(d) + Len(Tail(q))
  <2>1. /\ IsFiniteSet(ToSet(d)) /\ Cardinality(ToSet(d)) <= Len(d)
        /\ IsFiniteSet(ToSet(Tail(q))) /\ Cardinality(ToSet(Tail(q))) <= Len(Tail(q))
    BY <1>1, <1>2, ElementsBounded
  <2>2. ASSUME NEW A, NEW B, IsFiniteSet(A), IsFiniteSet(B)
        PROVE  /\ IsFiniteSet(A \cup B)
               /\ Cardinality(A) \in Nat /\ Cardinality(B) \in Nat
               /\ Cardinality(A \cup B) \in Nat
               /\ Cardinality(A \cup B) <= Cardinality(A) + Cardinality(B)
    <3>1. /\ IsFiniteSet(A \cup B)
          /\ Cardinality(A \cup B)
               = Cardinality(A) + Cardinality(B) - Cardinality(A \cap B)
      BY <2>2, FS_Union
    <3>2. IsFiniteSet(A \cap B)
      BY <2>2, FS_Intersection
    <3>3. /\ Cardinality(A) \in Nat /\ Cardinality(B) \in Nat
          /\ Cardinality(A \cup B) \in Nat /\ Cardinality(A \cap B) \in Nat
      BY <2>2, <3>1, <3>2, FS_CardinalityType
    <3> QED
      BY <3>1, <3>3
  <2>3. /\ IsFiniteSet(I \cup ToSet(d)) /\ Cardinality(I) \in Nat
        /\ Cardinality(ToSet(d)) \in Nat /\ Cardinality(I \cup ToSet(d)) \in Nat
        /\ Cardinality(I \cup ToSet(d)) <= Cardinality(I) + Cardinality(ToSet(d))
    BY <2>1, <2>2
  <2>4. /\ IsFiniteSet(R) /\ Cardinality(ToSet(Tail(q))) \in Nat
        /\ Cardinality(R) \in Nat
        /\ Cardinality(R) <= Cardinality(I \cup ToSet(d)) + Cardinality(ToSet(Tail(q)))
    BY <2>1, <2>2, <2>3
  <2> HIDE DEF R
  <2> QED
    BY <1>1, <1>3, <2>1, <2>3, <2>4
<1>5. Cardinality(R) < Cardinality(to)
  <2>1. Cardinality(R) \in Nat
    BY <1>4, FS_CardinalityType
  <2> HIDE DEF R
  <2> QED
    BY <1>1, <1>2, <1>3, <1>4, <2>1
<1>6. R \cup {x} = to
  BY <1>1, <1>2
<1>7. x \notin R
  <2> SUFFICES ASSUME x \in R
               PROVE  FALSE
    OBVIOUS
  <2>1. R = to
    BY <1>6
  <2>2. Cardinality(R) \in Nat
    BY <1>4, FS_CardinalityType
  <2> HIDE DEF R
  <2> QED
    BY <1>5, <2>1, <2>2
<1>8. R = to \ {x}
  <2> HIDE DEF R
  <2> QED
    BY <1>6, <1>7
<1>9. d \in Seq(to \ {x}) /\ Tail(q) \in Seq(to \ {x})
  BY <1>1, <1>2, <1>8, OverElements
<1>10. Cardinality(to \ {x}) = Cardinality(to) - 1
  BY <1>2, FS_RemoveElement
<1>11. c + Len(d) + Len(Tail(q)) = Cardinality(to \ {x})
  BY <1>1, <1>2, <1>3, <1>10
<1> QED
  BY <1>8, <1>9, <1>11 DEF Placed, x

-----------------------------------------------------------------------------
(* A node for a closure is put into the wheel.                              *)
LEMMA TimerAddHolds ==
  ASSUME NEW N, NEW I, NEW c \in Nat, NEW T, Holding(T, N, I, c), NEW id, NEW ti
  PROVE  \E M : Holding(timer_add(T, id, ti), M, I \cup {id}, c + 1)
<1> DEFINE n == [id |-> id, expire |-> (T.time + ti) % Word]
           M == N \cup {n}
<1>1. timer_add(T, id, ti) = add_node(T, n) /\ n.id = id /\ n \in M
  BY DEF timer_add
<1>2. Holding(T, M, I, c)
  <2> HIDE DEF n
  <2>1. T.list \in [DOMAIN T.list -> Seq(N)]
    BY DEF Holding
  <2>2. \A s \in Seq(N) : s \in Seq(M)
    OBVIOUS
  <2>3. T.list \in [DOMAIN T.list -> Seq(M)]
    BY <2>1, <2>2
  <2> QED
    BY <2>3 DEF Holding
<1> HIDE DEF n, M
<1>3. Holding(add_node(T, n), M, I \cup {n.id}, c + 1)
  BY <1>1, <1>2, AddHolds
<1> QED
  BY <1>1, <1>3

(* Every closure has its one place.                                         *)
Placement ==
  \E N, I : \E c \in Nat :
    Holding(wheel, N, I, c) /\ Placed(I, c, due, queue, timeouts)

LEMMA PlacementAnswers ==
  ASSUME Placement
  PROVE  ClosuresInOnePlace
<1>1. PICK N, I : \E c \in Nat :
        Holding(wheel, N, I, c) /\ Placed(I, c, due, queue, timeouts)
  BY DEF Placement
<1>2. PICK c \in Nat :
        Holding(wheel, N, I, c) /\ Placed(I, c, due, queue, timeouts)
  BY <1>1
<1>3. /\ {n.id : n \in Nodes(wheel)} = I
      /\ Cardinality(Cells(wheel)) = c
  BY <1>2 DEF Holding
<1>4. /\ due \in Seq(timeouts) /\ queue \in Seq(timeouts)
      /\ I \cup ToSet(due) \cup ToSet(queue) = timeouts
      /\ c + Len(due) + Len(queue) = Cardinality(timeouts)
  BY <1>2 DEF Placed
<1> QED
  BY <1>3, <1>4 DEF ClosuresInOnePlace

LEMMA PlacedAtFirst ==
  ASSUME AllInit
  PROVE  Placement
<1>1. /\ wheel = [time |-> 0, list |-> <<>>] /\ due = <<>> /\ queue = <<>> /\ timeouts = {}
  BY DEF AllInit, Init, NewWheel
<1>2. Cells(wheel) = {} /\ Nodes(wheel) = {} /\ wheel.list = <<>> /\ DOMAIN wheel.list = {}
  BY <1>1 DEF Cells, Nodes
<1>3. IsFiniteSet({}) /\ Cardinality({}) = 0
  BY FS_EmptySet
<1>4. wheel.list \in [DOMAIN wheel.list -> Seq({})]
  BY <1>2
<1>5. wheel = [time |-> wheel.time, list |-> wheel.list]
  BY <1>1
<1>6. {n.id : n \in Nodes(wheel)} = {}
  BY <1>2
<1>7. Holding(wheel, {}, {}, 0)
  BY <1>2, <1>3, <1>4, <1>5, <1>6 DEF Holding
<1>8. Placed({}, 0, due, queue, timeouts)
  <2>1. ToSet(<<>>) = {} /\ Len(<<>>) = 0 /\ <<>> \in Seq({})
    BY DEF ToSet
  <2> QED
    BY <1>1, <1>3, <2>1 DEF Placed
<1> QED
  BY <1>7, <1>8 DEF Placement

LEMMA FinitelyMany ==
  ASSUME IInv
  PROVE  /\ IsFiniteSet(timeouts) /\ timeouts \subseteq 1 .. Len(timers)
         /\ Len(timers) \in Nat /\ Len(timers) + 1 \notin timeouts
<1>1. Len(timers) \in Nat /\ timeouts \subseteq 1 .. Len(timers)
  BY TimersFacts DEF IInv, TypeOK
<1>2. IsFiniteSet(1 .. Len(timers))
  <2>1. 1 \in Int /\ Len(timers) \in Int
    BY <1>1
  <2> QED
    BY <2>1, FS_Interval
<1>3. IsFiniteSet(timeouts)
  BY <1>1, <1>2, FS_Subset
<1> QED
  BY <1>1, <1>3

(* skynet_timeout puts the closure into one of the two.                     *)
LEMMA TimeoutPlaces ==
  ASSUME NEW N, NEW I, NEW c \in Nat, NEW i, NEW ti, NEW rest,
         Holding(wheel, N, I, c), timeout(i, ti, rest),
         Placed(I, c, due, Append(rest, i), timeouts'),
         Placed(I \cup {i}, c + 1, due, rest, timeouts')
  PROVE  Placement'
<1>1. due' = due
  BY DEF timeout
<1>2. CASE ti <= 0
  <2>1. queue' = Append(rest, i) /\ wheel' = wheel
    BY <1>2 DEF timeout
  <2>2. Holding(wheel', N, I, c) /\ Placed(I, c, due', queue', timeouts')
    BY <1>1, <2>1
  <2> QED
    BY <2>2 DEF Placement
<1>3. CASE ~(ti <= 0)
  <2>1. queue' = rest /\ wheel' = timer_add(wheel, i, ti)
    BY <1>3 DEF timeout
  <2>2. PICK M : Holding(timer_add(wheel, i, ti), M, I \cup {i}, c + 1)
    BY TimerAddHolds
  <2>3. PICK J, d : J = I \cup {i} /\ d = c + 1
    OBVIOUS
  <2>4. /\ d \in Nat
        /\ Holding(wheel', M, J, d) /\ Placed(J, d, due', queue', timeouts')
    BY <1>1, <2>1, <2>2, <2>3
  <2> QED
    BY <2>4 DEF Placement
<1> QED
  BY <1>2, <1>3

LEMMA AddPlaces ==
  ASSUME IInv, Placement, Add
  PROVE  Placement'
<1>1. PICK N, I : \E c \in Nat :
        Holding(wheel, N, I, c) /\ Placed(I, c, due, queue, timeouts)
  BY DEF Placement
<1>2. PICK c \in Nat :
        Holding(wheel, N, I, c) /\ Placed(I, c, due, queue, timeouts)
  BY <1>1
<1>3. PICK ti \in Intervals : timeout(Len(timers) + 1, ti, queue)
  BY DEF Add
<1>4. timeouts' = timeouts \cup {Len(timers) + 1}
  BY DEF Add, AddTimer, AddTimerNoHandle, Arm
<1>5. PICK x : x = Len(timers) + 1
  OBVIOUS
<1>6. IsFiniteSet(timeouts) /\ x \notin timeouts
  BY <1>5, FinitelyMany
<1>7. /\ Placed(I, c, due, Append(queue, x), timeouts')
      /\ Placed(I \cup {x}, c + 1, due, queue, timeouts')
  BY <1>2, <1>4, <1>5, <1>6, QueuedNew, WheeledNew
<1> QED
  BY <1>2, <1>3, <1>5, <1>7, TimeoutPlaces

LEMMA CallPlaces ==
  ASSUME IInv, Placement, Call
  PROVE  Placement'
<1>1. PICK N, I : \E c \in Nat :
        Holding(wheel, N, I, c) /\ Placed(I, c, due, queue, timeouts)
  BY DEF Placement
<1>2. PICK c \in Nat :
        Holding(wheel, N, I, c) /\ Placed(I, c, due, queue, timeouts)
  BY <1>1
<1>3. PICK i : i = Head(queue)
  OBVIOUS
<1>4. /\ queue # <<>> /\ f(i)
      /\ IF i \in timeouts' THEN timeout(i, interval[i], Tail(queue))
         ELSE queue' = Tail(queue) /\ UNCHANGED node
  BY <1>3 DEF Call
<1>5. timeouts' = timeouts \/ timeouts' = timeouts \ {i}
  BY <1>4 DEF f, Outdated, RunForever, RunCounted
<1>6. i \in timeouts
  BY <1>2, <1>3, <1>4, PoppedElements DEF Placed
<1>7. CASE i \in timeouts'
  <2>1. timeouts' = timeouts
    BY <1>5, <1>7
  <2>2. /\ Placed(I, c, due, Append(Tail(queue), i), timeouts')
        /\ Placed(I \cup {i}, c + 1, due, Tail(queue), timeouts')
    BY <1>2, <1>3, <1>4, <2>1, CalledToQueue, CalledToWheel
  <2>3. timeout(i, interval[i], Tail(queue))
    BY <1>4, <1>7
  <2> QED
    BY <1>2, <2>2, <2>3, TimeoutPlaces
<1>8. CASE i \notin timeouts'
  <2>1. timeouts' = timeouts \ {i}
    BY <1>5, <1>6, <1>8
  <2>2. queue' = Tail(queue) /\ wheel' = wheel /\ due' = due
    BY <1>4, <1>8 DEF node
  <2>3. IsFiniteSet(I) /\ Cardinality(I) <= c /\ IsFiniteSet(timeouts)
    BY <1>2, IdsBounded, FinitelyMany
  <2>4. Placed(I, c, due, Tail(queue), timeouts \ {i})
    BY <1>2, <1>3, <1>4, <2>3, CalledLast
  <2>5. Holding(wheel', N, I, c) /\ Placed(I, c, due', queue', timeouts')
    BY <1>2, <2>1, <2>2, <2>4
  <2> QED
    BY <2>5 DEF Placement
<1> QED
  BY <1>7, <1>8

(* The timer thread takes out what has expired.                             *)
LEMMA UpdatePlaces ==
  ASSUME Placement, timer_update
  PROVE  Placement'
<1>1. PICK N, I : \E c \in Nat :
        Holding(wheel, N, I, c) /\ Placed(I, c, due, queue, timeouts)
  BY DEF Placement
<1>2. PICK c \in Nat :
        Holding(wheel, N, I, c) /\ Placed(I, c, due, queue, timeouts)
  BY <1>1
<1>3. PICK S : S = timer_shift(timer_execute(wheel))
  OBVIOUS
<1>4. PICK u, v : u = Expired(wheel) /\ v = Expired(S)
  OBVIOUS
<1>5. /\ due = <<>> /\ wheel' = timer_execute(S)
      /\ due' = [i \in 1 .. Len(u \o v) |-> (u \o v)[i].id]
      /\ timeouts' = timeouts /\ queue' = queue
  BY <1>3, <1>4 DEF timer_update, vars
<1>6. /\ PartedTwice(timer_execute(S), u, v, N, I, c)
      /\ u \in Seq(N) /\ v \in Seq(N)
  <2>1. PartedTwice(timer_execute(S), u, v, N, I, c)
    BY <1>2, <1>3, <1>4, UpdateHolds
  <2> QED
    BY <2>1 DEF PartedTwice
<1>7. PICK J : \E d \in Nat : /\ Holding(timer_execute(S), N, J, d)
                            /\ J \cup IdsOf(u) \cup IdsOf(v) = I
                            /\ d + Len(u) + Len(v) = c
  BY <1>6 DEF PartedTwice
<1>8. PICK d \in Nat : /\ Holding(timer_execute(S), N, J, d)
                     /\ J \cup IdsOf(u) \cup IdsOf(v) = I
                     /\ d + Len(u) + Len(v) = c
  BY <1>7
<1>9. PICK w : w = u \o v
  OBVIOUS
<1>10. /\ Len(w) = Len(u) + Len(v) /\ Len(u) \in Nat /\ Len(v) \in Nat
       /\ \A k \in 1 .. Len(u) : k \in 1 .. Len(w) /\ w[k] = u[k]
       /\ \A k \in 1 .. Len(v) : Len(u) + k \in 1 .. Len(w) /\ w[Len(u) + k] = v[k]
       /\ \A k \in 1 .. Len(w) : k \in 1 .. Len(u) \/ k - Len(u) \in 1 .. Len(v)
       /\ \A k \in 1 .. Len(w) : k \notin 1 .. Len(u) => w[k] = v[k - Len(u)]
  BY <1>6, <1>9
<1>11. due' = [k \in 1 .. Len(w) |-> w[k].id]
  BY <1>5, <1>9
<1>12. IdsOf(w) = IdsOf(u) \cup IdsOf(v)
  <2>1. ASSUME NEW x, x \in IdsOf(w)
        PROVE  x \in IdsOf(u) \/ x \in IdsOf(v)
    <3>1. PICK k \in 1 .. Len(w) : x = w[k].id
      BY <2>1 DEF IdsOf
    <3>2. CASE k \in 1 .. Len(u)
      BY <1>10, <3>1, <3>2 DEF IdsOf
    <3>3. CASE k \notin 1 .. Len(u)
      BY <1>10, <3>1, <3>3 DEF IdsOf
    <3> QED
      BY <3>2, <3>3
  <2>2. ASSUME NEW x, x \in IdsOf(u)
        PROVE  x \in IdsOf(w)
    BY <1>10, <2>2 DEF IdsOf
  <2>3. ASSUME NEW x, x \in IdsOf(v)
        PROVE  x \in IdsOf(w)
    <3>1. PICK k \in 1 .. Len(v) : x = v[k].id
      BY <2>3 DEF IdsOf
    <3>2. Len(u) + k \in 1 .. Len(w) /\ x = w[Len(u) + k].id
      BY <1>10, <3>1
    <3> QED
      BY <3>2 DEF IdsOf
  <2> QED
    BY <2>1, <2>2, <2>3
<1>13. PICK e : e = due'
  OBVIOUS
<1>14. e = [k \in 1 .. Len(w) |-> w[k].id]
  BY <1>11, <1>13
<1>15. /\ queue \in Seq(timeouts)
       /\ I \cup ToSet(due) \cup ToSet(queue) = timeouts
       /\ c + Len(due) + Len(queue) = Cardinality(timeouts)
  BY <1>2 DEF Placed
<1>16. ToSet(due) = {} /\ Len(due) = 0
  BY <1>5 DEF ToSet
<1>17. ToSet(e) = IdsOf(w)
  BY <1>14 DEF ToSet, IdsOf
<1>18. e \in Seq(timeouts) /\ Len(e) = Len(w)
  <2>1. \A k \in 1 .. Len(w) : w[k].id \in timeouts
    <3>1. IdsOf(w) \subseteq timeouts
      BY <1>8, <1>12, <1>15
    <3> QED
      BY <3>1 DEF IdsOf
  <2>2. Len(w) \in Nat
    BY <1>10
  <2> QED
    BY <1>14, <2>1, <2>2
<1>19. J \cup ToSet(e) \cup ToSet(queue) = timeouts
  BY <1>8, <1>12, <1>15, <1>16, <1>17
<1>20. d + Len(e) + Len(queue) = Cardinality(timeouts)
  <2>1. Len(queue) \in Nat
    BY <1>15
  <2> QED
    BY <1>8, <1>10, <1>15, <1>16, <1>18, <2>1
<1>21. Placed(J, d, e, queue, timeouts)
  BY <1>15, <1>18, <1>19, <1>20 DEF Placed
<1>22. Holding(wheel', N, J, d) /\ Placed(J, d, due', queue', timeouts')
  BY <1>5, <1>8, <1>13, <1>21
<1> QED
  BY <1>22 DEF Placement

LEMMA StepPlaces ==
  ASSUME IInv, Placement, [AllNext]_allVars
  PROVE  Placement'
<1>1. PICK N, I : \E c \in Nat :
        Holding(wheel, N, I, c) /\ Placed(I, c, due, queue, timeouts)
  BY DEF Placement
<1>2. PICK c \in Nat :
        Holding(wheel, N, I, c) /\ Placed(I, c, due, queue, timeouts)
  BY <1>1
<1>3. CASE Add
  BY <1>3, AddPlaces
<1>4. CASE Call
  BY <1>4, CallPlaces
<1>5. CASE timer_update
  BY <1>5, UpdatePlaces
<1>6. CASE dispatch_list
  <2>1. /\ due # <<>> /\ due' = Tail(due) /\ queue' = Append(queue, Head(due))
        /\ wheel' = wheel /\ timeouts' = timeouts
    BY <1>6 DEF dispatch_list, vars
  <2>2. Placed(I, c, Tail(due), Append(queue, Head(due)), timeouts)
    BY <1>2, <2>1, HandedOut
  <2>3. Holding(wheel', N, I, c) /\ Placed(I, c, due', queue', timeouts')
    BY <1>2, <2>1, <2>2
  <2> QED
    BY <2>3 DEF Placement
<1>7. CASE Stop \/ UNCHANGED allVars
  <2>1. wheel' = wheel /\ due' = due /\ queue' = queue /\ timeouts' = timeouts
    BY <1>7 DEF Stop, RemoveTimer, RemoveAllTimers, allVars, node, vars
  <2>2. Holding(wheel', N, I, c) /\ Placed(I, c, due', queue', timeouts')
    BY <1>2, <2>1
  <2> QED
    BY <2>2 DEF Placement
<1> QED
  BY <1>3, <1>4, <1>5, <1>6, <1>7 DEF AllNext

(* Steps of the timer thread are stutters of the timers, and a call is that *)
(* of a closure on its way.                                                 *)
LEMMA StepOfTimers == ClosuresInOnePlace /\ [AllNext]_allVars => [Next]_vars
<1> SUFFICES ASSUME ClosuresInOnePlace, [AllNext]_allVars
             PROVE  [Next]_vars
  OBVIOUS
<1>1. CASE Add
  BY <1>1 DEF Add, Next
<1>2. CASE Stop
  BY <1>2 DEF Stop, Next
<1>3. CASE Call
  <2>1. queue \in Seq(timeouts) /\ queue # <<>>
    BY <1>3 DEF Call, ClosuresInOnePlace
  <2>2. Head(queue) \in timeouts
    BY <2>1
  <2> QED
    BY <1>3, <2>2 DEF Call, Next
<1>4. CASE timer_update \/ dispatch_list \/ UNCHANGED allVars
  BY <1>4 DEF timer_update, dispatch_list, allVars, vars
<1> QED
  BY <1>1, <1>2, <1>3, <1>4 DEF AllNext

AllIInv == IInv /\ Placement

(* Whatever is added, removed, moved down the wheel, handed out and called, *)
(* each closure still to be called is in one place.                         *)
THEOREM OnePlaceEach == AllSpec => []ClosuresInOnePlace
<1>1. AllInit => AllIInv
  BY InitInv, PlacedAtFirst DEF AllInit, AllIInv
<1>2. AllIInv /\ [AllNext]_allVars => AllIInv'
  <2> SUFFICES ASSUME AllIInv, [AllNext]_allVars
               PROVE  AllIInv'
    OBVIOUS
  <2>1. IInv /\ Placement /\ ClosuresInOnePlace
    BY PlacementAnswers DEF AllIInv
  <2>2. IInv'
    BY <2>1, StepOfTimers, StepInv
  <2>3. Placement'
    BY <2>1, StepPlaces
  <2> QED
    BY <2>2, <2>3 DEF AllIInv
<1>3. AllIInv => ClosuresInOnePlace
  BY PlacementAnswers DEF AllIInv
<1> QED
  BY <1>1, <1>2, <1>3, PTL DEF AllSpec

(* Timers over the wheel are timers: with each closure in one place, each   *)
(* behaviour of the whole is one of TimerObject.                            *)
THEOREM WheelServesTimers == AllSpec => Spec
<1>1. AllInit => Init
  BY DEF AllInit
<1> QED
  BY <1>1, OnePlaceEach, StepOfTimers, PTL DEF AllSpec, Spec

(* And so they have what was proved of those: one closure per timer in      *)
(* force, no run of a stopped timer, and the count kept.                    *)
THEOREM TimersOverTheWheel ==
  AllSpec => []OneClosurePerTimer /\ []RunsAsAsked /\ StoppedTimersRest
  BY WheelServesTimers, OneClosure, CountsAreKept, StoppedRest, PTL
=============================================================================
