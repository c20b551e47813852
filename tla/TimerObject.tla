----------------------------- MODULE TimerObject -----------------------------
(***************************************************************************)
(* The timers of an object (lualib/object.lua) and, the same code, those   *)
(* of a service (globaldefines.lua).  skynet.timeout cannot be called off: *)
(* a timer is given up by a change of m_TimerList only, and its closure f, *)
(* called later, must find that out.                                       *)
(*                                                                         *)
(* Time is left out: a timeout goes off at any time after it was asked     *)
(* for.  What f runs, func, is left out too; when it adds or removes       *)
(* timers, it does so after everything else in f, as a step of its own.    *)
(***************************************************************************)
EXTENDS Naturals, Sequences

CONSTANTS
  Handles,   \* the handles callers choose themselves
  Counts,    \* the counts they ask for; 0 is for ever (true, in the code)
  MaxTimers  \* bound: the number of timers added

ASSUME TimerAssumption ==
  /\ Counts \subseteq Nat
  /\ MaxTimers \in Nat

VARIABLES
  m_TimerList,        \* the timers in force, by handle
  m_TimerNo,          \* the number of the next timer
  m_TimerDefaultHdl,  \* the next handle to be given to a caller without one
  timeouts,           \* the closures skynet will call
  timers,             \* history: every timer added, and how often it was run
  stopped,            \* history: those removed or replaced while in force
  ran                 \* history: the timer run by the last step, or 0

vars == <<m_TimerList, m_TimerNo, m_TimerDefaultHdl, timeouts, timers, stopped,
          ran>>

-----------------------------------------------------------------------------
(* The entries of m_TimerList under the handles in H go.                    *)
Without(H) == [h \in DOMAIN m_TimerList \ H |-> m_TimerList[h]]

(* The timers that stop when they do.                                       *)
Stopping(H) == {i \in timeouts : timers[i].handle \in H}

(* The common part of the two ways to add a timer.                          *)
Arm(handle, count) ==
  /\ Len(timers) < MaxTimers
  /\ m_TimerList' = [h \in DOMAIN m_TimerList \cup {handle} |->
                       IF h = handle THEN [tno |-> m_TimerNo, count |-> count]
                       ELSE m_TimerList[h]]
  /\ m_TimerNo' = m_TimerNo + 1
  /\ timers' = Append(timers, [handle |-> handle, tno |-> m_TimerNo,
                               count |-> count, runs |-> 0])
  /\ timeouts' = timeouts \cup {Len(timers) + 1}
  /\ stopped' = stopped \cup Stopping({handle})
  /\ ran' = 0

AddTimer(handle, count) ==
  /\ Arm(handle, count)
  /\ UNCHANGED m_TimerDefaultHdl

(* AddTimer without a handle.                                               *)
AddTimerNoHandle(count) ==
  /\ Arm(m_TimerDefaultHdl, count)
  /\ m_TimerDefaultHdl' = m_TimerDefaultHdl + 1

RemoveTimer(handle) ==
  /\ m_TimerList' = Without({handle})
  /\ stopped' = stopped \cup Stopping({handle})
  /\ ran' = 0
  /\ UNCHANGED <<m_TimerNo, m_TimerDefaultHdl, timeouts, timers>>

(* Fault: numbering starts again with an empty list.                        *)
RemoveAllTimers_Renumber ==
  /\ m_TimerList' = <<>>
  /\ m_TimerNo' = 0
  /\ stopped' = stopped \cup timeouts
  /\ ran' = 0
  /\ UNCHANGED <<m_TimerDefaultHdl, timeouts, timers>>

RemoveAllTimers ==
  /\ m_TimerList' = <<>>
  /\ stopped' = stopped \cup timeouts
  /\ ran' = 0
  /\ UNCHANGED <<m_TimerNo, m_TimerDefaultHdl, timeouts, timers>>

-----------------------------------------------------------------------------
(* A closure goes off.                                                      *)

(* Fault: the number of the timer is not compared.                          *)
InForce_AnyNumber(i) == timers[i].handle \in DOMAIN m_TimerList

(* The two early returns of f are passed.                                   *)
InForce(i) ==
  /\ timers[i].handle \in DOMAIN m_TimerList
  /\ m_TimerList[timers[i].handle].tno = timers[i].tno

(* What is left of the count in the timer's entry.                          *)
Left(i) == m_TimerList[timers[i].handle].count

Outdated(i) ==
  /\ ~InForce(i)
  /\ timeouts' = timeouts \ {i}
  /\ ran' = 0
  /\ UNCHANGED <<m_TimerList, m_TimerNo, m_TimerDefaultHdl, timers, stopped>>

RunForever(i) ==
  /\ InForce(i)
  /\ Left(i) = 0
  /\ ran' = i
  /\ UNCHANGED <<m_TimerList, m_TimerNo, m_TimerDefaultHdl, timeouts, timers,
                 stopped>>

(* Fault: the last run is taken for done one run early.                     *)
RunCounted_OneShort(i) ==
  /\ InForce(i)
  /\ Left(i) > 0
  /\ ran' = i
  /\ timers' = [timers EXCEPT ![i].runs = @ + 1]
  /\ IF Left(i) > 2
     THEN /\ m_TimerList' = [m_TimerList EXCEPT ![timers[i].handle].count = @ - 1]
          /\ UNCHANGED timeouts
     ELSE /\ m_TimerList' = Without({timers[i].handle})
          /\ timeouts' = timeouts \ {i}
  /\ UNCHANGED <<m_TimerNo, m_TimerDefaultHdl, stopped>>

RunCounted(i) ==
  /\ InForce(i)
  /\ Left(i) > 0
  /\ ran' = i
  /\ timers' = [timers EXCEPT ![i].runs = @ + 1]
  /\ IF Left(i) > 1
     THEN /\ m_TimerList' = [m_TimerList EXCEPT ![timers[i].handle].count = @ - 1]
          /\ UNCHANGED timeouts
     ELSE /\ m_TimerList' = Without({timers[i].handle})
          /\ timeouts' = timeouts \ {i}
  /\ UNCHANGED <<m_TimerNo, m_TimerDefaultHdl, stopped>>

f(i) == Outdated(i) \/ RunForever(i) \/ RunCounted(i)

Init ==
  /\ m_TimerList = <<>>
  /\ m_TimerNo = 0
  /\ m_TimerDefaultHdl = 0
  /\ timeouts = {}
  /\ timers = <<>>
  /\ stopped = {}
  /\ ran = 0

Next ==
  \/ \E handle \in Handles, count \in Counts : AddTimer(handle, count)
  \/ \E count \in Counts : AddTimerNoHandle(count)
  \/ \E handle \in DOMAIN m_TimerList : RemoveTimer(handle)
  \/ RemoveAllTimers
  \/ \E i \in timeouts : f(i)

Spec == Init /\ [][Next]_vars

-----------------------------------------------------------------------------
AllHandles == Handles \cup Nat

Timer == [handle : AllHandles, tno : Nat, count : Counts,
          runs : Nat]

(* Types: every closure is that of a timer that was added.                  *)
TypeOK ==
  /\ DOMAIN m_TimerList \subseteq AllHandles
  /\ \A h \in DOMAIN m_TimerList : m_TimerList[h] \in [tno : Nat, count : Nat]
  /\ m_TimerNo \in Nat
  /\ m_TimerDefaultHdl \in Nat
  /\ timers \in Seq(Timer)
  /\ timeouts \subseteq DOMAIN timers
  /\ stopped \subseteq DOMAIN timers
  /\ ran \in {0} \cup DOMAIN timers

(* A timer in force has one closure on its way, exactly: AddTimer under a   *)
(* handle in use, or after RemoveAllTimers, leaves closures of former       *)
(* timers behind, and none of them may pass for the new one's, or it would  *)
(* run twice as often; f asks for the next timeout before it returns.       *)
OneClosurePerTimer ==
  \A h \in DOMAIN m_TimerList :
    /\ \E i \in timeouts : timers[i].handle = h /\ InForce(i)
    /\ \A i, j \in timeouts :
         /\ timers[i].handle = h /\ timers[j].handle = h
         /\ InForce(i) /\ InForce(j)
         => i = j

(* A timer that was removed or replaced is never run again, although its    *)
(* closure still goes off (the early returns of f).                         *)
StoppedTimersRest == [][ran' \notin stopped]_vars

(* A timer added with a count is run that many times, unless it is removed  *)
(* or replaced first, and never more often.                                 *)
RunsAsAsked ==
  \A i \in DOMAIN timers :
    timers[i].count > 0 =>
      /\ timers[i].runs <= timers[i].count
      /\ i \notin timeouts /\ i \notin stopped
           => timers[i].runs = timers[i].count
=============================================================================
