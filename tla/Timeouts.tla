------------------------------ MODULE Timeouts -------------------------------
(***************************************************************************)
(* The timers of a service, of module TimerObject, over the timer of the   *)
(* node, of module TimerWheel.  skynet.timeout puts a closure into the     *)
(* wheel; the timer thread moves those whose time has come to the queue of *)
(* the service; the service calls them one by one.                         *)
(*                                                                         *)
(* The service may run between any two steps of the timer thread, which    *)
(* gives up the lock while it hands out messages.                          *)
(***************************************************************************)
EXTENDS TimerObject, TimerWheel

CONSTANT Intervals  \* the times at which timers are to run, in ticks

(* skynet_timeout takes an int.                                             *)
Horizon == Word \div 2 - 1

ASSUME IntervalsAssumption == Intervals \subseteq 0 .. Horizon

VARIABLES
  wheel,    \* TI
  due,      \* what timer_execute has taken out and hands out
  queue,    \* the responses in the queue of the service
  interval  \* the ti of each timer

node == <<wheel, due>>
allVars == <<vars, node, queue, interval>>

-----------------------------------------------------------------------------
(* skynet_timeout, of the closure of timer i, when rest is in the queue:    *)
(* for no time the response is sent at once.                                *)
timeout(i, ti, rest) ==
  /\ queue' = IF ti <= 0 THEN Append(rest, i) ELSE rest
  /\ wheel' = IF ti <= 0 THEN wheel ELSE timer_add(wheel, i, ti)
  /\ UNCHANGED due

Add ==
  /\ \E ti \in Intervals :
       /\ interval' = Append(interval, ti)
       /\ timeout(Len(timers) + 1, ti, queue)
  /\ \E count \in Counts :
       (\E handle \in Handles : AddTimer(handle, count)) \/ AddTimerNoHandle(count)

Stop ==
  /\ (\E handle \in DOMAIN m_TimerList : RemoveTimer(handle)) \/ RemoveAllTimers
  /\ UNCHANGED <<node, queue, interval>>

(* The service calls the next closure, which asks for its next timeout if   *)
(* it is to run again.                                                      *)
Call ==
  /\ queue # <<>>
  /\ LET i == Head(queue)
     IN  /\ f(i)
         /\ IF i \in timeouts' THEN timeout(i, interval[i], Tail(queue))
            ELSE queue' = Tail(queue) /\ UNCHANGED node
  /\ UNCHANGED interval

(* timer_update: what is still there for the old time, then the time goes   *)
(* on.                                                                      *)
timer_update ==
  /\ due = <<>>
  /\ LET left == timer_execute(wheel)
         shifted == timer_shift(left)
     IN  /\ due' = [i \in 1 .. Len(Expired(wheel) \o Expired(shifted)) |->
                      (Expired(wheel) \o Expired(shifted))[i].id]
         /\ wheel' = timer_execute(shifted)
  /\ UNCHANGED <<vars, queue, interval>>

dispatch_list ==
  /\ due # <<>>
  /\ queue' = Append(queue, Head(due))
  /\ due' = Tail(due)
  /\ UNCHANGED <<vars, wheel, interval>>

AllInit ==
  /\ Init
  /\ wheel = NewWheel
  /\ due = <<>>
  /\ queue = <<>>
  /\ interval = <<>>

AllNext == Add \/ Stop \/ Call \/ timer_update \/ dispatch_list

AllSpec == AllInit /\ [][AllNext]_allVars

-----------------------------------------------------------------------------
(* Every closure that is still to be called is in one place: in the wheel,  *)
(* being handed out, or in the queue.  None is lost when lists are moved,   *)
(* and none is doubled.                                                     *)
ClosuresInOnePlace ==
  LET inWheel == {n.id : n \in Nodes(wheel)}
  IN  /\ {due, queue} \subseteq Seq(timeouts)
      /\ inWheel \cup ToSet(due) \cup ToSet(queue) = timeouts
      /\ Cardinality(Cells(wheel)) + Len(due) + Len(queue)
           = Cardinality(timeouts)

(* The wheel goes off at the right tick, in order: it implements Alarms,    *)
(* a node having to go the ticks that its expire time is away.              *)
ToGo(n) == (n.expire - wheel.time) % Word

(* The ids of the nodes with d ticks to go, which are in one list.          *)
Going(d) ==
  LET slot == CHOOSE s \in DOMAIN wheel.list :
                \E n \in ToSet(wheel.list[s]) : ToGo(n) = d
      there == SelectSeq(wheel.list[slot], LAMBDA n : ToGo(n) = d)
  IN  [k \in DOMAIN there |-> there[k].id]

Clock == INSTANCE Alarms WITH
  alarms <- [d \in {ToGo(n) : n \in Nodes(wheel)} |-> Going(d)]

ImplementsAlarms == Clock!Spec
=============================================================================
