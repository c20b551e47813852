------------------------------- MODULE Alarms --------------------------------
(***************************************************************************)
(* What a timer is for: an alarm set d ticks ahead goes off at the d-th    *)
(* tick from now, not earlier and not later, and alarms for the same tick  *)
(* go off in the order in which they were set.  The module Timeouts        *)
(* implements it with the wheel of skynet_timer.c.                         *)
(***************************************************************************)
EXTENDS Integers, Sequences, SequencesExt

VARIABLES
  alarms,  \* the alarms set, by the number of ticks they have to go
  due      \* those that have gone off and are not yet taken

avars == <<alarms, due>>

Init == alarms = <<>> /\ due = <<>>

(* One alarm more, the last of those for its tick.                          *)
Set ==
  /\ \E d \in DOMAIN alarms' :
       IF Len(alarms'[d]) = 1
       THEN alarms = [e \in DOMAIN alarms' \ {d} |-> alarms'[e]]
       ELSE alarms = [alarms' EXCEPT ![d] = Front(@)]
  /\ UNCHANGED due

Tick ==
  /\ due = <<>>
  /\ due' = IF 1 \in DOMAIN alarms THEN alarms[1] ELSE <<>>
  /\ alarms' = [d \in {e - 1 : e \in DOMAIN alarms \ {1}} |-> alarms[d + 1]]

TakeFirst ==
  /\ due # <<>>
  /\ due' = Tail(due)
  /\ UNCHANGED alarms

Next == Set \/ Tick \/ TakeFirst

Spec == Init /\ [][Next]_avars
=============================================================================
