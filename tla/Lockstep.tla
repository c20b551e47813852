------------------------------ MODULE Lockstep -------------------------------
(***************************************************************************)
(* What frame synchronisation promises, whatever the services between the  *)
(* game and its clients: the game writes one log of frames, and a viewer,  *)
(* from whenever it joins until it leaves, executes the frames of the log  *)
(* in order from the first, skipping none and repeating none.              *)
(***************************************************************************)
EXTENDS Naturals, Sequences

CONSTANTS
  Viewers,
  Frame     \* what a frame can be

VARIABLES
  log,      \* the frames of the game
  viewers,  \* those who have joined
  seen      \* the frames each of them has executed

absVars == <<log, viewers, seen>>

Init ==
  /\ log = <<>>
  /\ viewers = {}
  /\ seen = [v \in Viewers |-> <<>>]

(* The game adds a frame.                                                   *)
Extend ==
  /\ log' # <<>>
  /\ log'[Len(log')] \in Frame
  /\ log' = Append(log, log'[Len(log')])
  /\ UNCHANGED <<viewers, seen>>

Join(v) ==
  /\ v \notin viewers
  /\ viewers' = viewers \cup {v}
  /\ UNCHANGED <<log, seen>>

Run(v) ==
  /\ v \in viewers
  /\ Len(seen[v]) < Len(log)
  /\ seen' = [seen EXCEPT ![v] = Append(@, log[Len(@) + 1])]
  /\ UNCHANGED <<log, viewers>>

Leave(v) ==
  /\ v \in viewers
  /\ viewers' = viewers \ {v}
  /\ seen' = [seen EXCEPT ![v] = <<>>]
  /\ UNCHANGED log

Next == Extend \/ \E v \in Viewers : Join(v) \/ Run(v) \/ Leave(v)

Spec == Init /\ [][Next]_absVars

FairSpec == Spec /\ \A v \in Viewers : WF_absVars(Run(v))

(* What two viewers have executed agrees as far as both have got: the       *)
(* games they show are the same game.                                       *)
Agreement ==
  \A u, v \in Viewers : \A i \in 1 .. Len(seen[u]) :
    i <= Len(seen[v]) => seen[u][i] = seen[v][i]
=============================================================================
