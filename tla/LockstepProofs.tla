---------------------------- MODULE LockstepProofs ----------------------------
(***************************************************************************)
(* What whatever implements Lockstep gives its viewers: one game.          *)
(***************************************************************************)
EXTENDS Lockstep, TLAPS

(* What a viewer has executed is a beginning of the log.                    *)
Follows(s) ==
  /\ s \in Seq(Frame)
  /\ Len(s) <= Len(log)
  /\ \A i \in 1 .. Len(s) : s[i] = log[i]

Inv ==
  /\ log \in Seq(Frame)
  /\ seen = [v \in Viewers |-> seen[v]]
  /\ \A v \in Viewers : Follows(seen[v])

LEMMA AbsStart == Init => Inv
BY DEF Init, Inv, Follows

LEMMA AbsStep == Inv /\ [Next]_absVars => Inv'
<1> SUFFICES ASSUME Inv, [Next]_absVars PROVE Inv'
  OBVIOUS
<1>1. log \in Seq(Frame) /\ Len(log) \in Nat
  BY DEF Inv
<1>2. CASE Extend
  <2> DEFINE f == log'[Len(log')]
  <2>1. f \in Frame /\ log' = Append(log, f) /\ seen' = seen
    BY <1>2 DEF Extend
  <2> HIDE DEF f
  <2>2. /\ log' \in Seq(Frame) /\ Len(log') = Len(log) + 1
        /\ \A i \in 1 .. Len(log) : log'[i] = log[i]
    BY <1>1, <2>1
  <2>3. ASSUME NEW s, Follows(s) PROVE Follows(s)'
    <3>1. s \in Seq(Frame) /\ Len(s) \in Nat /\ Len(s) <= Len(log)
      BY <2>3 DEF Follows
    <3>2. \A i \in 1 .. Len(s) : i \in 1 .. Len(log)
      BY <1>1, <3>1
    <3> QED BY <1>1, <2>2, <2>3, <3>1, <3>2 DEF Follows
  <2> QED BY <2>1, <2>2, <2>3 DEF Inv
<1>3. ASSUME NEW v \in Viewers, Join(v) PROVE Inv'
  BY <1>3 DEF Join, Inv, Follows
<1>4. ASSUME NEW v \in Viewers, Run(v) PROVE Inv'
  <2> DEFINE s == seen[v]
             t == Append(s, log[Len(s) + 1])
  <2>1. /\ Follows(s) /\ Len(s) < Len(log) /\ log' = log
        /\ seen' = [seen EXCEPT ![v] = t]
    BY <1>4 DEF Run, Inv
  <2> HIDE DEF s
  <2>2. log[Len(s) + 1] \in Frame /\ s \in Seq(Frame) /\ Len(s) \in Nat
    BY <1>1, <2>1 DEF Follows
  <2>3. /\ t \in Seq(Frame) /\ Len(t) = Len(s) + 1
        /\ t[Len(s) + 1] = log[Len(s) + 1]
        /\ \A i \in 1 .. Len(s) : t[i] = s[i]
    BY <2>2
  <2> HIDE DEF t
  <2>4. Len(t) <= Len(log)
    BY <1>1, <2>1, <2>2, <2>3
  <2>5. ASSUME NEW i \in 1 .. Len(t) PROVE t[i] = log[i]
    <3>1. i \in 1 .. Len(s) \/ i = Len(s) + 1
      BY <2>2, <2>3
    <3> QED BY <2>1, <2>3, <3>1 DEF Follows
  <2>6. Follows(t)
    BY <2>3, <2>4, <2>5 DEF Follows
  <2> QED BY <2>1, <2>6 DEF Inv, Follows
<1>5. ASSUME NEW v \in Viewers, Leave(v) PROVE Inv'
  <2>1. Follows(<<>>)
    BY <1>1 DEF Follows
  <2> QED BY <1>5, <2>1 DEF Leave, Inv, Follows
<1>6. CASE UNCHANGED absVars
  BY <1>6 DEF absVars, Inv, Follows
<1> QED BY <1>2, <1>3, <1>4, <1>5, <1>6 DEF Next

(* Clients that implement Lockstep show the same game: as far as any two of *)
(* them have executed the broadcast frames (update_logic), the frames they  *)
(* have executed are the same, whenever each of them came or comes back.    *)
THEOREM ClientsAgree == Spec => []Agreement
<1>1. Inv => Agreement
  <2> SUFFICES ASSUME Inv, NEW u \in Viewers, NEW v \in Viewers,
                      NEW i \in 1 .. Len(seen[u]), i <= Len(seen[v])
               PROVE  seen[u][i] = seen[v][i]
    BY DEF Agreement
  <2>1. Follows(seen[u]) /\ Follows(seen[v])
    BY DEF Inv
  <2>2. i \in 1 .. Len(seen[v])
    BY <2>1 DEF Follows
  <2> QED BY <2>1, <2>2 DEF Follows
<1> QED BY <1>1, AbsStart, AbsStep, PTL DEF Spec
=============================================================================
