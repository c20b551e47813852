---------------------------- MODULE SkynetProofs -----------------------------
(***************************************************************************)
(* Proofs about the queues of a skynet node: for any number of workers and *)
(* services, any weights, any size of a new ring, any size of the handle   *)
(* storage and any bounds, a queue is first in, first out, and in one      *)
(* place at a time.                                                        *)
(*                                                                         *)
(* The lemmas about rings say what mq_push and mq_pop do to the messages   *)
(* that a ring stands for, wherever they lie in it; those about the        *)
(* storage, that no service is in two of its slots, and that registering   *)
(* one puts no other back.  The invariant of the node, NodeInv, counts for *)
(* each service the references that its context has, so that a context     *)
(* dies only when nobody holds it, and says where its queue is.  Where     *)
(* contexts lie in the storage (SlotsInv), and which of them have been     *)
(* through their init (InitInv), is shown for services that are launched   *)
(* one at a time: a doubling of the slots misplaces a context without its  *)
(* handle.                                                                 *)
(***************************************************************************)
EXTENDS Skynet, FiniteSetTheorems, WellFoundedInduction, TLAPS

-----------------------------------------------------------------------------
(* Rings.                                                                   *)

(* The length of a ring is that of what it stands for, and below its size.  *)
LEMMA RingLength ==
  ASSUME NEW M, NEW r, IsRing(r, M)
  PROVE  /\ mq_length(r) \in 0 .. r.cap - 1
         /\ Len(Contents(r)) = mq_length(r)
         /\ DOMAIN Contents(r) = 1 .. mq_length(r)
         /\ Contents(r) \in Seq(M)
         /\ mq_length(r) = 0 <=> IsEmpty(r)
<1>1. /\ mq_length(r) \in 0 .. r.cap - 1
      /\ mq_length(r) = 0 <=> IsEmpty(r)
  BY DEF IsRing, mq_length, IsEmpty
<1>2. \A i \in 1 .. mq_length(r) : Wrap(r, r.head + i - 1) \in 0 .. r.cap - 1
  BY <1>1 DEF IsRing, mq_length, Wrap
<1>3. \A i \in 1 .. mq_length(r) : r.cell[Wrap(r, r.head + i - 1)] \in M
  BY <1>2 DEF IsRing
<1>4. Contents(r) \in [1 .. mq_length(r) -> M]
  BY <1>3 DEF Contents
<1> QED
  BY <1>1, <1>4

(* mq_pop takes the oldest message, and mq_first is that one.               *)
LEMMA PopTakesFirst ==
  ASSUME NEW M, NEW r, IsRing(r, M), 0 \in M, ~IsEmpty(r)
  PROVE  /\ IsRing(mq_pop(r), M)
         /\ Contents(r) # <<>>
         /\ mq_first(r) = Head(Contents(r))
         /\ mq_first(r) \in M
         /\ Contents(mq_pop(r)) = Tail(Contents(r))
<1> DEFINE s == mq_pop(r)
<1>1. /\ s.cap = r.cap /\ s.tail = r.tail
      /\ s.head = IF r.head + 1 = r.cap THEN 0 ELSE r.head + 1
      /\ s.cell = [r.cell EXCEPT ![r.head] = 0]
      /\ s = [cap |-> s.cap, head |-> s.head, tail |-> s.tail, cell |-> s.cell]
  BY DEF IsRing, mq_pop, Wrap
<1>2. IsRing(s, M)
  BY <1>1 DEF IsRing
<1>3. mq_length(r) > 0 /\ mq_length(s) = mq_length(r) - 1
  BY <1>1 DEF IsRing, IsEmpty, mq_length
<1>4. ASSUME NEW i \in 1 .. mq_length(s)
      PROVE  Contents(s)[i] = Contents(r)[i + 1]
  <2> DEFINE c == Wrap(r, r.head + i)
  <2>1. i \in Nat /\ i \in 1 .. mq_length(r) - 1 /\ i + 1 \in 1 .. mq_length(r)
    BY <1>3, RingLength
  <2>2. /\ Wrap(s, s.head + i - 1) = c
        /\ c \in 0 .. r.cap - 1 /\ c # r.head
    <3>1. r.cap \in Nat /\ r.head \in 0 .. r.cap - 1 /\ i < r.cap
      BY <2>1 DEF IsRing, mq_length
    <3>2. s.head + i - 1 = IF r.head + 1 = r.cap THEN i - 1 ELSE r.head + i
      BY <1>1, <2>1, <3>1
    <3> QED
      BY <1>1, <2>1, <3>1, <3>2 DEF Wrap
  <2>3. s.cell[c] = r.cell[c]
    BY <1>1, <2>2 DEF IsRing
  <2>4. r.head + (i + 1) - 1 = r.head + i
    BY <2>1 DEF IsRing
  <2>5. Contents(s)[i] = s.cell[Wrap(s, s.head + i - 1)]
    BY DEF Contents
  <2>6. Contents(r)[i + 1] = r.cell[Wrap(r, r.head + (i + 1) - 1)]
    BY <2>1 DEF Contents
  <2> QED
    BY <2>2, <2>3, <2>4, <2>5, <2>6
<1>5. Contents(s) = Tail(Contents(r))
  <2>1. /\ Contents(s) \in Seq(M) /\ Len(Contents(s)) = mq_length(r) - 1
        /\ DOMAIN Contents(s) = 1 .. mq_length(r) - 1
    BY <1>2, <1>3, RingLength
  <2>2. /\ Contents(r) \in Seq(M) /\ Len(Contents(r)) = mq_length(r)
    BY RingLength
  <2> QED
    BY <1>3, <1>4, <2>1, <2>2
<1>6. mq_first(r) = Contents(r)[1] /\ mq_first(r) \in M
  <2>1. 1 \in 1 .. mq_length(r)
    BY <1>3, RingLength
  <2>2. Wrap(r, r.head + 1 - 1) = r.head
    BY DEF Wrap, IsRing
  <2> QED
    BY <2>1, <2>2 DEF Contents, mq_first, IsRing
<1>7. Contents(r) \in Seq(M) /\ Len(Contents(r)) > 0
  BY <1>3, RingLength
<1>8. Contents(r) # <<>> /\ Head(Contents(r)) = Contents(r)[1]
  BY <1>7
<1> QED
  BY <1>2, <1>5, <1>6, <1>8

(* mq_push adds a message at the end, whether the ring is doubled or not.   *)
LEMMA PushAppends ==
  ASSUME NEW M, NEW r, IsRing(r, M), 0 \in M, NEW m \in M
  PROVE  /\ IsRing(mq_push(r, m), M)
         /\ Contents(mq_push(r, m)) = Append(Contents(r), m)
<1> DEFINE s == [cap |-> r.cap, head |-> r.head, tail |-> Wrap(r, r.tail + 1),
                 cell |-> [r.cell EXCEPT ![r.tail] = m]]
           k == mq_length(r)
           at(i) == IF i = k + 1 THEN m ELSE Contents(r)[i]
<1>1. /\ s.cap = r.cap /\ s.head = r.head
      /\ s.tail = IF r.tail + 1 = r.cap THEN 0 ELSE r.tail + 1
      /\ s.cell = [r.cell EXCEPT ![r.tail] = m]
  BY DEF IsRing, Wrap
<1>2. IsRing(s, M)
  BY <1>1 DEF IsRing
<1> HIDE DEF s
<1>3. /\ k \in 0 .. r.cap - 1
      /\ Contents(r) \in Seq(M) /\ Len(Contents(r)) = k
  BY RingLength
<1>4. /\ s.head # s.tail => mq_length(s) = k + 1
      /\ s.head = s.tail => k + 1 = r.cap
  <2>1. /\ r.cap \in Nat \ {0, 1}
        /\ r.head \in 0 .. r.cap - 1 /\ r.tail \in 0 .. r.cap - 1
    BY DEF IsRing
  <2>2. k = IF r.head <= r.tail THEN r.tail - r.head
            ELSE r.tail + r.cap - r.head
    BY DEF mq_length
  <2>3. mq_length(s) = IF r.head <= s.tail THEN s.tail - r.head
                       ELSE s.tail + r.cap - r.head
    BY <1>1 DEF mq_length
  <2> HIDE DEF k
  <2>4. CASE r.tail + 1 = r.cap
    <3>1. s.tail = 0 /\ s.head = r.head
      BY <1>1, <2>4
    <3> QED
      BY <2>1, <2>2, <2>3, <2>4, <3>1
  <2>5. CASE r.tail + 1 # r.cap
    <3>1. s.tail = r.tail + 1 /\ s.head = r.head
      BY <1>1, <2>5
    <3> QED
      BY <2>1, <2>2, <2>3, <2>5, <3>1
  <2> QED
    BY <2>4, <2>5
(* The messages of r and m after them, where they are in s.                 *)
<1>5. ASSUME NEW i \in 1 .. k + 1
      PROVE  s.cell[Wrap(r, r.head + i - 1)] = at(i)
  <2> DEFINE c == Wrap(r, r.head + i - 1)
  <2>1. i \in Nat
    BY <1>3
  <2>2. CASE i = k + 1
    <3>1. c = r.tail
      <4>1. CASE r.head <= r.tail
        BY <1>3, <2>1, <2>2, <4>1 DEF IsRing, mq_length, Wrap
      <4>2. CASE ~(r.head <= r.tail)
        BY <1>3, <2>1, <2>2, <4>2 DEF IsRing, mq_length, Wrap
      <4> QED
        BY <4>1, <4>2
    <3> QED
      BY <1>1, <2>2, <3>1 DEF IsRing
  <2>3. CASE i # k + 1
    <3>1. i \in 1 .. k
      BY <1>3, <2>1, <2>3
    <3>2. c \in 0 .. r.cap - 1 /\ c # r.tail
      <4>1. CASE r.head <= r.tail
        BY <3>1, <4>1 DEF IsRing, mq_length, Wrap
      <4>2. CASE ~(r.head <= r.tail)
        BY <3>1, <4>2 DEF IsRing, mq_length, Wrap
      <4> QED
        BY <4>1, <4>2
    <3>3. s.cell[c] = r.cell[c]
      BY <1>1, <3>2 DEF IsRing
    <3> QED
      BY <2>3, <3>1, <3>3 DEF Contents
  <2> QED
    BY <2>2, <2>3
<1>6. CASE s.head # s.tail
  <2>1. mq_push(r, m) = s
    BY <1>6 DEF mq_push, s
  <2>2. DOMAIN Contents(s) = 1 .. k + 1 /\ Contents(s) \in Seq(M)
    BY <1>2, <1>4, <1>6, RingLength
  <2>3. \A i \in 1 .. k + 1 : Contents(s)[i] = at(i)
    <3>1. \A i \in 1 .. k + 1 : Wrap(s, s.head + i - 1) = Wrap(r, r.head + i - 1)
      BY <1>1 DEF Wrap
    <3> QED
      BY <1>4, <1>5, <1>6, <3>1 DEF Contents
  <2>4. Contents(s) = Append(Contents(r), m)
    BY <1>3, <2>2, <2>3
  <2> QED
    BY <1>2, <2>1, <2>4
<1>7. CASE s.head = s.tail
  <2> DEFINE t == expand_queue(s)
  <2>1. mq_push(r, m) = t
    BY <1>7 DEF mq_push, s
  <2>2. /\ t.cap = 2 * r.cap /\ t.head = 0 /\ t.tail = r.cap
        /\ t.cell = [i \in 0 .. 2 * r.cap - 1 |->
                       IF i < r.cap THEN s.cell[Wrap(s, r.head + i)] ELSE 0]
        /\ t = [cap |-> t.cap, head |-> t.head, tail |-> t.tail, cell |-> t.cell]
    BY <1>1 DEF expand_queue
  <2>3. \A i \in 0 .. r.cap - 1 : Wrap(s, r.head + i) \in 0 .. r.cap - 1
    BY <1>1 DEF IsRing, Wrap
  <2>4. t.cell \in [0 .. t.cap - 1 -> M]
    <3>1. \A i \in 0 .. r.cap - 1 : s.cell[Wrap(s, r.head + i)] \in M
      BY <1>1, <1>2, <2>3 DEF IsRing
    <3>2. \A i \in 0 .. 2 * r.cap - 1 :
            (IF i < r.cap THEN s.cell[Wrap(s, r.head + i)] ELSE 0) \in M
      BY <3>1 DEF IsRing
    <3> QED
      BY <2>2, <3>2
  <2>5. t.cap \in Nat \ {0, 1} /\ t.head \in 0 .. t.cap - 1 /\ t.tail \in 0 .. t.cap - 1
    BY <2>2 DEF IsRing
  <2>6. IsRing(t, M)
    BY <2>2, <2>4, <2>5 DEF IsRing
  <2>7. mq_length(t) = k + 1
    BY <1>4, <1>7, <2>2 DEF IsRing, mq_length
  <2>8. DOMAIN Contents(t) = 1 .. k + 1 /\ Contents(t) \in Seq(M)
    BY <2>6, <2>7, RingLength
  <2>9. ASSUME NEW i \in 1 .. k + 1
        PROVE  Contents(t)[i] = at(i)
    <3>1. i \in 1 .. r.cap /\ i - 1 \in 0 .. r.cap - 1 /\ i \in Nat
      BY <1>3, <1>4, <1>7
    <3>2. Wrap(t, t.head + i - 1) = i - 1
      BY <2>2, <3>1 DEF Wrap, IsRing
    <3>3. Contents(t)[i] = t.cell[i - 1]
      BY <2>7, <3>2 DEF Contents
    <3>4. t.cell[i - 1] = s.cell[Wrap(s, r.head + (i - 1))]
      BY <2>2, <3>1 DEF IsRing
    <3>5. Wrap(s, r.head + (i - 1)) = Wrap(r, r.head + i - 1)
      BY <1>1, <3>1 DEF Wrap, IsRing
    <3> QED
      BY <1>5, <3>3, <3>4, <3>5
  <2>10. Contents(t) = Append(Contents(r), m)
    BY <1>3, <2>8, <2>9
  <2> QED
    BY <2>1, <2>6, <2>10
<1> QED
  BY <1>6, <1>7

-----------------------------------------------------------------------------
(* Where a thread has a service in new.                                     *)
HasNew == {"new", "init", "failed", "release", "drop"}

(* What FIFO needs to know of a state: the queues are rings, whatever       *)
(* threads have in hand is a service or nothing, and a worker that empties  *)
(* the queue of a dead service does have one.                               *)
RingInv ==
  /\ launched \in 1 .. MaxHandles
  /\ DOMAIN queue = Handles /\ \A h \in Handles : IsRing(queue[h], Ids)
  /\ global \in Seq(Ids)
  /\ q \in [Threads -> Ids]
  /\ dst \in [Threads -> Ids]
  /\ new \in [Threads -> Ids]
  /\ pc \in [Threads -> Labels]
  /\ back \in [Threads -> Labels]
  /\ \A t \in Threads :
       (IF pc[t] \in {"push", "put"} THEN back[t] ELSE pc[t]) \in HasNew
         => new[t] # 0

(* The step that QueuesAreFifo allows.                                      *)
FifoStep ==
  \A h \in Handles :
    LET old == Contents(queue[h])
        now == Contents(queue'[h])
    IN  \/ now = old
        \/ old # <<>> /\ now = Tail(old)
        \/ \E source \in Ids : now = Append(old, source)

LEMMA IdsFacts == Handles \subseteq Ids /\ 0 \in Ids
  BY SkynetAssumption DEF Handles, Ids

LEMMA NewRingIsRing == IsRing(NewRing, Ids)
  BY IdsFacts, QueueSizeAssumption DEF NewRing, IsRing

(* The three things a step may do to the queues.                            *)
LEMMA QueueKept ==
  ASSUME RingInv, queue' = queue
  PROVE  FifoStep
  BY DEF FifoStep

LEMMA QueuePopped ==
  ASSUME RingInv, NEW g \in Ids, g \in Handles => ~IsEmpty(queue[g]),
         queue' = [queue EXCEPT ![g] = mq_pop(@)]
  PROVE  /\ FifoStep
         /\ DOMAIN queue' = Handles
         /\ \A h \in Handles : IsRing(queue'[h], Ids)
<1>1. \A h \in Handles : queue'[h] = IF h = g THEN mq_pop(queue[h]) ELSE queue[h]
  BY DEF RingInv
<1>2. ASSUME g \in Handles
      PROVE  /\ IsRing(mq_pop(queue[g]), Ids)
             /\ Contents(queue[g]) # <<>>
             /\ Contents(mq_pop(queue[g])) = Tail(Contents(queue[g]))
  BY <1>2, IdsFacts, PopTakesFirst DEF RingInv
<1> QED
  BY <1>1, <1>2 DEF RingInv, FifoStep

LEMMA QueuePushed ==
  ASSUME RingInv, NEW g \in Ids, NEW source \in Ids,
         queue' = [queue EXCEPT ![g] = mq_push(@, source)]
  PROVE  /\ FifoStep
         /\ DOMAIN queue' = Handles
         /\ \A h \in Handles : IsRing(queue'[h], Ids)
<1>1. \A h \in Handles :
        queue'[h] = IF h = g THEN mq_push(queue[h], source) ELSE queue[h]
  BY DEF RingInv
<1>2. ASSUME NEW h \in Handles
      PROVE  /\ IsRing(mq_push(queue[h], source), Ids)
             /\ Contents(mq_push(queue[h], source)) = Append(Contents(queue[h]), source)
  BY IdsFacts, PushAppends DEF RingInv
<1> QED
  BY <1>1, <1>2 DEF RingInv, FifoStep

(* Giving back a reference may put the service in the global queue.         *)
LEMMA ReleaseKeepsGlobal ==
  ASSUME RingInv, NEW g \in Ids, Release(g)
  PROVE  global' \in Seq(Ids)
<1>1. Append(global, g) \in Seq(Ids)
  BY DEF RingInv
<1>2. global' = global \/ global' = Append(global, g)
  BY DEF Release, MarkRelease
<1> QED
  BY <1>1, <1>2 DEF RingInv

LEMMA GlobalTail ==
  ASSUME RingInv, global # <<>>
  PROVE  Head(global) \in Ids /\ Tail(global) \in Seq(Ids)
  BY DEF RingInv

-----------------------------------------------------------------------------
LEMMA RingInit == Init => RingInv
<1> SUFFICES ASSUME Init PROVE RingInv
  OBVIOUS
<1>1. launched \in 1 .. MaxHandles
  BY SkynetAssumption DEF Init
<1>2. /\ IsRing(mq_push(NewRing, 1), Ids)
      /\ 1 \in Handles
  BY IdsFacts, NewRingIsRing, PushAppends, SkynetAssumption DEF Handles
<1>3. DOMAIN queue = Handles /\ \A h \in Handles : IsRing(queue[h], Ids)
  BY <1>2, NewRingIsRing DEF Init
<1>4. global \in Seq(Ids)
  BY <1>2, IdsFacts DEF Init
<1> QED
  BY <1>1, <1>3, <1>4, IdsFacts DEF Init, RingInv, HasNew, Labels

(* A step of a worker.                                                      *)
LEMMA WorkStep ==
  ASSUME RingInv, NEW w \in Workers, Work(w)
  PROVE  RingInv' /\ FifoStep
<1> USE IdsFacts
<1>0. w \in Threads /\ q[w] \in Ids /\ new[w] \in Ids /\ dst[w] \in Ids
  BY DEF Threads, RingInv, Goto, HasNew, Labels
<1>1. CASE GlobalPop(w)
  BY <1>0, <1>1, QueueKept, GlobalTail DEF GlobalPop, RingInv, Goto, HasNew, Labels, storage, queues
<1>2. CASE Sleep(w) \/ Quit(w) \/ Return(w)
  BY <1>2, QueueKept DEF Sleep, Quit, Return, RingInv, Goto, HasNew, Labels, storage, queues
<1>3. CASE BeginTurn(w)
  BY <1>0, <1>3, QueueKept DEF BeginTurn, RingInv, Goto, HasNew, Labels, storage, queues
<1>4. CASE Empty(w)
  BY <1>4, QueueKept DEF Empty, RingInv, Goto, HasNew, Labels, storage
<1>5. CASE Dispatch(w)
  <2>1. /\ FifoStep
        /\ DOMAIN queue' = Handles
        /\ \A h \in Handles : IsRing(queue'[h], Ids)
    BY <1>0, <1>5, QueuePopped DEF Dispatch
  <2> QED
    BY <1>5, <2>1 DEF Dispatch, RingInv, Goto, HasNew, Labels, storage
<1>6. CASE Yield(w)
  <2>1. UNCHANGED queue
    BY <1>6 DEF Yield
  <2>2. FifoStep
    BY <2>1, QueueKept
  <2>3. global' \in Seq(Ids)
    BY <1>6, GlobalTail DEF Yield, RingInv
  <2>4. PICK g \in Ids : new' = [new EXCEPT ![w] = g]
    BY <1>0, <1>6, GlobalTail DEF Yield
  <2>5. PICK l \in {"turned", "requeue"} : pc' = [pc EXCEPT ![w] = l]
    BY <1>6 DEF Yield, Goto
  <2>6. UNCHANGED <<launched, queue, q, dst, back>>
    BY <1>6 DEF Yield, storage
  <2>7. RingInv'
    BY <1>0, <2>3, <2>4, <2>5, <2>6 DEF RingInv, HasNew, Labels
  <2> QED
    BY <2>2, <2>7
<1>7. CASE Requeue(w)
  BY <1>0, <1>7, QueueKept DEF Requeue, RingInv, Goto, HasNew, Labels, storage
<1>8. CASE EndTurn(w)
  <2>1. global' \in Seq(Ids)
    BY <1>0, <1>8, ReleaseKeepsGlobal DEF EndTurn
  <2> QED
    BY <1>0, <1>8, <2>1, QueueKept DEF EndTurn, RingInv, Goto, HasNew, Labels
<1>9. CASE Create(w)
  BY <1>9, QueueKept DEF Create, RingInv, Goto, HasNew, Labels
<1>10. CASE Launched(w)
  <2>1. global' \in Seq(Ids)
    BY <1>0, <1>10, ReleaseKeepsGlobal DEF Launched
  <2> QED
    BY <1>10, <2>1, QueueKept DEF Launched, RingInv, Goto, HasNew, Labels
<1>11. CASE Flag(w)
  BY <1>11, QueueKept DEF Flag, RingInv, Goto, HasNew, Labels, queues
<1>12. CASE Start(w)
  BY <1>0, <1>12, QueueKept DEF Start, RingInv, Goto, HasNew, Labels, storage
<1>13. CASE RetireFailed(w)
  BY <1>0, <1>13, QueueKept DEF RetireFailed, Retire, Take, RingInv, Goto, HasNew, Labels, queues
<1>14. CASE ReleaseQueue(w)
  <2>1. CASE release[new[w]]
    BY <1>14, <2>1, QueueKept
    DEF ReleaseQueue, RingInv, Goto, HasNew, Labels, storage
  <2>2. CASE ~release[new[w]]
    <3>1. global' \in Seq(Ids)
      <4>1. Append(global, new[w]) \in Seq(Ids)
        BY <1>0 DEF RingInv
      <4>2. global' = Append(global, new[w])
        BY <1>14, <2>2 DEF ReleaseQueue
      <4> QED
        BY <4>1, <4>2
    <3> QED
      BY <1>0, <1>14, <2>2, <3>1, QueueKept
      DEF ReleaseQueue, Resume, RingInv, Goto, HasNew, Labels, storage
  <2> QED
    BY <2>1, <2>2
<1>15. CASE Drop(w)
  <2>1. /\ FifoStep
        /\ DOMAIN queue' = Handles
        /\ \A h \in Handles : IsRing(queue'[h], Ids)
    BY <1>0, <1>15, QueuePopped DEF Drop
  <2> DEFINE source == mq_first(queue[new[w]])
  <2>2. CASE source # 0 /\ Found(source)
    <3>1. new[w] \in Handles
      <4>1. pc[w] \in HasNew /\ pc[w] \notin {"push", "put"}
        BY <1>15 DEF Drop, HasNew
      <4>2. new[w] # 0
        BY <1>0, <4>1 DEF RingInv
      <4> QED
        BY <1>0, <4>2, SkynetAssumption DEF Handles, Ids
    <3>2. source \in Ids
      BY <1>15, <3>1, PopTakesFirst DEF Drop, RingInv, Goto, HasNew, Labels
    <3> QED
      BY <1>0, <1>15, <2>1, <2>2, <3>1, <3>2 DEF Drop, Take, RingInv, Goto, HasNew, Labels
  <2>3. CASE ~(source # 0 /\ Found(source))
    BY <1>15, <2>1, <2>3 DEF Drop, RingInv, Goto, HasNew, Labels
  <2> QED
    BY <2>2, <2>3
<1>16. CASE FreeQueue(w)
  BY <1>16, QueueKept DEF FreeQueue, Resume, RingInv, Goto, HasNew, Labels, storage
<1> QED
  BY <1>1, <1>2, <1>3, <1>4, <1>5, <1>6, <1>7, <1>8, <1>9, <1>10, <1>11,
     <1>12, <1>13, <1>14, <1>15, <1>16 DEF Work

(* What a callback may do.                                                  *)
LEMMA CommandStep ==
  ASSUME RingInv, NEW w \in Workers, Command(w)
  PROVE  RingInv' /\ FifoStep
<1> USE IdsFacts
<1>0. w \in Threads /\ new[w] \in Ids
  BY DEF Threads, RingInv
<1>1. ASSUME NEW h \in Handles, Kill(w, h)
      PROVE  RingInv' /\ FifoStep
  BY <1>0, <1>1, QueueKept DEF Kill, Retire, Take, RingInv, Goto, HasNew, Labels, queues
<1>2. CASE Launch(w)
  <2>1. launched' \in 1 .. MaxHandles /\ launched' \in Ids \ {0}
    BY <1>2, SkynetAssumption DEF Launch, RingInv, Ids
  <2>2. new' = [new EXCEPT ![w] = launched']
    BY <1>2 DEF Launch
  <2>3. FifoStep
    BY <1>2, QueueKept DEF Launch, queues
  <2> QED
    BY <1>0, <1>2, <2>1, <2>2, <2>3 DEF Launch, RingInv, Goto, HasNew, Labels, queues
<1>3. CASE LaunchFailed(w)
  <2>1. global' \in Seq(Ids)
    BY <1>0, <1>3, ReleaseKeepsGlobal DEF LaunchFailed
  <2> QED
    BY <1>0, <1>3, <2>1, QueueKept DEF LaunchFailed, RingInv, Goto, HasNew, Labels
<1> QED
  BY <1>1, <1>2, <1>3 DEF Command

(* Sending, by any thread.                                                  *)
LEMMA SendStep ==
  ASSUME RingInv, NEW t \in Threads, NEW h \in Handles, Send(t, h)
  PROVE  RingInv' /\ FifoStep
<1>1. pc[t] \in Labels /\ pc[t] \notin {"push", "put"}
  BY DEF Send, Sends, RingInv
<1> QED
  BY <1>1, IdsFacts, QueueKept
  DEF Send, Take, Goto, RingInv, HasNew, Labels, queues

LEMMA DeliverStep ==
  ASSUME RingInv, NEW t \in Threads, Deliver(t)
  PROVE  RingInv' /\ FifoStep
<1> USE IdsFacts
<1>0. dst[t] \in Ids /\ new[t] \in Ids /\ q[t] \in Ids
  BY DEF RingInv
<1>1. CASE PushMessage(t)
  <2> DEFINE source == IF back[t] = "drop" THEN new[t] ELSE Source(t)
  <2>1. source \in Ids
    BY <1>0 DEF Source
  <2>2. queue' = [queue EXCEPT ![dst[t]] = mq_push(@, source)]
    BY <1>1 DEF PushMessage, Push
  <2>3. /\ FifoStep
        /\ DOMAIN queue' = Handles
        /\ \A h \in Handles : IsRing(queue'[h], Ids)
    BY <1>0, <2>1, <2>2, QueuePushed
  <2>4. global' \in Seq(Ids)
    <3>1. Append(global, dst[t]) \in Seq(Ids)
      BY <1>0 DEF RingInv
    <3>2. global' = global \/ global' = Append(global, dst[t])
      BY <1>1 DEF PushMessage, Push
    <3> QED
      BY <3>1, <3>2 DEF RingInv
  <2> QED
    BY <1>1, <2>3, <2>4 DEF PushMessage, Goto, RingInv, HasNew, Labels, storage
<1>2. CASE Put(t)
  <2>1. global' \in Seq(Ids)
    BY <1>0, <1>2, ReleaseKeepsGlobal DEF Put
  <2> QED
    BY <1>2, <2>1, QueueKept DEF Put, Goto, RingInv, HasNew, Labels
<1> QED
  BY <1>1, <1>2 DEF Deliver

(* The loops of timer and socket thread.                                    *)
LEMMA LoopStep ==
  ASSUME RingInv, TimerTick \/ SocketWakeup \/ SocketExit
  PROVE  RingInv' /\ FifoStep
<1>1. /\ pc' \in [Threads -> Labels]
      /\ \A t \in Threads : pc'[t] \in {pc[t], "done", "top"}
  BY DEF TimerTick, SocketWakeup, SocketExit, Signal, Goto, RingInv, Labels
<1>2. \A t \in Threads : pc'[t] # pc[t] => pc'[t] \in {"done", "top"}
  BY <1>1
<1>3. UNCHANGED <<launched, queue, global, q, dst, new, back>>
  BY DEF TimerTick, SocketWakeup, SocketExit, storage, queues
<1> QED
  BY <1>1, <1>2, <1>3, QueueKept DEF RingInv, HasNew

LEMMA RingNext == RingInv /\ [Next]_vars => RingInv' /\ [FifoStep]_vars
<1> SUFFICES ASSUME RingInv, [Next]_vars
             PROVE  RingInv' /\ [FifoStep]_vars
  OBVIOUS
<1>1. CASE Next
  BY <1>1, WorkStep, CommandStep, SendStep, DeliverStep, LoopStep DEF Next
<1>2. CASE UNCHANGED vars
  BY <1>2 DEF vars, storage, queues, threads, RingInv, HasNew
<1> QED
  BY <1>1, <1>2

(* A queue is first in, first out, whatever the threads do, and however     *)
(* often its ring is doubled or goes round: QueuesAreFifo.                  *)
THEOREM QueuesFifo == Spec => QueuesAreFifo
<1>1. Spec => [][FifoStep]_vars
  BY RingInit, RingNext, PTL DEF Spec
<1> QED
  BY <1>1 DEF QueuesAreFifo, FifoStep

-----------------------------------------------------------------------------
(* Arithmetic for handle % slot_size.                                       *)
LEMMA Quotient ==
  ASSUME NEW x \in Nat, NEW s \in Nat \ {0}
  PROVE  \E a \in Nat : x = a * s + (x % s)
<1>1. x \div s \in Nat
  OBVIOUS
<1>2. x = (x \div s) * s + (x % s)
  BY SMT
<1> QED
  BY <1>1, <1>2

(* The remainder is the one that fits.                                      *)
LEMMA ModUnique ==
  ASSUME NEW x \in Nat, NEW s \in Nat \ {0}, NEW a \in Int, NEW r \in 0 .. s - 1,
         x = a * s + r
  PROVE  x % s = r
  OBVIOUS

(* A multiple of s * f is one of s.                                         *)
LEMMA Nested ==
  ASSUME NEW a \in Nat, NEW f \in Nat, NEW s \in Nat, NEW c \in Nat, NEW r \in Int
  PROVE  f * a + c \in Nat /\ a * (s * f) + (c * s + r) = (f * a + c) * s + r
  OBVIOUS

(* A remainder modulo a multiple of s keeps the remainder modulo s.         *)
LEMMA ModOfMod ==
  ASSUME NEW x \in Nat, NEW s \in Nat \ {0}, NEW f \in Nat \ {0}
  PROVE  (x % (s * f)) % s = x % s
<1> DEFINE y == x % (s * f)
           r == y % s
<1>1. s * f \in Nat \ {0}
  OBVIOUS
<1>2. y \in Nat
  BY <1>1
<1>3. PICK a \in Nat : x = a * (s * f) + y
  BY <1>1, Quotient
<1>4. PICK c \in Nat : y = c * s + r
  BY <1>2, Quotient
<1>5. r \in 0 .. s - 1
  BY <1>2
<1> HIDE DEF y, r
<1>6. f * a + c \in Nat /\ x = (f * a + c) * s + r
  BY <1>3, <1>4, <1>5, Nested
<1>7. x % s = r
  BY <1>5, <1>6, ModUnique
<1> QED
  BY <1>7 DEF y, r

(* A set of numbers has its least one.                                      *)
LEMMA MinIn ==
  ASSUME NEW S \in SUBSET Nat, S # {}
  PROVE  Min(S) \in S
<1> DEFINE R == {p \in Nat \X Nat : p[1] < p[2]}
<1>1. IsWellFoundedOn(R, Nat)
  BY NatLessThanWellFounded DEF OpToRel
<1>2. PICK x \in S : \A y \in S : <<y, x>> \notin R
  <2> HIDE DEF R
  <2> QED BY <1>1, WFMin
<1>3. ASSUME NEW y \in S, y < x
      PROVE  FALSE
  <2> DEFINE p == <<y, x>>
  <2>1. p \in Nat \X Nat /\ p[1] = y /\ p[2] = x
    OBVIOUS
  <2> HIDE DEF p
  <2>2. p \in R
    BY <1>3, <2>1
  <2> QED
    BY <1>2, <2>2 DEF p
<1>4. \A y \in S : x <= y
  BY <1>3
<1> QED
  BY <1>4 DEF Min

-----------------------------------------------------------------------------
(* The handle storage.                                                      *)

(* A storage of the contexts up to k, each in at most one slot, with a size *)
(* that divides the number of handles.                                      *)
GoodStorage(T, k) ==
  /\ IsStorage(T, 1 .. k)
  /\ \A i, j \in DOMAIN T.slot : T.slot[i] # 0 /\ T.slot[i] = T.slot[j] => i = j
  /\ \E f \in Nat \ {0} : HANDLE_MASK + 1 = T.slot_size * f

(* Each context is in the slot that its handle says.                        *)
Sorted(T, hd) ==
  \A i \in DOMAIN T.slot : T.slot[i] # 0 => i = hd[T.slot[i]] % T.slot_size

(* How many slots, and how many services, there are.                        *)
LEMMA FirstNumbers ==
  ASSUME NEW m \in Nat
  PROVE  /\ IsFiniteSet(0 .. m - 1) /\ Cardinality(0 .. m - 1) = m
         /\ IsFiniteSet(1 .. m) /\ Cardinality(1 .. m) = m
<1>1. 0 \in Int /\ 1 \in Int /\ m \in Int /\ m - 1 \in Int
  OBVIOUS
<1>2. /\ IsFiniteSet(0 .. m - 1)
      /\ Cardinality(0 .. m - 1) = IF 0 > m - 1 THEN 0 ELSE (m - 1) - 0 + 1
  BY <1>1, FS_Interval
<1>3. /\ IsFiniteSet(1 .. m)
      /\ Cardinality(1 .. m) = IF 1 > m THEN 0 ELSE m - 1 + 1
  BY <1>1, FS_Interval
<1> QED
  BY <1>2, <1>3

(* More than there are places for: two share one.                           *)
LEMMA Pigeons ==
  ASSUME NEW A, NEW B, IsFiniteSet(A), IsFiniteSet(B),
         Cardinality(B) < Cardinality(A), NEW f \in [A -> B]
  PROVE  \E x, y \in A : x # y /\ f[x] = f[y]
  BY FS_PigeonHole

(* Every slot is that of some candidate.                                    *)
LEMMA SlotsCovered ==
  ASSUME NEW k, NEW T, GoodStorage(T, k), NEW j \in 0 .. T.slot_size - 1
  PROVE  \E i \in 0 .. T.slot_size - 1 : Candidate(T, i) % T.slot_size = j
<1> DEFINE s == T.slot_size
           x == T.handle_index % s
           i == IF j >= x THEN j - x ELSE j - x + s
<1>1. s \in Nat \ {0} /\ T.handle_index \in Nat /\ j \in 0 .. s - 1
  BY HandleAssumption DEF GoodStorage, IsStorage
<1>2. PICK f \in Nat \ {0} : HANDLE_MASK + 1 = s * f
  BY DEF GoodStorage
<1>3. PICK a \in Nat : T.handle_index = a * s + x
  BY <1>1, Quotient
<1>4. x \in 0 .. s - 1
  BY <1>1
<1>5. Candidate(T, i) = (i + T.handle_index) % (s * f)
  BY <1>2 DEF Candidate
<1> HIDE DEF s, x
<1>6. i \in 0 .. s - 1
  BY <1>1, <1>4
<1>7. i + T.handle_index = a * s + j \/ i + T.handle_index = (a + 1) * s + j
  BY <1>1, <1>3, <1>4
<1> HIDE DEF i
<1>8. PICK y \in Nat : y = i + T.handle_index
  BY <1>1, <1>6
<1>9. PICK b \in Nat : y = b * s + j
  BY <1>3, <1>7, <1>8
<1>10. y % s = j
  BY <1>1, <1>9, ModUnique
<1>11. (y % (s * f)) % s = j
  BY <1>1, <1>2, <1>10, ModOfMod
<1>12. Candidate(T, i) % s = j
  BY <1>5, <1>8, <1>11
<1> QED
  BY <1>6, <1>12 DEF s

(* A storage without a free slot has no more slots than contexts.           *)
LEMMA FullStorage ==
  ASSUME NEW k \in Nat, NEW T, GoodStorage(T, k), FreeSteps(T) = {}
  PROVE  T.slot_size <= k
<1> DEFINE s == T.slot_size
<1>1. s \in Nat \ {0} /\ T.slot \in [0 .. s - 1 -> (1 .. k) \cup {0}]
  BY DEF GoodStorage, IsStorage
<1>2. ASSUME NEW j \in 0 .. s - 1 PROVE T.slot[j] # 0
  <2>1. PICK i \in 0 .. s - 1 : Candidate(T, i) % s = j
    BY SlotsCovered
  <2> QED
    BY <2>1 DEF FreeSteps
<1>3. T.slot \in [0 .. s - 1 -> 1 .. k]
  BY <1>1, <1>2
<1>4. /\ IsFiniteSet(0 .. s - 1) /\ Cardinality(0 .. s - 1) = s
      /\ IsFiniteSet(1 .. k) /\ Cardinality(1 .. k) = k
  BY <1>1, FirstNumbers
<1>5. \A i, j \in 0 .. s - 1 : T.slot[i] = T.slot[j] => i = j
  BY <1>1, <1>2 DEF GoodStorage
<1> HIDE DEF s
<1>6. ASSUME k < s PROVE FALSE
  <2>1. Cardinality(1 .. k) < Cardinality(0 .. s - 1)
    BY <1>4, <1>6
  <2>2. PICK A, B : A = 0 .. s - 1 /\ B = 1 .. k
    OBVIOUS
  <2>3. \E x, y \in A : x # y /\ T.slot[x] = T.slot[y]
    <3>1. IsFiniteSet(A) /\ IsFiniteSet(B) /\ Cardinality(B) < Cardinality(A)
      BY <1>4, <2>1, <2>2
    <3>2. T.slot \in [A -> B]
      BY <1>3, <2>2
    <3> QED
      BY <3>1, <3>2, Pigeons
  <2> QED
    BY <1>5, <2>2, <2>3
<1> QED
  BY <1>1, <1>6 DEF s

(* One that is doubled has room.                                            *)
LEMMA Doubled ==
  ASSUME NEW k \in 0 .. HANDLE_MASK, NEW T, GoodStorage(T, k), FreeSteps(T) = {},
         NEW hd, \A c \in 1 .. k : hd[c] \in Nat
  PROVE  /\ GoodStorage(double_slots(T, hd), k)
         /\ FreeSteps(double_slots(T, hd)) # {}
         /\ \A c : c # 0 /\ InStorage(double_slots(T, hd), c) => InStorage(T, c)
<1> DEFINE s == T.slot_size
           D == double_slots(T, hd)
           under(j) == {c \in Range(T.slot) \ {0} : hd[c] % (2 * s) = j}
<1>1. s \in Nat \ {0} /\ T.slot \in [0 .. s - 1 -> (1 .. k) \cup {0}]
  BY DEF GoodStorage, IsStorage
<1>2. /\ D.slot_size = 2 * s /\ D.handle_index = T.handle_index
      /\ D = [slot_size |-> D.slot_size, handle_index |-> D.handle_index,
              slot |-> D.slot]
      /\ D.slot = [j \in 0 .. 2 * s - 1 |->
                     IF under(j) = {} THEN 0 ELSE CHOOSE c \in under(j) : TRUE]
  <2>1. PICK m : m = [j \in 0 .. 2 * s - 1 |->
                       IF under(j) = {} THEN 0 ELSE CHOOSE c \in under(j) : TRUE]
    OBVIOUS
  <2>2. D = [T EXCEPT !.slot_size = 2 * s, !.slot = m]
    BY <2>1 DEF double_slots
  <2>3. T = [slot_size |-> T.slot_size, handle_index |-> T.handle_index,
             slot |-> T.slot]
    BY DEF GoodStorage, IsStorage
  <2> HIDE DEF D, under, s
  <2>4. D = [slot_size |-> 2 * s, handle_index |-> T.handle_index, slot |-> m]
    BY <2>2, <2>3
  <2> QED
    BY <2>1, <2>4
<1>0. PICK f \in Nat \ {0} : HANDLE_MASK + 1 = s * f
  BY DEF GoodStorage
<1>6. s <= k
  BY FullStorage
<1> HIDE DEF D, s
<1>3. ASSUME NEW j \in 0 .. 2 * s - 1, D.slot[j] # 0
      PROVE  /\ \E i \in 0 .. s - 1 : T.slot[i] = D.slot[j]
             /\ D.slot[j] \in 1 .. k
             /\ hd[D.slot[j]] % (2 * s) = j
  <2>1. D.slot[j] = IF under(j) = {} THEN 0 ELSE CHOOSE c \in under(j) : TRUE
    BY <1>2
  <2>2. D.slot[j] \in under(j)
    BY <1>3, <2>1
  <2>3. D.slot[j] \in Range(T.slot) \ {0} /\ hd[D.slot[j]] % (2 * s) = j
    BY <2>2
  <2>4. PICK i \in DOMAIN T.slot : D.slot[j] = T.slot[i]
    BY <2>3 DEF Range
  <2> QED
    BY <1>1, <1>3, <2>3, <2>4
<1> HIDE DEF under
<1>4. D.slot \in [0 .. 2 * s - 1 -> (1 .. k) \cup {0}]
  <2>1. \A j \in 0 .. 2 * s - 1 : D.slot[j] \in (1 .. k) \cup {0}
    BY <1>3
  <2>2. DOMAIN D.slot = 0 .. 2 * s - 1 /\ D.slot = [j \in 0 .. 2 * s - 1 |-> D.slot[j]]
    BY <1>2
  <2> QED
    BY <2>1, <2>2
<1>5. \A i, j \in DOMAIN D.slot : D.slot[i] # 0 /\ D.slot[i] = D.slot[j] => i = j
  BY <1>3, <1>4
<1>7. \E g \in Nat \ {0} : HANDLE_MASK + 1 = (2 * s) * g
  <2>1. HANDLE_MASK + 1 = s * f
    BY <1>0
  <2>2. HANDLE_MASK + 1 \in Nat /\ k < HANDLE_MASK + 1
    BY HandleAssumption
  <2>3. f # 1
    BY <1>1, <1>6, <2>1, <2>2
  <2>4. s * f >= f
    BY <1>1
  <2>5. f \in 2 .. HANDLE_MASK + 1
    BY <2>1, <2>2, <2>3, <2>4
  <2>6. (HANDLE_MASK + 1) % f = 0
    <3>1. HANDLE_MASK + 1 = s * f + 0 /\ 0 \in 0 .. f - 1 /\ s \in Int
      BY <1>1, <2>1, <2>2
    <3> QED
      BY <2>2, <3>1, ModUnique
  <2>7. f % 2 = 0
    BY <2>5, <2>6, HandleAssumption
  <2>8. PICK g \in Nat : f = g * 2 + (f % 2)
    BY SMT
  <2>9. f = 2 * g /\ g # 0
    BY <2>7, <2>8
  <2>10. s * f = (2 * s) * g
    BY <1>1, <2>9
  <2> QED
    BY <2>1, <2>9, <2>10
<1>8. GoodStorage(D, k)
  <2>1. D.handle_index \in 1 .. HANDLE_MASK + 1
    BY <1>2 DEF GoodStorage, IsStorage
  <2>2. D.slot_size \in Nat \ {0}
    BY <1>1, <1>2
  <2>3. IsStorage(D, 1 .. k)
    BY <1>2, <1>4, <2>1, <2>2 DEF IsStorage
  <2> QED
    BY <1>2, <1>5, <1>7, <2>3 DEF GoodStorage
<1>9. PICK j \in 0 .. 2 * s - 1 : D.slot[j] = 0
  <2> SUFFICES ASSUME \A j \in 0 .. 2 * s - 1 : D.slot[j] # 0 PROVE FALSE
    OBVIOUS
  <2> DEFINE at == [j \in 0 .. 2 * s - 1 |->
                      CHOOSE i \in 0 .. s - 1 : T.slot[i] = D.slot[j]]
  <2>1. \A j \in 0 .. 2 * s - 1 : at[j] \in 0 .. s - 1 /\ T.slot[at[j]] = D.slot[j]
    BY <1>3
  <2>2. at \in [0 .. 2 * s - 1 -> 0 .. s - 1]
    BY <2>1
  <2> HIDE DEF at
  <2>3. /\ IsFiniteSet(0 .. s - 1) /\ Cardinality(0 .. s - 1) = s
        /\ IsFiniteSet(0 .. 2 * s - 1) /\ Cardinality(0 .. 2 * s - 1) = 2 * s
    BY <1>1, FirstNumbers
  <2>4. s < 2 * s
    BY <1>1
  <2>5. PICK A, B : A = 0 .. 2 * s - 1 /\ B = 0 .. s - 1
    OBVIOUS
  <2>6. PICK x, y \in A : x # y /\ at[x] = at[y]
    <3>1. IsFiniteSet(A) /\ IsFiniteSet(B) /\ Cardinality(B) < Cardinality(A)
      BY <2>3, <2>4, <2>5
    <3>2. at \in [A -> B]
      BY <2>2, <2>5
    <3> QED
      BY <3>1, <3>2, Pigeons
  <2>7. x \in 0 .. 2 * s - 1 /\ y \in 0 .. 2 * s - 1 /\ x # y
    BY <2>5, <2>6
  <2>8. D.slot[x] = D.slot[y]
    BY <2>1, <2>6, <2>7
  <2> QED
    BY <1>3, <2>7, <2>8
<1>10. FreeSteps(D) # {}
  <2>1. j \in 0 .. D.slot_size - 1
    BY <1>2
  <2>2. PICK i \in 0 .. D.slot_size - 1 : Candidate(D, i) % D.slot_size = j
    BY <1>8, <2>1, SlotsCovered
  <2> QED
    BY <1>9, <2>2 DEF FreeSteps
<1>11. \A c : c # 0 /\ InStorage(D, c) => InStorage(T, c)
  BY <1>1, <1>3, <1>4 DEF InStorage
<1> QED
  BY <1>8, <1>10, <1>11 DEF D

(* If contexts are where their handles say, none of them is lost: two that  *)
(* go to one slot come from one.                                            *)
LEMMA DoubledKeeps ==
  ASSUME NEW k \in Nat, NEW T, GoodStorage(T, k),
         NEW hd, \A c \in 1 .. k : hd[c] \in Nat, Sorted(T, hd)
  PROVE  /\ Sorted(double_slots(T, hd), hd)
         /\ \A c \in 1 .. k : InStorage(T, c) => InStorage(double_slots(T, hd), c)
         /\ NoCollision(T, hd)
<1> DEFINE under(j) == {c \in Range(T.slot) \ {0} : hd[c] % (2 * T.slot_size) = j}
<1>1. PICK s : s = T.slot_size
  OBVIOUS
<1>2. s \in Nat \ {0} /\ T.slot \in [0 .. s - 1 -> (1 .. k) \cup {0}]
  BY <1>1 DEF GoodStorage, IsStorage
<1>3. PICK D : D = double_slots(T, hd)
  OBVIOUS
<1>4. /\ D.slot_size = 2 * s
      /\ D.slot = [j \in 0 .. 2 * s - 1 |->
                     IF under(j) = {} THEN 0 ELSE CHOOSE c \in under(j) : TRUE]
  <2>1. PICK m : m = [j \in 0 .. 2 * s - 1 |->
                       IF under(j) = {} THEN 0 ELSE CHOOSE c \in under(j) : TRUE]
    OBVIOUS
  <2>2. D = [T EXCEPT !.slot_size = 2 * s, !.slot = m]
    BY <1>1, <1>3, <2>1 DEF double_slots
  <2>3. T = [slot_size |-> T.slot_size, handle_index |-> T.handle_index,
             slot |-> T.slot]
    BY DEF GoodStorage, IsStorage
  <2> HIDE DEF under
  <2>4. D = [slot_size |-> 2 * s, handle_index |-> T.handle_index, slot |-> m]
    BY <2>2, <2>3
  <2> QED
    BY <2>1, <2>4
<1>5. ASSUME NEW c \in Range(T.slot) \ {0}
      PROVE  /\ c \in 1 .. k /\ hd[c] \in Nat
             /\ hd[c] % (2 * s) \in 0 .. 2 * s - 1
             /\ hd[c] % s \in 0 .. s - 1 /\ T.slot[hd[c] % s] = c
             /\ (hd[c] % (2 * s)) % s = hd[c] % s
  <2>1. PICK i \in 0 .. s - 1 : c = T.slot[i] /\ c # 0
    BY <1>2 DEF Range
  <2>2. c \in 1 .. k /\ hd[c] \in Nat
    BY <1>2, <2>1
  <2>3. i = hd[c] % s
    BY <1>1, <1>2, <2>1 DEF Sorted
  <2>4. (hd[c] % (s * 2)) % s = hd[c] % s
    BY <1>2, <2>2, ModOfMod
  <2>5. s * 2 = 2 * s /\ 2 * s \in Nat \ {0}
    BY <1>2
  <2>6. hd[c] % (2 * s) \in 0 .. 2 * s - 1
    <3>1. PICK x \in Nat, r \in Nat \ {0} : x = hd[c] /\ r = 2 * s
      BY <2>2, <2>5
    <3>2. x % r \in 0 .. r - 1
      OBVIOUS
    <3> QED
      BY <3>1, <3>2
  <2> QED
    BY <2>1, <2>2, <2>3, <2>4, <2>5, <2>6
<1>6. ASSUME NEW c \in Range(T.slot) \ {0}, NEW d \in Range(T.slot) \ {0},
             hd[c] % (2 * s) = hd[d] % (2 * s)
      PROVE  c = d
  <2>1. hd[c] % s = hd[d] % s
    BY <1>5, <1>6
  <2> QED
    BY <1>5, <2>1
<1>7. NoCollision(T, hd)
  BY <1>1, <1>6 DEF NoCollision
<1>8. ASSUME NEW j \in 0 .. 2 * s - 1, NEW c \in under(j)
      PROVE  under(j) = {c}
  BY <1>1, <1>6
<1>9. Sorted(D, hd)
  <2> SUFFICES ASSUME NEW j \in DOMAIN D.slot, D.slot[j] # 0
               PROVE  j = hd[D.slot[j]] % D.slot_size
    BY DEF Sorted
  <2>1. j \in 0 .. 2 * s - 1
    BY <1>4
  <2>2. D.slot[j] = IF under(j) = {} THEN 0 ELSE CHOOSE c \in under(j) : TRUE
    BY <1>4, <2>1
  <2>3. D.slot[j] \in under(j)
    BY <2>2
  <2> QED
    BY <1>1, <1>4, <2>3
<1>10. ASSUME NEW c \in 1 .. k, InStorage(T, c)
       PROVE  InStorage(D, c)
  <2>1. c \in Range(T.slot) \ {0}
    BY <1>10 DEF InStorage, Range
  <2>2. PICK j : j = hd[c] % (2 * s)
    OBVIOUS
  <2>3. j \in 0 .. 2 * s - 1 /\ c \in under(j)
    BY <1>1, <1>5, <2>1, <2>2
  <2>4. under(j) = {c}
    BY <1>8, <2>3
  <2>5. D.slot[j] = CHOOSE d \in {c} : TRUE
    BY <1>4, <2>3, <2>4
  <2>6. D.slot[j] = c /\ j \in DOMAIN D.slot
    BY <1>4, <2>3, <2>5
  <2> QED
    BY <2>6 DEF InStorage
<1> QED
  BY <1>3, <1>7, <1>9, <1>10

(* Where a registration puts context c: into the slot at, which is free and *)
(* which its handle says.                                                   *)
PutAt(S, reg, c, at) ==
  /\ at \in 0 .. S.slot_size - 1 /\ S.slot[at] = 0
  /\ reg.handle \in 0 .. HANDLE_MASK /\ at = reg.handle % S.slot_size
  /\ reg.storage.slot_size = S.slot_size
  /\ reg.storage.handle_index = reg.handle + 1
  /\ reg.storage.slot = [S.slot EXCEPT ![at] = c]
  /\ reg.storage = [slot_size |-> reg.storage.slot_size,
                    handle_index |-> reg.storage.handle_index,
                    slot |-> reg.storage.slot]

(* The storage it puts it into: doubled when it was full.                   *)
Roomy(T, hd) == IF FreeSteps(T) = {} THEN double_slots(T, hd) ELSE T

LEMMA RegisteredAt ==
  ASSUME NEW k \in Nat, NEW T, NEW hd,
         NEW S, S = Roomy(T, hd),
         GoodStorage(S, k), FreeSteps(S) # {}
  PROVE  \E at : PutAt(S, skynet_handle_register(T, hd, k + 1), k + 1, at)
<1> DEFINE step == Min(FreeSteps(S))
           h == Candidate(S, step)
           at == h % S.slot_size
           R == [S EXCEPT !.slot[at] = k + 1, !.handle_index = h + 1]
<1>1. skynet_handle_register(T, hd, k + 1) = [storage |-> R, handle |-> h]
  BY DEF skynet_handle_register, Roomy
<1>3. /\ S.slot_size \in Nat \ {0} /\ S.handle_index \in Nat
      /\ S.slot \in [0 .. S.slot_size - 1 -> (1 .. k) \cup {0}]
      /\ S = [slot_size |-> S.slot_size, handle_index |-> S.handle_index,
              slot |-> S.slot]
  BY HandleAssumption DEF GoodStorage, IsStorage
<1>4. FreeSteps(S) \in SUBSET Nat
  BY <1>3 DEF FreeSteps
<1>5. step \in FreeSteps(S)
  BY <1>4, MinIn
<1> HIDE DEF step
<1>6. step \in Nat /\ S.slot[at] = 0
  BY <1>3, <1>5 DEF FreeSteps
<1>7. HANDLE_MASK + 1 \in Nat \ {0} /\ step + S.handle_index \in Nat
  BY <1>3, <1>6, HandleAssumption
<1>8. h \in 0 .. HANDLE_MASK
  BY <1>7, HandleAssumption DEF Candidate
<1> HIDE DEF h
<1>12. at = h % S.slot_size
  OBVIOUS
<1>9. at \in 0 .. S.slot_size - 1
  BY <1>3, <1>8
<1> HIDE DEF at
<1>10. R = [S EXCEPT !.slot[at] = k + 1, !.handle_index = h + 1]
  OBVIOUS
<1> HIDE DEF R
<1>11. /\ R.slot_size = S.slot_size /\ R.handle_index = h + 1
       /\ R.slot = [S.slot EXCEPT ![at] = k + 1]
       /\ R = [slot_size |-> R.slot_size, handle_index |-> R.handle_index,
               slot |-> R.slot]
  <2>1. S = [slot_size |-> S.slot_size, handle_index |-> S.handle_index,
             slot |-> S.slot]
    BY <1>3
  <2>2. PICK slot : slot = [S.slot EXCEPT ![at] = k + 1]
    OBVIOUS
  <2>3. R = [S EXCEPT !.slot = slot, !.handle_index = h + 1]
    BY <1>10, <2>2
  <2>4. R = [slot_size |-> S.slot_size, handle_index |-> h + 1, slot |-> slot]
    BY <2>1, <2>3
  <2> QED
    BY <2>2, <2>4
<1>13. PICK reg : /\ reg = skynet_handle_register(T, hd, k + 1)
                 /\ reg.storage = R /\ reg.handle = h
  BY <1>1
<1>14. PutAt(S, reg, k + 1, at)
  BY <1>6, <1>8, <1>9, <1>11, <1>12, <1>13 DEF PutAt
<1> QED
  BY <1>13, <1>14

(* A context that is registered: the others stay where they are, or are     *)
(* moved by the doubling.                                                   *)
LEMMA Registered ==
  ASSUME NEW k \in 0 .. HANDLE_MASK, NEW T, GoodStorage(T, k),
         NEW hd, \A c \in 1 .. k : hd[c] \in Nat
  PROVE  /\ GoodStorage(skynet_handle_register(T, hd, k + 1).storage, k + 1)
         /\ skynet_handle_register(T, hd, k + 1).handle \in 0 .. HANDLE_MASK
         /\ \A c \in 1 .. k :
              InStorage(skynet_handle_register(T, hd, k + 1).storage, c)
                => InStorage(T, c)
<1>0. PICK S : S = Roomy(T, hd)
  OBVIOUS
<1>2. /\ GoodStorage(S, k) /\ FreeSteps(S) # {}
      /\ \A c \in 1 .. k : InStorage(S, c) => InStorage(T, c)
  <2>1. CASE FreeSteps(T) = {}
    BY <1>0, <2>1, Doubled DEF Roomy
  <2>2. CASE FreeSteps(T) # {}
    BY <1>0, <2>2 DEF Roomy
  <2> QED
    BY <2>1, <2>2
<1>3. /\ S.slot_size \in Nat \ {0}
      /\ S.slot \in [0 .. S.slot_size - 1 -> (1 .. k) \cup {0}]
  BY <1>2 DEF GoodStorage, IsStorage
<1>1. PICK reg, at : /\ reg = skynet_handle_register(T, hd, k + 1)
                    /\ PutAt(S, reg, k + 1, at)
  <2>1. k \in Nat
    BY HandleAssumption
  <2> QED
    BY <1>0, <1>2, <2>1, RegisteredAt
<1>4. PICK R, h : R = reg.storage /\ h = reg.handle
  OBVIOUS
<1>8. h \in 0 .. HANDLE_MASK /\ at \in 0 .. S.slot_size - 1
  BY <1>1, <1>4 DEF PutAt
<1>9. at \in 0 .. S.slot_size - 1
  BY <1>8
<1>11. /\ R.slot_size = S.slot_size /\ R.handle_index = h + 1
       /\ R.slot = [S.slot EXCEPT ![at] = k + 1]
       /\ R = [slot_size |-> R.slot_size, handle_index |-> R.handle_index,
               slot |-> R.slot]
  BY <1>1, <1>4 DEF PutAt
<1>12. GoodStorage(R, k + 1)
  <2> DEFINE slot == [S.slot EXCEPT ![at] = k + 1]
  <2>1. /\ DOMAIN slot = 0 .. S.slot_size - 1
        /\ slot[at] = k + 1
        /\ \A i \in 0 .. S.slot_size - 1 : i # at => slot[i] = S.slot[i]
    BY <1>3, <1>9
  <2>2. slot \in [0 .. S.slot_size - 1 -> (1 .. k + 1) \cup {0}]
    BY <1>3, <1>9
  <2> HIDE DEF slot
  <2>3. \A i, j \in DOMAIN slot : slot[i] # 0 /\ slot[i] = slot[j] => i = j
    <3>1. \A i \in 0 .. S.slot_size - 1 : S.slot[i] # k + 1
      BY <1>3
    <3>2. \A i, j \in DOMAIN S.slot : S.slot[i] # 0 /\ S.slot[i] = S.slot[j] => i = j
      BY <1>2 DEF GoodStorage
    <3>3. DOMAIN S.slot = 0 .. S.slot_size - 1
      BY <1>3
    <3> QED
      BY <2>1, <3>1, <3>2, <3>3
  <2>4. /\ R.slot_size = S.slot_size /\ R.handle_index = h + 1 /\ R.slot = slot
        /\ R = [slot_size |-> R.slot_size, handle_index |-> R.handle_index,
                slot |-> R.slot]
    BY <1>11 DEF slot
  <2>5. R.handle_index \in 1 .. HANDLE_MASK + 1
    BY <1>8, <2>4, HandleAssumption
  <2>6. IsStorage(R, 1 .. k + 1)
    BY <1>3, <2>2, <2>4, <2>5 DEF IsStorage
  <2> QED
    BY <1>2, <2>3, <2>4, <2>6 DEF GoodStorage
<1>13. ASSUME NEW c \in 1 .. k, InStorage(R, c)
       PROVE  InStorage(T, c)
  <2>1. PICK i \in DOMAIN S.slot : [S.slot EXCEPT ![at] = k + 1][i] = c
    BY <1>11, <1>13 DEF InStorage
  <2>2. i # at
    BY <1>3, <1>9, <2>1
  <2>3. InStorage(S, c)
    BY <2>1, <2>2 DEF InStorage
  <2> QED
    BY <1>2, <2>3
<1> QED
  BY <1>1, <1>4, <1>8, <1>12, <1>13

(* If contexts are where their handles say, all of them stay in the storage *)
(* and the new one is where its handle says.                                *)
LEMMA RegisteredKeeps ==
  ASSUME NEW k \in 0 .. HANDLE_MASK, NEW T, GoodStorage(T, k),
         NEW hd, \A c \in 1 .. k : hd[c] \in Nat, Sorted(T, hd),
         NEW reg, reg = skynet_handle_register(T, hd, k + 1),
         NEW gv, \A c \in 1 .. k : gv[c] = hd[c], gv[k + 1] = reg.handle
  PROVE  /\ Sorted(reg.storage, gv)
         /\ InStorage(reg.storage, k + 1)
         /\ \A c \in 1 .. k : InStorage(T, c) => InStorage(reg.storage, c)
<1>1. PICK S : S = Roomy(T, hd)
  OBVIOUS
<1>2. k \in Nat
  BY HandleAssumption
<1>3. /\ GoodStorage(S, k) /\ FreeSteps(S) # {} /\ Sorted(S, hd)
      /\ \A c \in 1 .. k : InStorage(T, c) => InStorage(S, c)
  <2>1. CASE FreeSteps(T) = {}
    BY <1>1, <1>2, <2>1, Doubled, DoubledKeeps DEF Roomy
  <2>2. CASE FreeSteps(T) # {}
    BY <1>1, <2>2 DEF Roomy
  <2> QED
    BY <2>1, <2>2
<1>4. /\ S.slot \in [0 .. S.slot_size - 1 -> (1 .. k) \cup {0}]
      /\ DOMAIN S.slot = 0 .. S.slot_size - 1
  BY <1>3 DEF GoodStorage, IsStorage
<1>5. PICK at : PutAt(S, reg, k + 1, at)
  BY <1>1, <1>2, <1>3, RegisteredAt
<1>6. PICK R : R = reg.storage
  OBVIOUS
<1>7. /\ at \in 0 .. S.slot_size - 1 /\ S.slot[at] = 0
      /\ at = gv[k + 1] % S.slot_size /\ R.slot_size = S.slot_size
      /\ DOMAIN R.slot = 0 .. S.slot_size - 1 /\ R.slot[at] = k + 1
      /\ \A i \in 0 .. S.slot_size - 1 : i # at => R.slot[i] = S.slot[i]
  <2>1. /\ at \in 0 .. S.slot_size - 1 /\ S.slot[at] = 0
        /\ at = gv[k + 1] % S.slot_size /\ R.slot_size = S.slot_size
        /\ R.slot = [S.slot EXCEPT ![at] = k + 1]
    BY <1>5, <1>6 DEF PutAt
  <2> QED
    BY <1>4, <2>1
<1>8. Sorted(R, gv)
  <2> SUFFICES ASSUME NEW i \in DOMAIN R.slot, R.slot[i] # 0
               PROVE  i = gv[R.slot[i]] % R.slot_size
    BY DEF Sorted
  <2>1. CASE i = at
    BY <1>7, <2>1
  <2>2. CASE i # at
    <3>1. R.slot[i] = S.slot[i] /\ S.slot[i] \in 1 .. k /\ i \in DOMAIN S.slot
      BY <1>4, <1>7, <2>2
    <3>2. i = hd[S.slot[i]] % S.slot_size
      BY <1>3, <3>1 DEF Sorted
    <3> QED
      BY <1>7, <3>1, <3>2
  <2> QED
    BY <2>1, <2>2
<1>9. InStorage(R, k + 1)
  BY <1>7 DEF InStorage
<1>10. ASSUME NEW c \in 1 .. k, InStorage(T, c)
       PROVE  InStorage(R, c)
  <2>1. InStorage(S, c)
    BY <1>3, <1>10
  <2>2. PICK i \in 0 .. S.slot_size - 1 : S.slot[i] = c
    BY <1>4, <2>1 DEF InStorage
  <2>3. i # at
    BY <1>7, <2>2
  <2> QED
    BY <1>7, <2>2, <2>3 DEF InStorage
<1> QED
  BY <1>6, <1>8, <1>9, <1>10

(* One that is retired is in no slot any more.                              *)
LEMMA Retired ==
  ASSUME NEW k \in Nat, NEW T, GoodStorage(T, k), NEW c \in 1 .. k,
         NEW hd, hd[c] \in Nat, skynet_handle_grab(T, hd, hd[c]) = c
  PROVE  /\ GoodStorage(skynet_handle_retire(T, hd, hd[c]), k)
         /\ InStorage(T, c)
         /\ ~InStorage(skynet_handle_retire(T, hd, hd[c]), c)
         /\ \A d \in 1 .. k : InStorage(skynet_handle_retire(T, hd, hd[c]), d)
                                => InStorage(T, d)
         /\ \A d \in 1 .. k : d # c /\ InStorage(T, d)
                                => InStorage(skynet_handle_retire(T, hd, hd[c]), d)
         /\ \A gv : Sorted(T, gv) => Sorted(skynet_handle_retire(T, hd, hd[c]), gv)
<1> DEFINE at == hd[c] % T.slot_size
           R == skynet_handle_retire(T, hd, hd[c])
<1>1. /\ T.slot_size \in Nat \ {0} /\ T.handle_index \in 1 .. HANDLE_MASK + 1
      /\ T.slot \in [0 .. T.slot_size - 1 -> (1 .. k) \cup {0}]
      /\ T = [slot_size |-> T.slot_size, handle_index |-> T.handle_index,
              slot |-> T.slot]
      /\ \A i, j \in DOMAIN T.slot : T.slot[i] # 0 /\ T.slot[i] = T.slot[j] => i = j
      /\ \E f \in Nat \ {0} : HANDLE_MASK + 1 = T.slot_size * f
  BY DEF GoodStorage, IsStorage
<1>2. at \in 0 .. T.slot_size - 1
  <2>1. PICK x \in Nat, s \in Nat \ {0} : x = hd[c] /\ s = T.slot_size
    BY <1>1
  <2>2. x % s \in 0 .. s - 1
    OBVIOUS
  <2> QED
    BY <2>1, <2>2
<1>3. T.slot[at] = c /\ c # 0
  BY DEF skynet_handle_grab
<1>4. R = [T EXCEPT !.slot[at] = 0]
  BY <1>3 DEF skynet_handle_retire
<1> HIDE DEF R, at
<1>5. /\ R.slot_size = T.slot_size /\ R.handle_index = T.handle_index
      /\ R.slot = [T.slot EXCEPT ![at] = 0]
      /\ R = [slot_size |-> R.slot_size, handle_index |-> R.handle_index,
              slot |-> R.slot]
  BY <1>1, <1>4
<1>6. /\ DOMAIN R.slot = 0 .. T.slot_size - 1
      /\ R.slot[at] = 0
      /\ \A i \in 0 .. T.slot_size - 1 : i # at => R.slot[i] = T.slot[i]
  BY <1>1, <1>2, <1>5
<1>7. R.slot \in [0 .. T.slot_size - 1 -> (1 .. k) \cup {0}]
  BY <1>1, <1>5
<1>8. GoodStorage(R, k)
  <2>1. IsStorage(R, 1 .. k)
    BY <1>1, <1>5, <1>7 DEF IsStorage
  <2>2. \A i, j \in DOMAIN R.slot : R.slot[i] # 0 /\ R.slot[i] = R.slot[j] => i = j
    BY <1>1, <1>6
  <2> QED
    BY <1>1, <1>5, <2>1, <2>2 DEF GoodStorage
<1>9. InStorage(T, c)
  BY <1>1, <1>2, <1>3 DEF InStorage
<1>10. ~InStorage(R, c)
  BY <1>1, <1>2, <1>3, <1>6 DEF InStorage
<1>11. \A d \in 1 .. k : InStorage(R, d) => InStorage(T, d)
  BY <1>1, <1>6 DEF InStorage
<1>12. ASSUME NEW d \in 1 .. k, d # c, InStorage(T, d)
       PROVE  InStorage(R, d)
  <2>1. PICK i \in 0 .. T.slot_size - 1 : T.slot[i] = d
    BY <1>1, <1>12 DEF InStorage
  <2>2. i # at
    BY <1>3, <1>12, <2>1
  <2> QED
    BY <1>6, <2>1, <2>2 DEF InStorage
<1>13. ASSUME NEW gv, Sorted(T, gv)
       PROVE  Sorted(R, gv)
  <2>1. R.slot_size = T.slot_size /\ DOMAIN T.slot = DOMAIN R.slot
    BY <1>1, <1>5, <1>6
  <2>2. \A i \in DOMAIN R.slot : R.slot[i] # 0 => R.slot[i] = T.slot[i]
    BY <1>6
  <2> QED
    BY <1>13, <2>1, <2>2 DEF Sorted
<1> QED
  BY <1>8, <1>9, <1>10, <1>11, <1>12, <1>13 DEF R

(* The storage at the start of the node.                                    *)
LEMMA NewStorageIsGood == GoodStorage(NewStorage, 0)
<1>1. PICK f \in Nat : HANDLE_MASK + 1 = f * DEFAULT_SLOT_SIZE
  <2>1. HANDLE_MASK + 1 \in Nat /\ DEFAULT_SLOT_SIZE \in Nat \ {0}
    BY HandleAssumption
  <2>2. PICK f \in Nat :
          HANDLE_MASK + 1 = f * DEFAULT_SLOT_SIZE + ((HANDLE_MASK + 1) % DEFAULT_SLOT_SIZE)
    BY <2>1, Quotient
  <2> QED
    BY <2>1, <2>2, HandleAssumption
<1>2. f # 0 /\ HANDLE_MASK + 1 = DEFAULT_SLOT_SIZE * f
  BY <1>1, HandleAssumption
<1> QED
  BY <1>2, HandleAssumption DEF NewStorage, GoodStorage, IsStorage

-----------------------------------------------------------------------------
(* What is true of every state.                                             *)
Services == 1 .. launched

StoreInv ==
  /\ GoodStorage(H, launched)
  /\ given \in [Handles -> 0 .. HANDLE_MASK]
  /\ handle \in [Handles -> 0 .. HANDLE_MASK]
  /\ ref \in [Handles -> Int]
  /\ in_global \in [Handles -> BOOLEAN]
  /\ release \in [Handles -> BOOLEAN]

(* Where a thread is, or will be again when it has delivered its message.   *)
Loc(t) == IF pc[t] \in {"push", "put"} THEN back[t] ELSE pc[t]

(* What a thread has in hand, by where it is.                               *)
HasTurn == {"first", "more", "run", "yield", "requeue", "turned", "new",
            "init", "flag", "start", "failed"}
HasOther == {"requeue", "new", "init", "flag", "start", "failed", "release",
             "drop"}
HasNoOther == {"top", "empty", "asleep", "done", "first", "more", "run", "yield"}

Control(t) ==
  /\ back[t] \in {"top", "run", "init", "drop", "release"}
  /\ {q[t], dst[t], new[t]} \subseteq Services \cup {0}
  /\ dst[t] # 0 <=> pc[t] \in {"push", "put"}
  /\ dst[t] # 0 => handle[dst[t]] # 0
  /\ back[t] # "top" <=> t \in Workers /\ pc[t] \in {"push", "put"}
  /\ t \notin Workers => /\ pc[t] \in {"top", "done", "push", "put"}
                         /\ q[t] = 0 /\ new[t] = 0
  /\ Loc(t) \in HasTurn => q[t] # 0
  /\ Loc(t) \in {"empty", "asleep"} => q[t] = 0
  /\ Loc(t) \in HasOther => new[t] # 0
  /\ Loc(t) \in HasNoOther => new[t] = 0
  /\ q[t] # 0 /\ q[t] = new[t] => pc[t] = "turned"
  /\ Loc(t) = "drop" => release[new[t]]

(* A service that has no handle yet is known to the one who launches it.    *)
NewInv ==
  \A t \in Threads :
    pc[t] = "new" =>
      /\ handle[new[t]] = 0 /\ ~in_global[new[t]]
      /\ \A u \in Threads : pc[u] = "new" /\ new[u] = new[t] => u = t

(* What is not launched yet has left no trace.                              *)
Fresh ==
  \A h \in Handles \ Services :
    /\ ~in_global[h] /\ ~release[h] /\ h \notin freed
    /\ IsEmpty(queue[h]) /\ handle[h] = 0 /\ h \notin registered

(* The reference of the storage is counted from the launch of h on until it *)
(* is retired.                                                              *)
StorageRef(h) == IF h \in registered \/ handle[h] = 0 THEN 1 ELSE 0

Held(h) ==
  Cardinality(Serving(h)) + Cardinality(Pushing(h)) + Cardinality(Launching(h))

(* The references held are those counted.                                   *)
RefInv ==
  \A h \in Services :
    /\ ref[h] = StorageRef(h) + Held(h)
    /\ release[h] <=> ref[h] = 0
    /\ InStorage(H, h) => StorageRef(h) = 1

Once(s, h) == \E i \in DOMAIN s : s[i] = h /\ \A j \in DOMAIN s : s[j] = h => j = i
Never(s, h) == \A i \in DOMAIN s : s[i] # h

Alone(h) ==
  \/ Once(global, h) /\ \A t \in Threads : h \notin InHand(t)
  \/ /\ Never(global, h)
     /\ \E t \in Threads : h \in InHand(t) /\ \A u \in Threads : h \in InHand(u) => u = t

Nowhere(h) == Never(global, h) /\ \A t \in Threads : h \notin InHand(t)

At(h) ==
  /\ h \in freed => release[h] /\ Nowhere(h)
  /\ h \notin freed /\ (in_global[h] \/ release[h]) => Alone(h)
  /\ ~in_global[h] /\ ~release[h] => Nowhere(h) /\ IsEmpty(queue[h])

PlaceInv ==
  /\ \A h \in Services : At(h)
  /\ \A h \in Ids \ Services : Nowhere(h)

NodeInv ==
  /\ RingInv /\ StoreInv /\ (\A t \in Threads : Control(t)) /\ NewInv /\ Fresh
  /\ RefInv /\ PlaceInv

-----------------------------------------------------------------------------
(* Steps of one thread.                                                     *)

(* A step of t leaves what the other threads have in hand alone.            *)
Only(t) ==
  \A u \in Threads :
    u # t => /\ pc'[u] = pc[u] /\ q'[u] = q[u] /\ new'[u] = new[u]
             /\ dst'[u] = dst[u] /\ back'[u] = back[u]

(* Threads can be counted.                                                  *)
LEMMA ThreadsFinite == IsFiniteSet(Threads)
<1>1. IsFiniteSet({timer, socket})
  <2>1. IsFiniteSet({timer})
    BY FS_Singleton
  <2>2. IsFiniteSet({timer} \cup {socket})
    BY <2>1, FS_AddElement
  <2>3. {timer, socket} = {timer} \cup {socket}
    OBVIOUS
  <2> QED
    BY <2>2, <2>3
<1> QED
  BY <1>1, FS_Union, SkynetAssumption DEF Threads

(* The other threads stay where they are, as long as the services they have *)
(* in hand keep their handles and their release flags.                      *)
LEMMA ControlKept ==
  ASSUME \A u \in Threads : Control(u), NEW t \in Threads, Only(t), Control(t)',
         launched \in Nat, launched' \in Nat, launched <= launched',
         \A h \in Services : handle[h] # 0 => handle'[h] # 0,
         \A h \in Services : release[h] => release'[h]
  PROVE  \A u \in Threads : Control(u)'
<1> SUFFICES ASSUME NEW u \in Threads, u # t PROVE Control(u)'
  OBVIOUS
<1>1. /\ pc'[u] = pc[u] /\ q'[u] = q[u] /\ new'[u] = new[u]
      /\ dst'[u] = dst[u] /\ back'[u] = back[u]
  BY DEF Only
<1>2. Control(u)
  OBVIOUS
<1>3. Loc(u)' = Loc(u)
  BY <1>1 DEF Loc
<1>4. Services \subseteq Services'
  BY DEF Services
<1>5. {q[u], dst[u], new[u]} \subseteq Services'  \cup {0}
  BY <1>2, <1>4 DEF Control
<1>6. dst[u] # 0 => handle'[dst[u]] # 0
  BY <1>2 DEF Control
<1>7. Loc(u) = "drop" => release'[new[u]]
  BY <1>2 DEF Control, HasOther
<1> QED
  BY <1>1, <1>2, <1>3, <1>5, <1>6, <1>7 DEF Control

(* What thread t holds of service h.                                        *)
Serves(t, h) == q[t] = h /\ pc[t] \notin {"top", "done"}
Pushes(t, h) == dst[t] = h
Launches(t, h) == new[t] = h /\ {pc[t], back[t]} \cap {"new", "init"} # {}

One(b) == IF b THEN 1 ELSE 0
Holds(t, h) == One(Serves(t, h)) + One(Pushes(t, h)) + One(Launches(t, h))

(* A set of threads in which only t comes or goes.                          *)
LEMMA CardinalityStep ==
  ASSUME NEW S \in SUBSET Threads, NEW R \in SUBSET Threads, NEW t \in Threads,
         \A u \in Threads : u # t => (u \in S <=> u \in R)
  PROVE  /\ Cardinality(S) \in Nat /\ Cardinality(R) \in Nat
         /\ Cardinality(R) = Cardinality(S) - One(t \in S) + One(t \in R)
         /\ One(t \in S) <= Cardinality(S)
<1>1. IsFiniteSet(S) /\ IsFiniteSet(R) /\ IsFiniteSet(S \ {t}) /\ IsFiniteSet(R \ {t})
  BY ThreadsFinite, FS_Subset
<1>2. /\ Cardinality(S) \in Nat /\ Cardinality(R) \in Nat
      /\ Cardinality(S \ {t}) \in Nat
  BY <1>1, FS_CardinalityType
<1>3. S \ {t} = R \ {t}
  OBVIOUS
<1>4. Cardinality(S \ {t}) = IF t \in S THEN Cardinality(S) - 1 ELSE Cardinality(S)
  BY <1>1, FS_RemoveElement
<1>5. Cardinality(R \ {t}) = IF t \in R THEN Cardinality(R) - 1 ELSE Cardinality(R)
  BY <1>1, FS_RemoveElement
<1>6. Cardinality(S) = Cardinality(S \ {t}) + One(t \in S)
  BY <1>2, <1>4 DEF One
<1>7. Cardinality(R) = Cardinality(S \ {t}) + One(t \in R)
  BY <1>2, <1>3, <1>5 DEF One
<1>8. One(t \in S) \in Nat
  BY DEF One
<1> QED
  BY <1>2, <1>6, <1>7, <1>8

(* What is held of h changes by what t takes or gives back.                 *)
LEMMA HeldStep ==
  ASSUME NEW t \in Threads, Only(t), NEW h
  PROVE  /\ Held(h) \in Nat /\ Held(h)' \in Nat
         /\ Holds(t, h) \in Nat /\ Holds(t, h)' \in Nat
         /\ Held(h)' = Held(h) - Holds(t, h) + Holds(t, h)'
         /\ Holds(t, h) <= Held(h)
<1> DEFINE C(S) == Cardinality(S)
<1>1. /\ C(Serving(h)) \in Nat /\ C(Serving(h)') \in Nat
      /\ C(Serving(h)') = C(Serving(h)) - One(t \in Serving(h)) + One(t \in Serving(h)')
      /\ One(t \in Serving(h)) <= C(Serving(h))
  <2>1. \A u \in Threads : u # t => (u \in Serving(h) <=> u \in Serving(h)')
    BY DEF Only, Serving
  <2>2. Serving(h) \in SUBSET Threads /\ Serving(h)' \in SUBSET Threads
    BY DEF Serving
  <2> QED
    BY <2>1, <2>2, CardinalityStep
<1>2. /\ C(Pushing(h)) \in Nat /\ C(Pushing(h)') \in Nat
      /\ C(Pushing(h)') = C(Pushing(h)) - One(t \in Pushing(h)) + One(t \in Pushing(h)')
      /\ One(t \in Pushing(h)) <= C(Pushing(h))
  <2>1. \A u \in Threads : u # t => (u \in Pushing(h) <=> u \in Pushing(h)')
    BY DEF Only, Pushing
  <2>2. Pushing(h) \in SUBSET Threads /\ Pushing(h)' \in SUBSET Threads
    BY DEF Pushing
  <2> QED
    BY <2>1, <2>2, CardinalityStep
<1>3. /\ C(Launching(h)) \in Nat /\ C(Launching(h)') \in Nat
      /\ C(Launching(h)')
           = C(Launching(h)) - One(t \in Launching(h)) + One(t \in Launching(h)')
      /\ One(t \in Launching(h)) <= C(Launching(h))
  <2>1. \A u \in Threads : u # t => (u \in Launching(h) <=> u \in Launching(h)')
    BY DEF Only, Launching
  <2>2. Launching(h) \in SUBSET Threads /\ Launching(h)' \in SUBSET Threads
    BY DEF Launching
  <2> QED
    BY <2>1, <2>2, CardinalityStep
<1>4. /\ (t \in Serving(h) <=> Serves(t, h)) /\ (t \in Serving(h)' <=> Serves(t, h)')
      /\ (t \in Pushing(h) <=> Pushes(t, h)) /\ (t \in Pushing(h)' <=> Pushes(t, h)')
      /\ (t \in Launching(h) <=> Launches(t, h))
      /\ (t \in Launching(h)' <=> Launches(t, h)')
  BY DEF Serving, Serves, Pushing, Pushes, Launching, Launches
<1>5. /\ Held(h) = C(Serving(h)) + C(Pushing(h)) + C(Launching(h))
      /\ Held(h)' = C(Serving(h)') + C(Pushing(h)') + C(Launching(h)')
  BY DEF Held
<1>6. /\ Holds(t, h) = One(t \in Serving(h)) + One(t \in Pushing(h)) + One(t \in Launching(h))
      /\ Holds(t, h)'
           = One(t \in Serving(h)') + One(t \in Pushing(h)') + One(t \in Launching(h)')
  BY <1>4 DEF Holds, One
<1>7. /\ One(t \in Serving(h)) \in Nat /\ One(t \in Serving(h)') \in Nat
      /\ One(t \in Pushing(h)) \in Nat /\ One(t \in Pushing(h)') \in Nat
      /\ One(t \in Launching(h)) \in Nat /\ One(t \in Launching(h)') \in Nat
  BY DEF One
<1> HIDE DEF C
<1> QED
  BY <1>1, <1>2, <1>3, <1>5, <1>6, <1>7

(* The references stay counted if the step of t leaves none uncounted.      *)
LEMMA CountsKept ==
  ASSUME RefInv, ref \in [Handles -> Int], ref' \in [Handles -> Int],
         Services \subseteq Handles, launched' = launched,
         NEW t \in Threads, Only(t),
         \A h \in Services :
           /\ StorageRef(h)' + Holds(t, h)' - ref'[h] = StorageRef(h) + Holds(t, h) - ref[h]
           /\ release'[h] <=> ref'[h] = 0
           /\ InStorage(H', h) => InStorage(H, h) /\ StorageRef(h)' = StorageRef(h)
  PROVE  RefInv'
<1> SUFFICES ASSUME NEW h \in Services
             PROVE  /\ ref'[h] = StorageRef(h)' + Held(h)'
                    /\ InStorage(H', h) => StorageRef(h)' = 1
  BY DEF RefInv, Services
<1>1. /\ ref[h] \in Int /\ ref'[h] \in Int
      /\ StorageRef(h) \in Int /\ StorageRef(h)' \in Int
  BY DEF StorageRef
<1>2. ref[h] = StorageRef(h) + Held(h) /\ (InStorage(H, h) => StorageRef(h) = 1)
  BY DEF RefInv
<1>3. /\ StorageRef(h)' + Holds(t, h)' - ref'[h] = StorageRef(h) + Holds(t, h) - ref[h]
      /\ InStorage(H', h) => InStorage(H, h) /\ StorageRef(h)' = StorageRef(h)
  OBVIOUS
<1> QED
  BY <1>1, <1>2, <1>3, HeldStep

-----------------------------------------------------------------------------
(* Where queues are.                                                        *)
LEMMA OnceAppended ==
  ASSUME NEW S, NEW s \in Seq(S), NEW g \in S
  PROVE  /\ \A h : h # g => /\ Once(s, h) <=> Once(Append(s, g), h)
                            /\ Never(s, h) <=> Never(Append(s, g), h)
         /\ Never(s, g) => Once(Append(s, g), g)
<1> DEFINE r == Append(s, g)
<1>1. /\ DOMAIN s = 1 .. Len(s) /\ DOMAIN r = 1 .. Len(s) + 1 /\ Len(s) \in Nat
      /\ r[Len(s) + 1] = g
      /\ \A i \in 1 .. Len(s) : r[i] = s[i]
  OBVIOUS
<1>2. /\ Len(s) + 1 \in DOMAIN r
      /\ \A i \in DOMAIN s : i \in DOMAIN r /\ r[i] = s[i]
      /\ \A i \in DOMAIN r : i \in DOMAIN s \/ i = Len(s) + 1
  BY <1>1
<1> HIDE DEF r
<1>3. PICK e : e \in DOMAIN r /\ r[e] = g /\ \A i \in DOMAIN r : i \in DOMAIN s \/ i = e
  BY <1>1, <1>2
<1>4. ASSUME NEW h, h # g
      PROVE  /\ Once(s, h) <=> Once(r, h)
             /\ Never(s, h) <=> Never(r, h)
  BY <1>2, <1>3, <1>4 DEF Once, Never
<1>5. ASSUME Never(s, g) PROVE Once(r, g)
  BY <1>2, <1>3, <1>5 DEF Once, Never
<1> QED
  BY <1>4, <1>5 DEF r

(* Taking the first of the global queue.                                    *)
LEMMA OnceTaken ==
  ASSUME NEW S, NEW s \in Seq(S), s # <<>>
  PROVE  /\ \A h : h # Head(s) => /\ Once(s, h) <=> Once(Tail(s), h)
                                  /\ Never(s, h) <=> Never(Tail(s), h)
         /\ Once(s, Head(s)) => Never(Tail(s), Head(s))
         /\ ~Never(s, Head(s))
<1> DEFINE r == Tail(s)
<1>1. /\ DOMAIN s = 1 .. Len(s) /\ DOMAIN r = 1 .. Len(s) - 1
      /\ Len(s) \in Nat /\ Len(s) >= 1
      /\ \A i \in 1 .. Len(s) - 1 : r[i] = s[i + 1]
      /\ Head(s) = s[1]
  OBVIOUS
<1> DEFINE up == [i \in DOMAIN r |-> i + 1]
<1>2. /\ \A i \in DOMAIN r : up[i] \in DOMAIN s /\ up[i] # 1 /\ r[i] = s[up[i]]
      /\ \A i, j \in DOMAIN r : up[i] = up[j] => i = j
  BY <1>1
<1>3. ASSUME NEW k \in DOMAIN s, k # 1
      PROVE  \E i \in DOMAIN r : up[i] = k
  <2>1. k - 1 \in DOMAIN r /\ (k - 1) + 1 = k
    BY <1>1, <1>3
  <2> QED
    BY <2>1
<1>4. 1 \in DOMAIN s
  BY <1>1
<1>5. Head(s) = s[1]
  BY <1>1
<1> HIDE DEF r, up
<1>6. ASSUME NEW h, h # s[1]
      PROVE  /\ Once(s, h) <=> Once(r, h)
             /\ Never(s, h) <=> Never(r, h)
  <2>1. ASSUME Once(s, h) PROVE Once(r, h)
    <3>1. PICK k \in DOMAIN s : s[k] = h /\ \A j \in DOMAIN s : s[j] = h => j = k
      BY <2>1 DEF Once
    <3>2. PICK i \in DOMAIN r : up[i] = k
      BY <1>3, <1>6, <3>1
    <3>3. \A j \in DOMAIN r : r[j] = h => j = i
      BY <1>2, <3>1, <3>2
    <3> QED
      BY <1>2, <3>1, <3>2, <3>3 DEF Once
  <2>2. ASSUME Once(r, h) PROVE Once(s, h)
    <3>1. PICK i \in DOMAIN r : r[i] = h /\ \A j \in DOMAIN r : r[j] = h => j = i
      BY <2>2 DEF Once
    <3>2. ASSUME NEW k \in DOMAIN s, s[k] = h PROVE k = up[i]
      <4>1. PICK j \in DOMAIN r : up[j] = k
        BY <1>3, <1>6, <3>2
      <4> QED
        BY <1>2, <3>1, <3>2, <4>1
    <3> QED
      BY <1>2, <3>1, <3>2 DEF Once
  <2>3. Never(s, h) <=> Never(r, h)
    BY <1>2, <1>3, <1>6 DEF Never
  <2> QED
    BY <2>1, <2>2, <2>3
<1>7. Once(s, s[1]) => Never(r, s[1])
  BY <1>2, <1>4 DEF Once, Never
<1>8. ~Never(s, s[1])
  BY <1>4 DEF Never
<1> QED
  BY <1>5, <1>6, <1>7, <1>8 DEF r

(* The queues stay where they are.                                          *)
Placed(h) == (Alone(h) => Alone(h)') /\ (Nowhere(h) => Nowhere(h)')

(* Nobody puts a queue anywhere else.                                       *)
LEMMA PlacesSame ==
  ASSUME global' = global, \A u \in Threads : InHand(u)' = InHand(u), NEW h
  PROVE  Placed(h)
  BY DEF Placed, Alone, Nowhere

(* Thread t takes the first of the global queue in hand.                    *)
LEMMA PlacesTaken ==
  ASSUME global \in Seq(Ids), global # <<>>, global' = Tail(global),
         NEW t \in Threads, \A u \in Threads : u # t => InHand(u)' = InHand(u),
         InHand(t)' = InHand(t) \cup {Head(global)}, NEW h
  PROVE  Placed(h)
<1>1. CASE h = Head(global)
  <2>1. ~Never(global, h) /\ (Once(global, h) => Never(global', h))
    BY <1>1, OnceTaken
  <2>2. Alone(h) => Alone(h)'
    BY <1>1, <2>1 DEF Alone
  <2> QED
    BY <2>1, <2>2 DEF Placed, Nowhere
<1>2. CASE h # Head(global)
  <2>1. (Once(global, h) <=> Once(global', h)) /\ (Never(global, h) <=> Never(global', h))
    BY <1>2, OnceTaken
  <2>2. \A u \in Threads : h \in InHand(u)' <=> h \in InHand(u)
    BY <1>2
  <2> QED
    BY <2>1, <2>2 DEF Placed, Alone, Nowhere
<1> QED
  BY <1>1, <1>2

(* Thread t puts the queue g, which it has in hand, in the global queue.    *)
LEMMA PlacesGiven ==
  ASSUME global \in Seq(Ids), NEW g \in Ids, global' = Append(global, g),
         NEW t \in Threads, \A u \in Threads : u # t => InHand(u)' = InHand(u),
         g \in InHand(t), InHand(t)' = InHand(t) \ {g}, NEW h
  PROVE  Placed(h)
<1>1. CASE h = g
  <2>1. Never(global, h) => Once(global', h)
    BY <1>1, OnceAppended
  <2>2. ~Nowhere(h)
    BY <1>1 DEF Nowhere
  <2>3. Alone(h) => Alone(h)'
    BY <1>1, <2>1 DEF Alone
  <2> QED
    BY <2>2, <2>3 DEF Placed
<1>2. CASE h # g
  <2>1. (Once(global, h) <=> Once(global', h)) /\ (Never(global, h) <=> Never(global', h))
    BY <1>2, OnceAppended
  <2>2. \A u \in Threads : h \in InHand(u)' <=> h \in InHand(u)
    BY <1>2
  <2> QED
    BY <2>1, <2>2 DEF Placed, Alone, Nowhere
<1> QED
  BY <1>1, <1>2

(* Thread t lets go of the queue g for good.                                *)
LEMMA PlacesDropped ==
  ASSUME global' = global, NEW g,
         NEW t \in Threads, \A u \in Threads : u # t => InHand(u)' = InHand(u),
         g \in InHand(t), InHand(t)' = InHand(t) \ {g}, Alone(g), NEW h
  PROVE  IF h = g THEN Nowhere(h)' ELSE Placed(h)
<1>1. CASE h = g
  BY <1>1 DEF Alone, Nowhere
<1>2. CASE h # g
  <2>1. \A u \in Threads : h \in InHand(u)' <=> h \in InHand(u)
    BY <1>2
  <2> QED
    BY <1>2, <2>1 DEF Placed, Alone, Nowhere
<1> QED
  BY <1>1, <1>2

(* A queue that is nowhere is put in the global queue.                      *)
LEMMA PlacesAdded ==
  ASSUME global \in Seq(Ids), NEW g \in Ids, global' = Append(global, g),
         \A u \in Threads : InHand(u)' = InHand(u), Nowhere(g), NEW h
  PROVE  IF h = g THEN Alone(h)' ELSE Placed(h)
<1>1. CASE h = g
  <2>1. Once(global', h)
    BY <1>1, OnceAppended DEF Nowhere
  <2> QED
    BY <1>1, <2>1 DEF Alone, Nowhere
<1>2. CASE h # g
  <2>1. (Once(global, h) <=> Once(global', h)) /\ (Never(global, h) <=> Never(global', h))
    BY <1>2, OnceAppended
  <2> QED
    BY <1>2, <2>1 DEF Placed, Alone, Nowhere
<1> QED
  BY <1>1, <1>2

(* Thread t takes in hand the queue g, which was nowhere.                   *)
LEMMA PlacesMade ==
  ASSUME global' = global, NEW g,
         NEW t \in Threads, \A u \in Threads : u # t => InHand(u)' = InHand(u),
         InHand(t)' = InHand(t) \cup {g}, Nowhere(g), NEW h
  PROVE  IF h = g THEN Alone(h)' ELSE Placed(h)
<1>1. CASE h = g
  BY <1>1 DEF Alone, Nowhere
<1>2. CASE h # g
  <2>1. \A u \in Threads : h \in InHand(u)' <=> h \in InHand(u)
    BY <1>2
  <2> QED
    BY <1>2, <2>1 DEF Placed, Alone, Nowhere
<1> QED
  BY <1>1, <1>2

-----------------------------------------------------------------------------
(* Kinds of steps.                                                          *)
LEMMA ServiceFacts ==
  ASSUME RingInv
  PROVE  /\ Services \subseteq Handles /\ Services \subseteq Ids /\ 0 \notin Services
         /\ Handles \subseteq Ids /\ 0 \in Ids /\ launched \in Nat
         /\ Ids = Handles \cup {0}
  BY SkynetAssumption, HandleAssumption DEF RingInv, Services, Handles, Ids

(* The others keep what they have in hand.                                  *)
LEMMA HandsOnly ==
  ASSUME NEW t \in Threads, Only(t), NEW u \in Threads, u # t
  PROVE  InHand(u)' = InHand(u)
  BY DEF Only, InHand

(* A queue that stays where it is, with the flags it has.                   *)
LEMMA AtKept ==
  ASSUME NEW h, At(h), Placed(h),
         in_global'[h] <=> in_global[h], release'[h] <=> release[h],
         h \in freed' <=> h \in freed,
         queue'[h] = queue[h] \/ in_global[h] \/ release[h]
  PROVE  At(h)'
  BY DEF At, Placed

(* What is left to show of a step of t that launches nothing.               *)
LEMMA Assembled ==
  ASSUME NodeInv, RingInv', launched' = launched,
         NEW t \in Threads, Only(t), Control(t)', pc'[t] # "new",
         StoreInv', RefInv', PlaceInv', Fresh',
         \A h \in Services : handle[h] # 0 => handle'[h] # 0,
         \A h \in Services : release[h] => release'[h],
         \A u \in Threads : u # t /\ pc[u] = "new" =>
           handle'[new[u]] = 0 /\ ~in_global'[new[u]]
  PROVE  NodeInv'
<1>1. launched \in Nat /\ launched' \in Nat /\ launched <= launched'
  BY ServiceFacts DEF NodeInv
<1>2. \A u \in Threads : Control(u)'
  BY <1>1, ControlKept DEF NodeInv
<1>3. NewInv'
  BY DEF NewInv, NodeInv, Only
<1> QED
  BY <1>2, <1>3 DEF NodeInv

(* No reference is taken or given back.                                     *)
LEMMA QuietStep ==
  ASSUME NodeInv, RingInv', NEW t \in Threads, Only(t), Control(t)', pc'[t] # "new",
         UNCHANGED <<launched, H, given, handle, registered, ref, release>>,
         \A h \in Services : Holds(t, h)' = Holds(t, h),
         in_global' \in [Handles -> BOOLEAN],
         \A h \in Handles : in_global'[h] => in_global[h] \/ (h \in Services /\ handle[h] # 0),
         \A h \in freed' : h \in freed \/ h \in Services,
         \A h \in Handles \ Services : queue'[h] = queue[h],
         \A h \in Services : At(h)',
         \A h \in Ids \ Services : Nowhere(h)'
  PROVE  NodeInv'
<1>1. StoreInv'
  BY DEF StoreInv, NodeInv
<1>2. RefInv'
  <2>1. ASSUME NEW h \in Services
        PROVE  /\ StorageRef(h)' + Holds(t, h)' - ref'[h] = StorageRef(h) + Holds(t, h) - ref[h]
               /\ release'[h] <=> ref'[h] = 0
               /\ InStorage(H', h) => InStorage(H, h) /\ StorageRef(h)' = StorageRef(h)
    <3>1. StorageRef(h)' = StorageRef(h) /\ StorageRef(h) \in Int
      BY DEF StorageRef
    <3>2. Holds(t, h) \in Int /\ ref[h] \in Int
      BY HeldStep, ServiceFacts DEF NodeInv, StoreInv
    <3> QED
      BY <3>1, <3>2 DEF NodeInv, RefInv
  <2> QED
    BY <2>1, CountsKept, ServiceFacts DEF NodeInv, StoreInv
<1>3. Services' = Services
  BY DEF Services
<1>4. PlaceInv'
  BY <1>3 DEF PlaceInv
<1>5. Fresh'
  BY <1>3 DEF Fresh, NodeInv
<1>6. ASSUME NEW u \in Threads, pc[u] = "new"
      PROVE  handle'[new[u]] = 0 /\ ~in_global'[new[u]]
  <2>1. new[u] \in Handles
    BY <1>6, ServiceFacts DEF NodeInv, Control, Loc, HasOther
  <2> QED
    BY <1>6, <2>1 DEF NodeInv, NewInv
<1> QED
  BY <1>1, <1>2, <1>4, <1>5, <1>6, Assembled

(* Queues change hands.                                                     *)
LEMMA MoveStep ==
  ASSUME NodeInv, RingInv', NEW t \in Threads, Only(t), Control(t)', pc'[t] # "new",
         UNCHANGED <<launched, H, given, handle, registered, ref, release, in_global,
                     freed, queue>>,
         \A h \in Services : Holds(t, h)' = Holds(t, h),
         \A h \in Ids : Placed(h)
  PROVE  NodeInv'
<1>1. ASSUME NEW h \in Services PROVE At(h)'
  BY AtKept, ServiceFacts DEF NodeInv, PlaceInv
<1>2. ASSUME NEW h \in Ids \ Services PROVE Nowhere(h)'
  BY DEF NodeInv, PlaceInv, Placed
<1>3. in_global' \in [Handles -> BOOLEAN]
  BY DEF NodeInv, StoreInv
<1> QED
  BY <1>1, <1>2, <1>3, QuietStep

(* A service that was found is in the storage, and not dead.                *)
LEMMA FoundFacts ==
  ASSUME NodeInv, NEW h \in Handles, Found(h)
  PROVE  /\ h \in Services /\ handle[h] # 0 /\ handle[h] \in Nat
         /\ StorageRef(h) = 1 /\ ~release[h] /\ ref[h] \in Nat /\ ref[h] >= 1
<1>1. h \in Services /\ handle[h] # 0
  BY DEF Found, NodeInv, Fresh
<1>2. handle[h] \in Nat /\ ref[h] \in Int
  BY HandleAssumption DEF NodeInv, StoreInv
<1>3. InStorage(H, h)
  <2>1. launched \in Nat /\ GoodStorage(H, launched) /\ h \in 1 .. launched
    BY <1>1, ServiceFacts DEF NodeInv, StoreInv, Services
  <2>2. skynet_handle_grab(H, handle, handle[h]) = h
    BY DEF Found
  <2> QED
    BY <1>2, <2>1, <2>2, Retired
<1>4. StorageRef(h) = 1
  BY <1>1, <1>3 DEF NodeInv, RefInv
<1>5. Held(h) \in Nat
  <2>1. IsFiniteSet(Serving(h)) /\ IsFiniteSet(Pushing(h)) /\ IsFiniteSet(Launching(h))
    BY ThreadsFinite, FS_Subset DEF Serving, Pushing, Launching
  <2> QED
    BY <2>1, FS_CardinalityType DEF Held
<1>6. ref[h] >= 1
  BY <1>1, <1>2, <1>4, <1>5 DEF NodeInv, RefInv
<1> QED
  BY <1>1, <1>2, <1>4, <1>6 DEF NodeInv, RefInv

(* A reference is taken on a service that was found.                        *)
LEMMA GrabStep ==
  ASSUME NodeInv, RingInv', NEW t \in Threads, Only(t), Control(t)', pc'[t] # "new",
         NEW g \in Handles, Found(g), Grab(g),
         UNCHANGED <<launched, H, given, handle, registered, release, in_global, freed>>,
         Holds(t, g)' = Holds(t, g) + 1,
         \A h \in Services : h # g => Holds(t, h)' = Holds(t, h),
         \A h \in Handles \ Services : queue'[h] = queue[h],
         \A h \in Services : At(h)',
         \A h \in Ids \ Services : Nowhere(h)'
  PROVE  NodeInv'
<1>1. /\ ref \in [Handles -> Int] /\ ref' \in [Handles -> Int]
      /\ \A h \in Handles : ref'[h] = IF h = g THEN ref[h] + 1 ELSE ref[h]
  BY DEF Grab, NodeInv, StoreInv
<1>2. StoreInv'
  BY <1>1 DEF StoreInv, NodeInv
<1>3. RefInv'
  <2>1. ASSUME NEW h \in Services
        PROVE  /\ StorageRef(h)' + Holds(t, h)' - ref'[h] = StorageRef(h) + Holds(t, h) - ref[h]
               /\ release'[h] <=> ref'[h] = 0
               /\ InStorage(H', h) => InStorage(H, h) /\ StorageRef(h)' = StorageRef(h)
    <3>1. StorageRef(h)' = StorageRef(h) /\ StorageRef(h) \in Int
      BY DEF StorageRef
    <3>2. h \in Handles /\ Holds(t, h) \in Int /\ ref[h] \in Int
      BY <1>1, HeldStep, ServiceFacts DEF NodeInv
    <3>3. CASE h = g
      <4>1. ~release[h] /\ ref[h] \in Nat
        BY <3>3, FoundFacts
      <4> QED
        BY <1>1, <3>1, <3>2, <3>3, <4>1
    <3>4. CASE h # g
      <4>1. ref'[h] = ref[h] /\ Holds(t, h)' = Holds(t, h)
        BY <1>1, <3>2, <3>4
      <4>2. release[h] <=> ref[h] = 0
        BY DEF NodeInv, RefInv
      <4> QED
        BY <3>1, <3>2, <4>1, <4>2
    <3> QED
      BY <3>3, <3>4
  <2> QED
    BY <1>1, <2>1, CountsKept, ServiceFacts DEF NodeInv
<1>4. Services' = Services
  BY DEF Services
<1>5. PlaceInv'
  BY <1>4 DEF PlaceInv
<1>6. Fresh'
  BY <1>4 DEF Fresh, NodeInv
<1> QED
  BY <1>2, <1>3, <1>5, <1>6, Assembled DEF NodeInv, NewInv

(* A reference that t holds is counted.                                     *)
LEMMA HolderFacts ==
  ASSUME NodeInv, NEW t \in Threads, Only(t), NEW g \in Services,
         Holds(t, g) >= 1
  PROVE  ref[g] \in Nat /\ ref[g] >= 1 /\ ~release[g]
<1>1. /\ ref[g] \in Int /\ StorageRef(g) \in Nat /\ ref[g] = StorageRef(g) + Held(g)
      /\ release[g] <=> ref[g] = 0
  BY ServiceFacts DEF NodeInv, StoreInv, RefInv, StorageRef
<1>2. Held(g) \in Nat /\ Holds(t, g) \in Nat /\ Holds(t, g) <= Held(g)
  BY HeldStep
<1> QED
  BY <1>1, <1>2

(* A reference that t holds is given back.                                  *)
LEMMA ReleaseStep ==
  ASSUME NodeInv, RingInv', NEW t \in Threads, Only(t), Control(t)', pc'[t] # "new",
         NEW g \in Services, Release(g),
         UNCHANGED <<launched, H, given, handle, registered, in_global, freed, queue>>,
         Holds(t, g) >= 1, Holds(t, g)' = Holds(t, g) - 1,
         \A h \in Services : h # g => Holds(t, h)' = Holds(t, h),
         InHand(t)' = InHand(t)
  PROVE  NodeInv'
<1>1. /\ g \in Handles /\ g \in Ids /\ Services \subseteq Handles
      /\ Services \subseteq Ids
  BY ServiceFacts DEF NodeInv
<1>2. ref[g] \in Nat /\ ref[g] >= 1 /\ ~release[g]
  BY HolderFacts
<1>3. /\ ref \in [Handles -> Int] /\ ref' \in [Handles -> Int]
      /\ \A h \in Handles : ref'[h] = IF h = g THEN ref[h] - 1 ELSE ref[h]
  <2>1. ref' = [ref EXCEPT ![g] = @ - 1]
    BY DEF Release
  <2>2. ref \in [Handles -> Int]
    BY DEF NodeInv, StoreInv
  <2> QED
    BY <1>1, <2>1, <2>2
<1>4. /\ release' \in [Handles -> BOOLEAN]
      /\ \A h \in Handles : h # g => (release'[h] <=> release[h])
      /\ release'[g] <=> ref[g] = 1
  <2>1. CASE ref[g] = 1
    <3>1. release' = [release EXCEPT ![g] = TRUE]
      BY <2>1 DEF Release, MarkRelease
    <3> QED
      BY <1>1, <2>1, <3>1 DEF NodeInv, StoreInv
  <2>2. CASE ref[g] # 1
    <3>1. release' = release
      BY <2>2 DEF Release
    <3> QED
      BY <1>2, <2>2, <3>1 DEF NodeInv, StoreInv
  <2> QED
    BY <2>1, <2>2
<1>5. StoreInv'
  BY <1>3, <1>4 DEF StoreInv, NodeInv
<1>6. RefInv'
  <2>1. ASSUME NEW h \in Services
        PROVE  /\ StorageRef(h)' + Holds(t, h)' - ref'[h] = StorageRef(h) + Holds(t, h) - ref[h]
               /\ release'[h] <=> ref'[h] = 0
               /\ InStorage(H', h) => InStorage(H, h) /\ StorageRef(h)' = StorageRef(h)
    <3>1. StorageRef(h)' = StorageRef(h) /\ StorageRef(h) \in Int
      BY DEF StorageRef
    <3>2. h \in Handles /\ Holds(t, h) \in Int /\ ref[h] \in Int
      BY <1>1, <1>3, HeldStep
    <3>3. CASE h = g
      <4>1. ref'[h] = ref[h] - 1 /\ Holds(t, h)' = Holds(t, h) - 1
        BY <1>3, <3>2, <3>3
      <4>2. release'[h] <=> ref[h] = 1
        BY <1>4, <3>3
      <4> QED
        BY <3>1, <3>2, <4>1, <4>2
    <3>4. CASE h # g
      <4>1. ref'[h] = ref[h] /\ Holds(t, h)' = Holds(t, h)
        BY <1>3, <3>2, <3>4
      <4>2. (release[h] <=> ref[h] = 0) /\ (release'[h] <=> release[h])
        BY <1>4, <3>2, <3>4 DEF NodeInv, RefInv
      <4> QED
        BY <3>1, <3>2, <4>1, <4>2
    <3> QED
      BY <3>3, <3>4
  <2> QED
    BY <1>1, <1>3, <2>1, CountsKept DEF NodeInv
<1>7. Services' = Services
  BY DEF Services
<1>8. \A u \in Threads : InHand(u)' = InHand(u)
  BY HandsOnly
<1>9. g \notin freed
  BY <1>2 DEF NodeInv, PlaceInv, At
<1>10. PlaceInv'
  <2>1. CASE ref[g] = 1 /\ ~in_global[g]
    <3>1. global' = Append(global, g)
      BY <2>1 DEF Release, MarkRelease
    <3>2. Nowhere(g)
      BY <1>2, <2>1 DEF NodeInv, PlaceInv, At
    <3>3. ASSUME NEW h \in Ids
          PROVE  IF h = g THEN Alone(h)' ELSE Placed(h)
      BY <1>1, <1>8, <3>1, <3>2, PlacesAdded DEF NodeInv, RingInv
    <3>4. At(g)'
      BY <1>1, <1>4, <1>9, <2>1, <3>3 DEF At
    <3>5. ASSUME NEW h \in Services, h # g PROVE At(h)'
      BY <1>1, <1>4, <3>3, <3>5, AtKept DEF NodeInv, PlaceInv
    <3>6. ASSUME NEW h \in Ids \ Services PROVE Nowhere(h)'
      BY <3>3 DEF NodeInv, PlaceInv, Placed
    <3> QED
      BY <1>7, <3>4, <3>5, <3>6 DEF PlaceInv
  <2>2. CASE ~(ref[g] = 1 /\ ~in_global[g])
    <3>1. global' = global
      BY <2>2 DEF Release, MarkRelease
    <3>2. ASSUME NEW h \in Ids PROVE Placed(h)
      BY <1>8, <3>1, PlacesSame
    <3>3. At(g)'
      <4>1. in_global[g] => Alone(g)
        BY <1>9 DEF NodeInv, PlaceInv, At
      <4>2. ~in_global[g] => Nowhere(g) /\ IsEmpty(queue[g])
        BY <1>2 DEF NodeInv, PlaceInv, At
      <4>3. ~in_global[g] => ~release'[g]
        BY <1>4, <2>2
      <4> QED
        BY <1>1, <1>9, <3>2, <4>1, <4>2, <4>3 DEF At, Placed
    <3>4. ASSUME NEW h \in Services, h # g PROVE At(h)'
      BY <1>1, <1>4, <3>2, <3>4, AtKept DEF NodeInv, PlaceInv
    <3>5. ASSUME NEW h \in Ids \ Services PROVE Nowhere(h)'
      BY <3>2 DEF NodeInv, PlaceInv, Placed
    <3> QED
      BY <1>7, <3>3, <3>4, <3>5 DEF PlaceInv
  <2> QED
    BY <2>1, <2>2
<1>11. Fresh'
  BY <1>4, <1>7 DEF Fresh, NodeInv
<1> QED
  BY <1>1, <1>4, <1>2, <1>5, <1>6, <1>10, <1>11, Assembled DEF NodeInv, NewInv

(* A service is retired: the reference of the storage goes to t.            *)
LEMMA RetireStep ==
  ASSUME NodeInv, RingInv', NEW t \in Threads, Only(t), Control(t)', pc'[t] # "new",
         NEW g \in Handles, Found(g),
         H' = skynet_handle_retire(H, handle, handle[g]),
         registered' = registered \ {g},
         UNCHANGED <<launched, given, handle, ref, release, in_global, freed, queue, global>>,
         Holds(t, g)' = Holds(t, g) + 1,
         \A h \in Services : h # g => Holds(t, h)' = Holds(t, h),
         InHand(t)' = InHand(t)
  PROVE  NodeInv'
<1>1. /\ g \in Services /\ Services \subseteq Handles /\ launched \in Nat
      /\ StorageRef(g) = 1 /\ handle[g] \in Nat /\ handle[g] # 0 /\ Services' = Services
  BY FoundFacts, ServiceFacts DEF NodeInv, Services
<1>2. /\ GoodStorage(H', launched)
      /\ ~InStorage(H', g)
      /\ \A h \in Services : InStorage(H', h) => InStorage(H, h)
  <2>1. GoodStorage(H, launched) /\ g \in 1 .. launched
    BY <1>1 DEF NodeInv, StoreInv, Services
  <2>2. skynet_handle_grab(H, handle, handle[g]) = g
    BY DEF Found
  <2> QED
    BY <1>1, <2>1, <2>2, Retired DEF Services
<1>3. StoreInv'
  BY <1>2 DEF StoreInv, NodeInv
<1>4. RefInv'
  <2>1. ASSUME NEW h \in Services
        PROVE  /\ StorageRef(h)' + Holds(t, h)' - ref'[h] = StorageRef(h) + Holds(t, h) - ref[h]
               /\ release'[h] <=> ref'[h] = 0
               /\ InStorage(H', h) => InStorage(H, h) /\ StorageRef(h)' = StorageRef(h)
    <3>1. Holds(t, h) \in Int /\ ref[h] \in Int /\ StorageRef(h) \in Int /\ StorageRef(h)' \in Int
      BY <1>1, HeldStep DEF NodeInv, StoreInv, StorageRef
    <3>2. (release'[h] <=> ref'[h] = 0) /\ ref'[h] = ref[h]
      BY DEF NodeInv, RefInv
    <3>3. CASE h = g
      <4>1. StorageRef(h)' = 0 /\ StorageRef(h) = 1 /\ Holds(t, h)' = Holds(t, h) + 1
        BY <1>1, <3>3 DEF StorageRef
      <4> QED
        BY <1>2, <3>1, <3>2, <3>3, <4>1
    <3>4. CASE h # g
      <4>1. StorageRef(h)' = StorageRef(h) /\ Holds(t, h)' = Holds(t, h)
        BY <3>4 DEF StorageRef
      <4> QED
        BY <1>2, <3>1, <3>2, <4>1
    <3> QED
      BY <3>3, <3>4
  <2> QED
    BY <1>1, <2>1, CountsKept DEF NodeInv, StoreInv
<1>5. \A u \in Threads : InHand(u)' = InHand(u)
  BY HandsOnly
<1>6. ASSUME NEW h \in Ids PROVE Placed(h)
  BY <1>5, PlacesSame
<1>7. PlaceInv'
  BY <1>1, <1>6, AtKept, ServiceFacts DEF PlaceInv, Placed, NodeInv
<1>8. Fresh'
  BY <1>1 DEF Fresh, NodeInv
<1> QED
  BY <1>3, <1>4, <1>7, <1>8, Assembled DEF NodeInv, NewInv

(* Only services are in the global queue.                                   *)
LEMMA HeadIsService ==
  ASSUME NodeInv, global # <<>>
  PROVE  Head(global) \in Services
<1>1. global \in Seq(Ids)
  BY DEF NodeInv, RingInv
<1>2. Head(global) \in Ids
  BY <1>1
<1>3. ~Never(global, Head(global))
  BY <1>1, OnceTaken
<1> QED
  BY <1>2, <1>3 DEF NodeInv, PlaceInv, Nowhere

(* A queue that somebody has in hand.                                       *)
LEMMA InHandFacts ==
  ASSUME NodeInv, NEW t \in Threads, NEW g \in Services, g \in InHand(t)
  PROVE  Alone(g) /\ g \notin freed /\ (in_global[g] \/ release[g])
<1>1. ~Nowhere(g)
  BY DEF Nowhere
<1> QED
  BY <1>1 DEF NodeInv, PlaceInv, At

-----------------------------------------------------------------------------
(* The steps of a worker.                                                   *)
LEMMA WorkerFacts ==
  ASSUME NodeInv, NEW t \in Threads
  PROVE  /\ Control(t) /\ pc[t] \in Labels
         /\ q \in [Threads -> Ids] /\ new \in [Threads -> Ids]
         /\ dst \in [Threads -> Ids] /\ pc \in [Threads -> Labels]
         /\ back \in [Threads -> Labels] /\ global \in Seq(Ids)
         /\ Workers \subseteq Threads
  BY DEF NodeInv, RingInv, Threads

(* It goes to sleep, ends, returns from a callback or sets an init flag.    *)
LEMMA PauseKeeps ==
  ASSUME NodeInv, RingInv', NEW w \in Workers,
         Sleep(w) \/ Quit(w) \/ Return(w) \/ Flag(w)
  PROVE  NodeInv'
<1>0. w \in Threads
  BY DEF Threads
<1>1. /\ Only(w)
      /\ q'[w] = q[w] /\ new'[w] = new[w] /\ dst'[w] = dst[w] /\ back'[w] = back[w]
  BY <1>0, WorkerFacts DEF Sleep, Quit, Return, Flag, Goto, Only
<1>2. \/ pc[w] = "empty" /\ pc'[w] \in {"top", "asleep"}
      \/ pc[w] = "top" /\ pc'[w] = "done"
      \/ pc[w] = "run" /\ pc'[w] \in {"more", "yield"}
      \/ pc[w] = "flag" /\ pc'[w] = "start"
  BY <1>0, WorkerFacts DEF Sleep, Quit, Return, Flag, Goto
<1>3. UNCHANGED <<launched, H, given, handle, registered, ref, release, in_global, freed,
                  queue, global>>
  BY DEF Sleep, Quit, Return, Flag, storage, handles, queues
<1>4. Control(w)'
  BY <1>0, <1>1, <1>2, <1>3, WorkerFacts
  DEF Control, Loc, HasTurn, HasOther, HasNoOther, Services
<1>5. ASSUME NEW h \in Services PROVE Holds(w, h)' = Holds(w, h)
  <2>1. q[w] = 0 \/ pc[w] \in {"top", "run", "flag"}
    BY <1>0, <1>2, WorkerFacts DEF Control, Loc
  <2>2. h # 0
    BY DEF Services
  <2> QED
    BY <1>0, <1>1, <1>2, <2>1, <2>2 DEF Holds, Serves, Pushes, Launches
<1>6. InHand(w)' = InHand(w)
  BY <1>1, <1>2 DEF InHand
<1>7. ASSUME NEW h \in Ids PROVE Placed(h)
  BY <1>0, <1>1, <1>3, <1>6, HandsOnly, PlacesSame
<1> QED
  BY <1>0, <1>1, <1>2, <1>3, <1>4, <1>5, <1>7, MoveStep

(* It takes the first of the global queue, or finds that empty.             *)
LEMMA GlobalPopKeeps ==
  ASSUME NodeInv, RingInv', NEW w \in Workers, GlobalPop(w)
  PROVE  NodeInv'
<1>0. w \in Threads
  BY DEF Threads
<1>1. /\ Only(w) /\ pc[w] = "top" /\ q[w] = 0
      /\ new'[w] = new[w] /\ dst'[w] = dst[w] /\ back'[w] = back[w]
  BY <1>0, WorkerFacts DEF GlobalPop, Goto, Only
<1>2. UNCHANGED <<launched, H, given, handle, registered, ref, release, in_global, freed, queue>>
  BY DEF GlobalPop, storage, handles
<1>3. CASE global = <<>>
  <2>1. pc'[w] = "empty" /\ q'[w] = q[w] /\ global' = global
    BY <1>0, <1>3, WorkerFacts DEF GlobalPop, Goto
  <2>2. Control(w)'
    BY <1>0, <1>1, <1>2, <2>1, WorkerFacts
    DEF Control, Loc, HasTurn, HasOther, HasNoOther, Services
  <2>3. ASSUME NEW h \in Services PROVE Holds(w, h)' = Holds(w, h)
    BY <1>1, <2>1 DEF Holds, Serves, Pushes, Launches, Services
  <2>4. InHand(w)' = InHand(w)
    BY <1>1, <2>1 DEF InHand
  <2>5. ASSUME NEW h \in Ids PROVE Placed(h)
    BY <1>0, <1>1, <2>1, <2>4, HandsOnly, PlacesSame
  <2> QED
    BY <1>0, <1>1, <1>2, <2>1, <2>2, <2>3, <2>5, MoveStep
<1>4. CASE global # <<>>
  <2>1. /\ pc'[w] = "top" /\ q'[w] = Head(global) /\ global' = Tail(global)
    BY <1>0, <1>1, <1>4, WorkerFacts DEF GlobalPop
  <2>2. Head(global) \in Services
    BY <1>0, <1>4, HeadIsService
  <2>3. Control(w)'
    BY <1>0, <1>1, <1>2, <2>1, <2>2, WorkerFacts, ServiceFacts
    DEF Control, Loc, HasTurn, HasOther, HasNoOther, Services, NodeInv
  <2>4. ASSUME NEW h \in Services PROVE Holds(w, h)' = Holds(w, h)
    BY <1>1, <2>1 DEF Holds, Serves, Pushes, Launches
  <2>5. InHand(w)' = InHand(w) \cup {Head(global)}
    BY <1>1, <2>1, <2>2, ServiceFacts DEF InHand, NodeInv
  <2>6. ASSUME NEW h \in Ids PROVE Placed(h)
    BY <1>0, <1>1, <1>4, <2>1, <2>5, HandsOnly, PlacesTaken, WorkerFacts
  <2> QED
    BY <1>0, <1>1, <1>2, <2>1, <2>3, <2>4, <2>6, MoveStep
<1> QED
  BY <1>3, <1>4

(* The context of its queue is gone.                                        *)
LEMMA BeginTurnMisses ==
  ASSUME NodeInv, RingInv', NEW w \in Workers, BeginTurn(w), ~Found(q[w])
  PROVE  NodeInv'
<1>0. w \in Threads
  BY DEF Threads
<1>1. /\ Only(w) /\ pc[w] = "top" /\ q[w] # 0
      /\ pc'[w] = "release" /\ q'[w] = 0 /\ new'[w] = q[w]
      /\ dst'[w] = dst[w] /\ back'[w] = back[w]
  BY <1>0, WorkerFacts DEF BeginTurn, Goto, Only
<1>2. UNCHANGED <<launched, H, given, handle, registered, ref, release, in_global, freed,
                  queue, global>>
  BY DEF BeginTurn, storage, handles, queues
<1>3. Control(w)'
  BY <1>0, <1>1, <1>2, WorkerFacts
  DEF Control, Loc, HasTurn, HasOther, HasNoOther, Services
<1>4. new[w] = 0 /\ back[w] = "top"
  BY <1>0, <1>1, WorkerFacts DEF Control, Loc, HasNoOther
<1>5. ASSUME NEW h \in Services PROVE Holds(w, h)' = Holds(w, h)
  BY <1>1, <1>4 DEF Holds, Serves, Pushes, Launches, Services
<1>6. InHand(w)' = InHand(w)
  BY <1>1, <1>4 DEF InHand
<1>7. ASSUME NEW h \in Ids PROVE Placed(h)
  BY <1>0, <1>1, <1>2, <1>6, HandsOnly, PlacesSame
<1> QED
  BY <1>0, <1>1, <1>2, <1>3, <1>5, <1>7, MoveStep

(* The context of its queue is there.                                       *)
LEMMA BeginTurnFinds ==
  ASSUME NodeInv, RingInv', NEW w \in Workers, BeginTurn(w), Found(q[w])
  PROVE  NodeInv'
<1>0. w \in Threads
  BY DEF Threads
<1>1. /\ Only(w) /\ pc[w] = "top" /\ q[w] # 0
      /\ pc'[w] = "first" /\ q'[w] = q[w] /\ new'[w] = new[w]
      /\ dst'[w] = dst[w] /\ back'[w] = back[w]
  BY <1>0, WorkerFacts DEF BeginTurn, Goto, Only
<1>2. /\ UNCHANGED <<launched, H, given, handle, registered, release, in_global, freed,
                     queue, global>>
      /\ Grab(q[w])
  BY DEF BeginTurn, handles, queues
<1>3. Control(w)'
  BY <1>0, <1>1, <1>2, WorkerFacts
  DEF Control, Loc, HasTurn, HasOther, HasNoOther, Services
<1>4. q[w] \in Services /\ q[w] \in Handles
  BY <1>0, <1>1, WorkerFacts, ServiceFacts DEF Control, NodeInv
<1>5. ASSUME NEW h \in Services
      PROVE  Holds(w, h)' = IF h = q[w] THEN Holds(w, h) + 1 ELSE Holds(w, h)
  <2>1. /\ Pushes(w, h)' = Pushes(w, h) /\ Launches(w, h)' = Launches(w, h)
        /\ ~Serves(w, h) /\ (Serves(w, h)' <=> h = q[w])
    BY <1>1 DEF Serves, Pushes, Launches
  <2>2. /\ One(Pushes(w, h))' = One(Pushes(w, h))
        /\ One(Launches(w, h))' = One(Launches(w, h))
        /\ One(Pushes(w, h)) \in Int /\ One(Launches(w, h)) \in Int
        /\ One(Serves(w, h)) = 0
        /\ One(Serves(w, h))' = IF h = q[w] THEN 1 ELSE 0
    BY <2>1 DEF One
  <2> QED
    BY <2>2 DEF Holds
<1>6. InHand(w)' = InHand(w)
  BY <1>1 DEF InHand
<1>7. ASSUME NEW h \in Ids PROVE Placed(h)
  BY <1>0, <1>1, <1>2, <1>6, HandsOnly, PlacesSame
<1>8. ASSUME NEW h \in Services PROVE At(h)'
  BY <1>2, <1>7, AtKept, ServiceFacts DEF NodeInv, PlaceInv
<1>9. ASSUME NEW h \in Ids \ Services PROVE Nowhere(h)'
  BY <1>7 DEF NodeInv, PlaceInv, Placed
<1> QED
  BY <1>0, <1>1, <1>2, <1>3, <1>4, <1>5, <1>8, <1>9, GrabStep

(* It finds its queue empty, and nobody has it in hand any more.            *)
LEMMA EmptyKeeps ==
  ASSUME NodeInv, RingInv', NEW w \in Workers, Empty(w)
  PROVE  NodeInv'
<1> DEFINE g == q[w]
<1>0. w \in Threads
  BY DEF Threads
<1>1. /\ Only(w) /\ pc[w] \in {"first", "more"}
      /\ pc'[w] = "turned" /\ q'[w] = q[w] /\ new'[w] = new[w]
      /\ dst'[w] = dst[w] /\ back'[w] = back[w]
  BY <1>0, WorkerFacts DEF Empty, Goto, Only
<1>2. /\ UNCHANGED <<launched, H, given, handle, registered, ref, release, freed, queue, global>>
      /\ in_global' = [in_global EXCEPT ![g] = FALSE]
      /\ IsEmpty(queue[g])
  BY DEF Empty, storage, handles
<1>3. g \in Services /\ new[w] = 0 /\ g # 0 /\ g \in Handles
  BY <1>0, <1>1, WorkerFacts, ServiceFacts
  DEF Control, Loc, HasTurn, HasNoOther, NodeInv
<1>4. /\ in_global' \in [Handles -> BOOLEAN]
      /\ ~in_global'[g]
      /\ \A h \in Handles : h # g => (in_global'[h] <=> in_global[h])
  BY <1>2, <1>3 DEF NodeInv, StoreInv
<1>5. Control(w)'
  BY <1>0, <1>1, <1>2, WorkerFacts
  DEF Control, Loc, HasTurn, HasOther, HasNoOther, Services
<1>6. ASSUME NEW h \in Services PROVE Holds(w, h)' = Holds(w, h)
  BY <1>1 DEF Holds, Serves, Pushes, Launches
<1>7. g \in InHand(w) /\ InHand(w)' = InHand(w) \ {g}
  BY <1>1, <1>3 DEF InHand
<1>8. Holds(w, g) >= 1
  <2>1. One(Serves(w, g)) = 1
    BY <1>1 DEF One, Serves
  <2> QED
    BY <2>1 DEF Holds, One
<1>9. ~release[g]
  BY <1>0, <1>1, <1>3, <1>8, HolderFacts
<1>10. Alone(g) /\ g \notin freed
  BY <1>0, <1>3, <1>7, InHandFacts
<1>11. ASSUME NEW h PROVE IF h = g THEN Nowhere(h)' ELSE Placed(h)
  BY <1>0, <1>1, <1>2, <1>7, <1>10, HandsOnly, PlacesDropped
<1> HIDE DEF g
<1>12. ASSUME NEW h \in Services PROVE At(h)'
  <2>1. CASE h = g
    BY <1>2, <1>4, <1>9, <1>10, <1>11, <2>1 DEF At
  <2>2. CASE h # g
    BY <1>2, <1>4, <1>11, <2>2, AtKept, ServiceFacts DEF NodeInv, PlaceInv
  <2> QED
    BY <2>1, <2>2
<1>13. ASSUME NEW h \in Ids \ Services PROVE Nowhere(h)'
  BY <1>11 DEF NodeInv, PlaceInv, Placed
<1> QED
  BY <1>0, <1>1, <1>2, <1>3, <1>4, <1>5, <1>6, <1>12, <1>13, QuietStep DEF Fresh, NodeInv

(* It takes a message of the queue it has in hand.                          *)
LEMMA DispatchKeeps ==
  ASSUME NodeInv, RingInv', NEW w \in Workers, Dispatch(w)
  PROVE  NodeInv'
<1> DEFINE g == q[w]
<1>0. w \in Threads
  BY DEF Threads
<1>1. /\ Only(w) /\ pc[w] \in {"first", "more"}
      /\ pc'[w] = "run" /\ q'[w] = q[w] /\ new'[w] = new[w]
      /\ dst'[w] = dst[w] /\ back'[w] = back[w]
  BY <1>0, WorkerFacts DEF Dispatch, Goto, Only
<1>2. /\ UNCHANGED <<launched, H, given, handle, registered, ref, release, in_global,
                     freed, global>>
      /\ queue' = [queue EXCEPT ![g] = mq_pop(@)]
  BY DEF Dispatch, storage, handles
<1>3. g \in Services /\ g # 0 /\ g \in Handles
  BY <1>0, <1>1, WorkerFacts, ServiceFacts DEF Control, Loc, HasTurn, NodeInv
<1>4. \A h \in Handles : h # g => queue'[h] = queue[h]
  BY <1>2 DEF NodeInv, RingInv
<1>5. Control(w)'
  BY <1>0, <1>1, <1>2, WorkerFacts
  DEF Control, Loc, HasTurn, HasOther, HasNoOther, Services
<1>6. ASSUME NEW h \in Services PROVE Holds(w, h)' = Holds(w, h)
  BY <1>1 DEF Holds, Serves, Pushes, Launches
<1>7. g \in InHand(w) /\ InHand(w)' = InHand(w)
  BY <1>1, <1>3 DEF InHand
<1>8. in_global[g] \/ release[g]
  BY <1>0, <1>3, <1>7, InHandFacts
<1> HIDE DEF g
<1>9. ASSUME NEW h \in Ids PROVE Placed(h)
  BY <1>0, <1>1, <1>2, <1>7, HandsOnly, PlacesSame
<1>10. ASSUME NEW h \in Services PROVE At(h)'
  <2>1. At(h) /\ Placed(h) /\ h \in Handles
    BY <1>9, ServiceFacts DEF NodeInv, PlaceInv
  <2>2. queue'[h] = queue[h] \/ in_global[h] \/ release[h]
    BY <1>4, <1>8, <2>1
  <2> QED
    BY <1>2, <2>1, <2>2, AtKept
<1>11. ASSUME NEW h \in Ids \ Services PROVE Nowhere(h)'
  BY <1>9 DEF NodeInv, PlaceInv, Placed
<1>12. \A h \in Handles \ Services : queue'[h] = queue[h]
  BY <1>3, <1>4
<1>13. in_global' \in [Handles -> BOOLEAN]
  BY <1>2 DEF NodeInv, StoreInv
<1> QED
  BY <1>0, <1>1, <1>2, <1>5, <1>6, <1>10, <1>11, <1>12, <1>13, QuietStep

(* It goes on with the next of the global queue, or with its own.           *)
LEMMA YieldKeeps ==
  ASSUME NodeInv, RingInv', NEW w \in Workers, Yield(w)
  PROVE  NodeInv'
<1>0. w \in Threads
  BY DEF Threads
<1>1. /\ Only(w) /\ pc[w] = "yield"
      /\ q'[w] = q[w] /\ dst'[w] = dst[w] /\ back'[w] = back[w]
  BY <1>0, WorkerFacts DEF Yield, Goto, Only
<1>2. UNCHANGED <<launched, H, given, handle, registered, ref, release, in_global, freed, queue>>
  BY DEF Yield, storage, handles
<1>3. q[w] \in Services /\ new[w] = 0 /\ q[w] # 0
  BY <1>0, <1>1, WorkerFacts DEF Control, Loc, HasTurn, HasNoOther
<1>4. CASE global = <<>>
  <2>1. pc'[w] = "turned" /\ new'[w] = q[w] /\ global' = global
    BY <1>0, <1>4, WorkerFacts DEF Yield, Goto
  <2>2. Control(w)'
    BY <1>0, <1>1, <1>2, <2>1, WorkerFacts
    DEF Control, Loc, HasTurn, HasOther, HasNoOther, Services
  <2>3. ASSUME NEW h \in Services PROVE Holds(w, h)' = Holds(w, h)
    BY <1>0, <1>1, <2>1, WorkerFacts
    DEF Holds, Serves, Pushes, Launches, Control
  <2>4. InHand(w)' = InHand(w)
    BY <1>1, <1>3, <2>1 DEF InHand
  <2>5. ASSUME NEW h \in Ids PROVE Placed(h)
    BY <1>0, <1>1, <2>1, <2>4, HandsOnly, PlacesSame
  <2> QED
    BY <1>0, <1>1, <1>2, <2>1, <2>2, <2>3, <2>5, MoveStep
<1>5. CASE global # <<>>
  <2>1. pc'[w] = "requeue" /\ new'[w] = Head(global) /\ global' = Tail(global)
    BY <1>0, <1>1, <1>5, WorkerFacts DEF Yield, Goto
  <2>2. Head(global) \in Services /\ Head(global) # q[w]
    <3>1. q[w] \in InHand(w)
      BY <1>1, <1>3 DEF InHand
    <3>2. Never(global, q[w])
      BY <1>0, <1>3, <3>1, InHandFacts DEF Alone
    <3> QED
      BY <1>5, <3>2, HeadIsService, OnceTaken, WorkerFacts, <1>0
  <2>3. Control(w)'
    BY <1>0, <1>1, <1>2, <2>1, <2>2, WorkerFacts, ServiceFacts
    DEF Control, Loc, HasTurn, HasOther, HasNoOther, Services, NodeInv
  <2>4. ASSUME NEW h \in Services PROVE Holds(w, h)' = Holds(w, h)
    BY <1>0, <1>1, <2>1, WorkerFacts
    DEF Holds, Serves, Pushes, Launches, Control
  <2>5. InHand(w)' = InHand(w) \cup {Head(global)}
    BY <1>1, <1>3, <2>1, <2>2, ServiceFacts DEF InHand, NodeInv
  <2>6. ASSUME NEW h \in Ids PROVE Placed(h)
    BY <1>0, <1>1, <1>5, <2>1, <2>5, HandsOnly, PlacesTaken, WorkerFacts
  <2> QED
    BY <1>0, <1>1, <1>2, <2>1, <2>3, <2>4, <2>6, MoveStep
<1> QED
  BY <1>4, <1>5

(* It puts the queue it has in hand in the global queue.                    *)
LEMMA RequeueKeeps ==
  ASSUME NodeInv, RingInv', NEW w \in Workers, Requeue(w)
  PROVE  NodeInv'
<1>0. w \in Threads
  BY DEF Threads
<1>1. /\ Only(w) /\ pc[w] = "requeue" /\ pc'[w] = "turned"
      /\ q'[w] = q[w] /\ new'[w] = new[w] /\ dst'[w] = dst[w] /\ back'[w] = back[w]
  BY <1>0, WorkerFacts DEF Requeue, Goto, Only
<1>2. /\ UNCHANGED <<launched, H, given, handle, registered, ref, release, in_global, freed, queue>>
      /\ global' = Append(global, q[w])
  BY DEF Requeue, storage, handles
<1>3. q[w] \in Services /\ q[w] # 0 /\ new[w] # q[w] /\ q[w] \in Ids
  BY <1>0, <1>1, WorkerFacts, ServiceFacts DEF Control, Loc, HasTurn, NodeInv
<1>4. Control(w)'
  BY <1>0, <1>1, <1>2, WorkerFacts
  DEF Control, Loc, HasTurn, HasOther, HasNoOther, Services
<1>5. ASSUME NEW h \in Services PROVE Holds(w, h)' = Holds(w, h)
  BY <1>1 DEF Holds, Serves, Pushes, Launches
<1>6. q[w] \in InHand(w) /\ InHand(w)' = InHand(w) \ {q[w]}
  BY <1>1, <1>3 DEF InHand
<1>7. ASSUME NEW h \in Ids PROVE Placed(h)
  BY <1>0, <1>1, <1>2, <1>3, <1>6, HandsOnly, PlacesGiven, WorkerFacts
<1> QED
  BY <1>0, <1>1, <1>2, <1>4, <1>5, <1>7, MoveStep

(* It gives back the context of its turn.                                   *)
LEMMA EndTurnKeeps ==
  ASSUME NodeInv, RingInv', NEW w \in Workers, EndTurn(w)
  PROVE  NodeInv'
<1>0. w \in Threads
  BY DEF Threads
<1>1. /\ Only(w) /\ pc[w] = "turned" /\ pc'[w] = "top"
      /\ q'[w] = new[w] /\ new'[w] = 0 /\ dst'[w] = dst[w] /\ back'[w] = back[w]
  BY <1>0, WorkerFacts DEF EndTurn, Goto, Only
<1>2. /\ UNCHANGED <<launched, H, given, handle, registered, in_global, freed, queue>>
      /\ Release(q[w])
  BY DEF EndTurn, handles
<1>3. q[w] \in Services /\ dst[w] = 0 /\ back[w] = "top"
  BY <1>0, <1>1, WorkerFacts DEF Control, Loc, HasTurn
<1>4. Control(w)'
  BY <1>0, <1>1, <1>2, <1>3, WorkerFacts
  DEF Control, Loc, HasTurn, HasOther, HasNoOther, Services
<1>5. ASSUME NEW h \in Services
      PROVE  /\ h = q[w] => Holds(w, h) = 1 /\ Holds(w, h)' = 0
             /\ h # q[w] => Holds(w, h)' = Holds(w, h)
  BY <1>1, <1>3 DEF Holds, Serves, Pushes, Launches, One, Services
<1>6. InHand(w)' = InHand(w)
  BY <1>1 DEF InHand
<1> QED
  BY <1>0, <1>1, <1>2, <1>3, <1>4, <1>5, <1>6, ReleaseStep

-----------------------------------------------------------------------------
(* Delivering a message.                                                    *)
LEMMA SendKeeps ==
  ASSUME NodeInv, RingInv', NEW t \in Threads, NEW h \in Handles, Send(t, h)
  PROVE  NodeInv'
<1>1. /\ Only(t) /\ pc'[t] = "push" /\ dst'[t] = h /\ back'[t] = pc[t]
      /\ q'[t] = q[t] /\ new'[t] = new[t]
      /\ pc[t] \in IF t \in Workers THEN {"run", "init"} ELSE {"top"}
  BY WorkerFacts DEF Send, Sends, Take, Goto, Only
<1>2. /\ UNCHANGED <<launched, H, given, handle, registered, release, in_global, freed,
                     queue, global>>
      /\ Grab(h) /\ Found(h)
  BY DEF Send, handles, queues
<1>3. h \in Services /\ handle[h] # 0 /\ h # 0
  BY <1>2, FoundFacts, ServiceFacts DEF NodeInv
<1>4. dst[t] = 0 /\ back[t] = "top"
  BY <1>1, WorkerFacts DEF Control
<1>5. Control(t)'
  BY <1>1, <1>2, <1>3, WorkerFacts
  DEF Control, Loc, HasTurn, HasOther, HasNoOther, Services
<1>6. ASSUME NEW g \in Services
      PROVE  Holds(t, g)' = IF g = h THEN Holds(t, g) + 1 ELSE Holds(t, g)
  <2>1. /\ Serves(t, g)' <=> Serves(t, g)
        /\ Launches(t, g)' <=> Launches(t, g)
        /\ ~Pushes(t, g) /\ (Pushes(t, g)' <=> g = h)
    BY <1>1, <1>4, WorkerFacts DEF Serves, Pushes, Launches, Control, Services
  <2>2. /\ One(Serves(t, g))' = One(Serves(t, g))
        /\ One(Launches(t, g))' = One(Launches(t, g))
        /\ One(Serves(t, g)) \in Int /\ One(Launches(t, g)) \in Int
        /\ One(Pushes(t, g)) = 0
        /\ One(Pushes(t, g))' = IF g = h THEN 1 ELSE 0
    BY <2>1 DEF One
  <2> QED
    BY <2>2 DEF Holds
<1>7. InHand(t)' = InHand(t)
  BY <1>1 DEF InHand
<1>8. ASSUME NEW g \in Ids PROVE Placed(g)
  BY <1>1, <1>2, <1>7, HandsOnly, PlacesSame
<1>9. ASSUME NEW g \in Services PROVE At(g)'
  BY <1>2, <1>8, AtKept, ServiceFacts DEF NodeInv, PlaceInv
<1>10. ASSUME NEW g \in Ids \ Services PROVE Nowhere(g)'
  BY <1>8 DEF NodeInv, PlaceInv, Placed
<1> QED
  BY <1>1, <1>2, <1>3, <1>5, <1>6, <1>9, <1>10, GrabStep

(* The queue pushed to was scheduled, or was nowhere and is now.            *)
LEMMA PushKeeps ==
  ASSUME NodeInv, RingInv', NEW t \in Threads, PushMessage(t)
  PROVE  NodeInv'
<1>0. PICK g : g = dst[t]
  OBVIOUS
<1>1. /\ Only(t) /\ pc[t] = "push" /\ pc'[t] = "put"
      /\ q'[t] = q[t] /\ new'[t] = new[t] /\ dst'[t] = dst[t] /\ back'[t] = back[t]
  BY WorkerFacts DEF PushMessage, Goto, Only
<1>2. /\ UNCHANGED <<launched, H, given, handle, registered, ref, release, freed>>
      /\ \E source : queue' = [queue EXCEPT ![g] = mq_push(@, source)]
      /\ in_global' = [in_global EXCEPT ![g] = TRUE]
      /\ global' = IF in_global[g] THEN global ELSE Append(global, g)
  BY <1>0 DEF PushMessage, Push, storage, handles
<1>3. g \in Services /\ g # 0 /\ g \in Handles /\ g \in Ids /\ handle[g] # 0
  BY <1>0, <1>1, WorkerFacts, ServiceFacts DEF Control, NodeInv
<1>4. /\ in_global' \in [Handles -> BOOLEAN]
      /\ in_global'[g]
      /\ \A h \in Handles : h # g => (in_global'[h] <=> in_global[h])
  BY <1>2, <1>3 DEF NodeInv, StoreInv
<1>5. \A h \in Handles : h # g => queue'[h] = queue[h]
  BY <1>2 DEF NodeInv, RingInv
<1>6. Control(t)'
  BY <1>1, <1>2, WorkerFacts
  DEF Control, Loc, HasTurn, HasOther, HasNoOther, Services
<1>7. ASSUME NEW h \in Services PROVE Holds(t, h)' = Holds(t, h)
  BY <1>1 DEF Holds, Serves, Pushes, Launches
<1>8. InHand(t)' = InHand(t)
  BY <1>1 DEF InHand
<1>9. \A u \in Threads : InHand(u)' = InHand(u)
  BY <1>1, <1>8, HandsOnly
<1>10. Holds(t, g) >= 1
  <2>1. One(Pushes(t, g)) = 1
    BY <1>0 DEF One, Pushes
  <2> QED
    BY <2>1 DEF Holds, One
<1>11. ~release[g]
  BY <1>1, <1>3, <1>10, HolderFacts
<1>12. g \notin freed
  BY <1>3, <1>11 DEF NodeInv, PlaceInv, At
<1>13. Alone(g)' /\ \A h \in Ids : h # g => Placed(h)
  <2>1. CASE in_global[g]
    <3>1. Alone(g)
      BY <1>3, <1>12, <2>1 DEF NodeInv, PlaceInv, At
    <3>2. ASSUME NEW h \in Ids PROVE Placed(h)
      BY <1>2, <1>9, <2>1, PlacesSame
    <3> QED
      BY <1>3, <3>1, <3>2 DEF Placed
  <2>2. CASE ~in_global[g]
    <3>1. Nowhere(g)
      BY <1>3, <1>11, <2>2 DEF NodeInv, PlaceInv, At
    <3>2. global' = Append(global, g)
      BY <1>2, <2>2
    <3>3. ASSUME NEW h \in Ids
          PROVE  IF h = g THEN Alone(h)' ELSE Placed(h)
      BY <1>1, <1>3, <1>9, <3>1, <3>2, PlacesAdded, WorkerFacts
    <3> QED
      BY <1>3, <3>3
  <2> QED
    BY <2>1, <2>2
<1>14. ASSUME NEW h \in Services PROVE At(h)'
  <2>1. CASE h = g
    BY <1>2, <1>4, <1>12, <1>13, <2>1 DEF At
  <2>2. CASE h # g
    <3>1. At(h) /\ Placed(h) /\ h \in Handles
      BY <1>13, <2>2, ServiceFacts DEF NodeInv, PlaceInv
    <3> QED
      BY <1>2, <1>4, <1>5, <2>2, <3>1, AtKept
  <2> QED
    BY <2>1, <2>2
<1>15. ASSUME NEW h \in Ids \ Services PROVE Nowhere(h)'
  BY <1>3, <1>13 DEF NodeInv, PlaceInv, Placed
<1>16. \A h \in Handles : in_global'[h] => in_global[h] \/ (h \in Services /\ handle[h] # 0)
  BY <1>3, <1>4
<1>17. \A h \in Handles \ Services : queue'[h] = queue[h]
  BY <1>3, <1>5
<1> QED
  BY <1>1, <1>2, <1>4, <1>6, <1>7, <1>14, <1>15, <1>16, <1>17, QuietStep

(* A thread gives back the reference it pushed under.                       *)
LEMMA PutKeeps ==
  ASSUME NodeInv, RingInv', NEW t \in Threads, Put(t)
  PROVE  NodeInv'
<1>1. /\ Only(t) /\ pc[t] = "put" /\ pc'[t] = back[t]
      /\ q'[t] = q[t] /\ new'[t] = new[t] /\ dst'[t] = 0 /\ back'[t] = "top"
  BY WorkerFacts DEF Put, Goto, Only
<1>2. /\ UNCHANGED <<launched, H, given, handle, registered, in_global, freed, queue>>
      /\ Release(dst[t])
  BY DEF Put, handles
<1>3. dst[t] \in Services /\ dst[t] # 0
  BY <1>1, WorkerFacts DEF Control
<1>4. /\ back[t] \in {"top", "run", "init", "drop", "release"}
      /\ t \in Workers => back[t] # "top"
      /\ t \notin Workers => back[t] = "top" /\ q[t] = 0 /\ new[t] = 0
  BY <1>1, WorkerFacts DEF Control
<1>5. back[t] = "drop" => release'[new[t]]
  <2>1. ASSUME back[t] = "drop" PROVE release[new[t]] /\ new[t] \in Services
    BY <1>1, <2>1, WorkerFacts DEF Control, Loc, HasOther
  <2>2. release' = release \/ release' = [release EXCEPT ![dst[t]] = TRUE]
    BY <1>2 DEF Release, MarkRelease
  <2> QED
    BY <2>1, <2>2, ServiceFacts DEF NodeInv, StoreInv
<1>6. Control(t)'
  BY <1>1, <1>2, <1>4, <1>5, WorkerFacts
  DEF Control, Loc, HasTurn, HasOther, HasNoOther, Services
<1>7. ASSUME NEW h \in Services
      PROVE  /\ h = dst[t] => Holds(t, h) >= 1 /\ Holds(t, h)' = Holds(t, h) - 1
             /\ h # dst[t] => Holds(t, h)' = Holds(t, h)
  <2>1. /\ Serves(t, h)' <=> Serves(t, h)
        /\ Launches(t, h)' <=> Launches(t, h)
        /\ ~Pushes(t, h)' /\ (Pushes(t, h) <=> h = dst[t])
    BY <1>1, <1>4, WorkerFacts DEF Serves, Pushes, Launches, Services
  <2>2. /\ One(Serves(t, h))' = One(Serves(t, h))
        /\ One(Launches(t, h))' = One(Launches(t, h))
        /\ One(Serves(t, h)) \in Nat /\ One(Launches(t, h)) \in Nat
        /\ One(Pushes(t, h))' = 0
        /\ One(Pushes(t, h)) = IF h = dst[t] THEN 1 ELSE 0
    BY <2>1 DEF One
  <2> QED
    BY <2>2 DEF Holds
<1>8. InHand(t)' = InHand(t)
  BY <1>1, <1>4 DEF InHand
<1> QED
  BY <1>1, <1>2, <1>3, <1>4, <1>6, <1>7, <1>8, ReleaseStep

-----------------------------------------------------------------------------
(* Retiring and launching.                                                  *)
LEMMA KillKeeps ==
  ASSUME NodeInv, RingInv', NEW w \in Workers, NEW h \in Handles, Kill(w, h)
  PROVE  NodeInv'
<1>0. w \in Threads
  BY DEF Threads
<1>1. /\ Only(w) /\ pc[w] \in {"run", "init"} /\ pc'[w] = "put" /\ dst'[w] = h
      /\ back'[w] = pc[w] /\ q'[w] = q[w] /\ new'[w] = new[w]
  BY <1>0, WorkerFacts DEF Kill, Retire, Take, Goto, Only
<1>2. /\ UNCHANGED <<launched, given, handle, ref, release, in_global, freed,
                     queue, global>>
      /\ H' = skynet_handle_retire(H, handle, handle[h])
      /\ registered' = registered \ {h}
      /\ Found(h)
  BY DEF Kill, Retire, queues
<1>3. h \in Services /\ handle[h] # 0 /\ h # 0
  BY <1>2, FoundFacts, ServiceFacts DEF NodeInv
<1>4. dst[w] = 0 /\ back[w] = "top"
  BY <1>0, <1>1, WorkerFacts DEF Control
<1>5. Control(w)'
  BY <1>0, <1>1, <1>2, <1>3, WorkerFacts
  DEF Control, Loc, HasTurn, HasOther, HasNoOther, Services
<1>6. ASSUME NEW g \in Services
      PROVE  Holds(w, g)' = IF g = h THEN Holds(w, g) + 1 ELSE Holds(w, g)
  <2>1. /\ Serves(w, g)' <=> Serves(w, g)
        /\ Launches(w, g)' <=> Launches(w, g)
        /\ ~Pushes(w, g) /\ (Pushes(w, g)' <=> g = h)
    BY <1>0, <1>1, <1>4 DEF Serves, Pushes, Launches, Services
  <2>2. /\ One(Serves(w, g))' = One(Serves(w, g))
        /\ One(Launches(w, g))' = One(Launches(w, g))
        /\ One(Serves(w, g)) \in Int /\ One(Launches(w, g)) \in Int
        /\ One(Pushes(w, g)) = 0
        /\ One(Pushes(w, g))' = IF g = h THEN 1 ELSE 0
    BY <2>1 DEF One
  <2> QED
    BY <2>2 DEF Holds
<1>7. InHand(w)' = InHand(w)
  BY <1>1 DEF InHand
<1> QED
  BY <1>0, <1>1, <1>2, <1>3, <1>5, <1>6, <1>7, RetireStep

(* A launch that failed takes the service out of the storage.               *)
LEMMA RetireFailedKeeps ==
  ASSUME NodeInv, RingInv', NEW w \in Workers, RetireFailed(w)
  PROVE  NodeInv'
<1> DEFINE h == new[w]
<1>0. w \in Threads
  BY DEF Threads
<1>1. /\ Only(w) /\ pc[w] = "failed"
      /\ q'[w] = q[w] /\ new'[w] = new[w]
  BY <1>0, WorkerFacts DEF RetireFailed, Retire, Take, Goto, Only
<1>2. /\ h \in Services /\ h # 0 /\ h \in Handles
      /\ q[w] # 0 /\ dst[w] = 0 /\ back[w] = "top"
  BY <1>0, <1>1, WorkerFacts, ServiceFacts DEF Control, Loc, HasTurn, HasOther, NodeInv
<1>3. UNCHANGED <<launched, given, handle, ref, release, in_global, freed, queue, global>>
  BY DEF RetireFailed, Retire, handles, queues
<1>4. CASE Found(h)
  <2>1. /\ pc'[w] = "put" /\ dst'[w] = h /\ back'[w] = "release"
        /\ H' = skynet_handle_retire(H, handle, handle[h])
        /\ registered' = registered \ {h}
    BY <1>0, <1>4, WorkerFacts DEF RetireFailed, Retire, Take, Goto
  <2>2. handle[h] # 0
    BY <1>2, <1>4, FoundFacts
  <2>3. Control(w)'
    BY <1>0, <1>1, <1>2, <1>3, <2>1, <2>2, WorkerFacts
    DEF Control, Loc, HasTurn, HasOther, HasNoOther, Services
  <2>4. ASSUME NEW g \in Services
        PROVE  Holds(w, g)' = IF g = h THEN Holds(w, g) + 1 ELSE Holds(w, g)
    <3>1. /\ Serves(w, g)' <=> Serves(w, g)
          /\ Launches(w, g)' <=> Launches(w, g)
          /\ ~Pushes(w, g) /\ (Pushes(w, g)' <=> g = h)
      BY <1>0, <1>1, <1>2, <2>1 DEF Serves, Pushes, Launches, Services
    <3>2. /\ One(Serves(w, g))' = One(Serves(w, g))
          /\ One(Launches(w, g))' = One(Launches(w, g))
          /\ One(Serves(w, g)) \in Int /\ One(Launches(w, g)) \in Int
          /\ One(Pushes(w, g)) = 0
          /\ One(Pushes(w, g))' = IF g = h THEN 1 ELSE 0
      BY <3>1 DEF One
    <3> QED
      BY <3>2 DEF Holds
  <2>5. InHand(w)' = InHand(w)
    BY <1>1, <2>1 DEF InHand
  <2> HIDE DEF h
  <2> QED
    BY <1>0, <1>1, <1>2, <1>3, <1>4, <2>1, <2>3, <2>4, <2>5, RetireStep
<1>5. CASE ~Found(h)
  <2>1. pc'[w] = "release" /\ UNCHANGED <<H, registered, dst, back>>
    BY <1>0, <1>5, WorkerFacts DEF RetireFailed, Goto, handles
  <2>2. Control(w)'
    BY <1>0, <1>1, <1>2, <1>3, <2>1, WorkerFacts
    DEF Control, Loc, HasTurn, HasOther, HasNoOther, Services
  <2>3. ASSUME NEW g \in Services PROVE Holds(w, g)' = Holds(w, g)
    BY <1>1, <1>2, <2>1 DEF Holds, Serves, Pushes, Launches
  <2>4. InHand(w)' = InHand(w)
    BY <1>1, <2>1 DEF InHand
  <2>5. ASSUME NEW g \in Ids PROVE Placed(g)
    BY <1>0, <1>1, <1>3, <2>4, HandsOnly, PlacesSame
  <2> QED
    BY <1>0, <1>1, <1>3, <2>1, <2>2, <2>3, <2>5, MoveStep
<1> QED
  BY <1>4, <1>5

(* The launcher gives back its reference, init having succeeded or not.     *)
LEMMA LaunchedKeeps ==
  ASSUME NodeInv, RingInv', NEW w \in Workers, Launched(w) \/ LaunchFailed(w)
  PROVE  NodeInv'
<1>0. w \in Threads
  BY DEF Threads
<1>1. /\ Only(w) /\ pc[w] = "init" /\ pc'[w] \in {"start", "flag", "failed"}
      /\ q'[w] = q[w] /\ new'[w] = new[w] /\ dst'[w] = dst[w] /\ back'[w] = back[w]
  BY <1>0, WorkerFacts DEF Launched, LaunchFailed, Goto, Only
<1>2. /\ UNCHANGED <<launched, H, given, handle, registered, in_global, freed, queue>>
      /\ Release(new[w])
  BY DEF Launched, LaunchFailed, handles
<1>3. new[w] \in Services /\ new[w] # 0 /\ back[w] = "top" /\ dst[w] = 0
  BY <1>0, <1>1, WorkerFacts DEF Control, Loc, HasOther
<1>4. Control(w)'
  BY <1>0, <1>1, <1>2, WorkerFacts
  DEF Control, Loc, HasTurn, HasOther, HasNoOther, Services
<1>5. ASSUME NEW h \in Services
      PROVE  /\ h = new[w] => Holds(w, h) >= 1 /\ Holds(w, h)' = Holds(w, h) - 1
             /\ h # new[w] => Holds(w, h)' = Holds(w, h)
  <2>1. /\ Serves(w, h)' <=> Serves(w, h)
        /\ Pushes(w, h)' <=> Pushes(w, h)
        /\ ~Launches(w, h)' /\ (Launches(w, h) <=> h = new[w])
    BY <1>1, <1>3 DEF Serves, Pushes, Launches
  <2>2. /\ One(Serves(w, h))' = One(Serves(w, h))
        /\ One(Pushes(w, h))' = One(Pushes(w, h))
        /\ One(Serves(w, h)) \in Nat /\ One(Pushes(w, h)) \in Nat
        /\ One(Launches(w, h))' = 0
        /\ One(Launches(w, h)) = IF h = new[w] THEN 1 ELSE 0
    BY <2>1 DEF One
  <2> QED
    BY <2>2 DEF Holds
<1>6. InHand(w)' = InHand(w)
  BY <1>1 DEF InHand
<1>7. pc'[w] # "new"
  BY <1>1
<1> QED
  BY <1>0, <1>1, <1>2, <1>3, <1>4, <1>5, <1>6, <1>7, ReleaseStep

(* The launcher puts the queue of the new service in the global queue.      *)
LEMMA StartKeeps ==
  ASSUME NodeInv, RingInv', NEW w \in Workers, Start(w)
  PROVE  NodeInv'
<1>0. w \in Threads
  BY DEF Threads
<1>1. /\ Only(w) /\ pc[w] = "start" /\ pc'[w] = "run"
      /\ q'[w] = q[w] /\ new'[w] = 0 /\ dst'[w] = dst[w] /\ back'[w] = back[w]
  BY <1>0, WorkerFacts DEF Start, Goto, Only
<1>2. /\ UNCHANGED <<launched, H, given, handle, registered, ref, release, in_global, freed, queue>>
      /\ global' = Append(global, new[w])
  BY DEF Start, storage, handles
<1>3. /\ new[w] \in Services /\ new[w] # 0 /\ new[w] # q[w] /\ new[w] \in Ids
      /\ back[w] = "top"
  BY <1>0, <1>1, WorkerFacts, ServiceFacts DEF Control, Loc, HasOther, NodeInv
<1>4. Control(w)'
  BY <1>0, <1>1, <1>2, WorkerFacts
  DEF Control, Loc, HasTurn, HasOther, HasNoOther, Services
<1>5. ASSUME NEW h \in Services PROVE Holds(w, h)' = Holds(w, h)
  BY <1>1, <1>3 DEF Holds, Serves, Pushes, Launches, Services
<1>6. new[w] \in InHand(w) /\ InHand(w)' = InHand(w) \ {new[w]}
  BY <1>1, <1>3 DEF InHand
<1>7. ASSUME NEW h \in Ids PROVE Placed(h)
  BY <1>0, <1>1, <1>2, <1>3, <1>6, HandsOnly, PlacesGiven, WorkerFacts
<1> QED
  BY <1>0, <1>1, <1>2, <1>4, <1>5, <1>7, MoveStep

(* A worker comes across the queue of a dead service.                       *)
LEMMA ReleaseQueueKeeps ==
  ASSUME NodeInv, RingInv', NEW w \in Workers, ReleaseQueue(w)
  PROVE  NodeInv'
<1>0. w \in Threads
  BY DEF Threads
<1>1. /\ Only(w) /\ pc[w] = "release"
      /\ q'[w] = q[w] /\ dst'[w] = dst[w] /\ back'[w] = back[w]
  BY <1>0, WorkerFacts DEF ReleaseQueue, Resume, Goto, Only
<1>2. UNCHANGED <<launched, H, given, handle, registered, ref, release, in_global, freed, queue>>
  BY DEF ReleaseQueue, storage, handles
<1>3. /\ new[w] \in Services /\ new[w] # 0 /\ new[w] # q[w] /\ new[w] \in Ids
      /\ back[w] = "top"
  BY <1>0, <1>1, WorkerFacts, ServiceFacts DEF Control, Loc, HasOther, NodeInv
<1>4. CASE release[new[w]]
  <2>1. pc'[w] = "drop" /\ new'[w] = new[w] /\ global' = global
    BY <1>0, <1>4, WorkerFacts DEF ReleaseQueue, Goto
  <2>2. Control(w)'
    BY <1>0, <1>1, <1>2, <1>4, <2>1, WorkerFacts
    DEF Control, Loc, HasTurn, HasOther, HasNoOther, Services
  <2>3. ASSUME NEW h \in Services PROVE Holds(w, h)' = Holds(w, h)
    BY <1>1, <2>1 DEF Holds, Serves, Pushes, Launches
  <2>4. InHand(w)' = InHand(w)
    BY <1>1, <2>1 DEF InHand
  <2>5. ASSUME NEW h \in Ids PROVE Placed(h)
    BY <1>0, <1>1, <2>1, <2>4, HandsOnly, PlacesSame
  <2> QED
    BY <1>0, <1>1, <1>2, <2>1, <2>2, <2>3, <2>5, MoveStep
<1>5. CASE ~release[new[w]]
  <2>1. /\ pc'[w] = IF q[w] = 0 THEN "top" ELSE "run"
        /\ new'[w] = 0 /\ global' = Append(global, new[w])
    BY <1>0, <1>5, WorkerFacts DEF ReleaseQueue, Resume, Goto
  <2>2. Control(w)'
    BY <1>0, <1>1, <1>2, <2>1, WorkerFacts
    DEF Control, Loc, HasTurn, HasOther, HasNoOther, Services
  <2>3. ASSUME NEW h \in Services PROVE Holds(w, h)' = Holds(w, h)
    BY <1>1, <1>3, <2>1 DEF Holds, Serves, Pushes, Launches, Services
  <2>4. new[w] \in InHand(w) /\ InHand(w)' = InHand(w) \ {new[w]}
    BY <1>1, <1>3, <2>1 DEF InHand
  <2>5. ASSUME NEW h \in Ids PROVE Placed(h)
    BY <1>0, <1>1, <1>3, <2>1, <2>4, HandsOnly, PlacesGiven, WorkerFacts
  <2> QED
    BY <1>0, <1>1, <1>2, <2>1, <2>2, <2>3, <2>5, MoveStep
<1> QED
  BY <1>4, <1>5

(* The queue of a dead service is freed by who has it in hand.              *)
LEMMA FreeQueueKeeps ==
  ASSUME NodeInv, RingInv', NEW w \in Workers, FreeQueue(w)
  PROVE  NodeInv'
<1>0. w \in Threads
  BY DEF Threads
<1>1. PICK g : g = new[w]
  OBVIOUS
<1>2. /\ Only(w) /\ pc[w] = "drop"
      /\ pc'[w] = IF q[w] = 0 THEN "top" ELSE "run"
      /\ q'[w] = q[w] /\ new'[w] = 0 /\ dst'[w] = dst[w] /\ back'[w] = back[w]
  BY <1>0, WorkerFacts DEF FreeQueue, Resume, Goto, Only
<1>3. /\ UNCHANGED <<launched, H, given, handle, registered, ref, release, queue, global>>
      /\ in_global' = [in_global EXCEPT ![g] = FALSE]
      /\ freed' = freed \cup {g}
  BY <1>1 DEF FreeQueue, storage, handles
<1>4. /\ g \in Services /\ g # 0 /\ g # q[w] /\ g \in Handles /\ g \in Ids
      /\ back[w] = "top" /\ release[g]
  BY <1>0, <1>1, <1>2, WorkerFacts, ServiceFacts DEF Control, Loc, HasOther, NodeInv
<1>5. /\ in_global' \in [Handles -> BOOLEAN]
      /\ \A h \in Handles : h # g => (in_global'[h] <=> in_global[h])
      /\ ~in_global'[g]
  BY <1>3, <1>4 DEF NodeInv, StoreInv
<1>6. Control(w)'
  BY <1>0, <1>2, <1>3, WorkerFacts
  DEF Control, Loc, HasTurn, HasOther, HasNoOther, Services
<1>7. ASSUME NEW h \in Services PROVE Holds(w, h)' = Holds(w, h)
  BY <1>2, <1>4 DEF Holds, Serves, Pushes, Launches, Services
<1>8. g \in InHand(w) /\ InHand(w)' = InHand(w) \ {g}
  BY <1>1, <1>2, <1>4 DEF InHand
<1>9. Alone(g)
  BY <1>0, <1>4, <1>8, InHandFacts
<1>10. ASSUME NEW h PROVE IF h = g THEN Nowhere(h)' ELSE Placed(h)
  BY <1>0, <1>2, <1>3, <1>8, <1>9, HandsOnly, PlacesDropped
<1>11. ASSUME NEW h \in Services PROVE At(h)'
  <2>1. CASE h = g
    BY <1>3, <1>4, <1>10, <2>1 DEF At
  <2>2. CASE h # g
    BY <1>3, <1>5, <1>10, <2>2, AtKept, ServiceFacts DEF NodeInv, PlaceInv
  <2> QED
    BY <2>1, <2>2
<1>12. ASSUME NEW h \in Ids \ Services PROVE Nowhere(h)'
  BY <1>10 DEF NodeInv, PlaceInv, Placed
<1>13. \A h \in freed' : h \in freed \/ h \in Services
  BY <1>3, <1>4
<1>14. \A h \in Handles : in_global'[h] => in_global[h]
  BY <1>5
<1>15. pc'[w] # "new"
  BY <1>2
<1> QED
  BY <1>0, <1>2, <1>3, <1>5, <1>6, <1>7, <1>11, <1>12, <1>13, <1>14, <1>15, QuietStep

(* A message is dropped, and its source told if it is found.                *)
LEMMA DropKeeps ==
  ASSUME NodeInv, RingInv', NEW w \in Workers, Drop(w)
  PROVE  NodeInv'
<1>0. w \in Threads
  BY DEF Threads
<1>1. PICK g, source : g = new[w] /\ source = mq_first(queue[g])
  OBVIOUS
<1>2. /\ Only(w) /\ pc[w] = "drop"
      /\ q'[w] = q[w] /\ new'[w] = new[w]
      /\ ~IsEmpty(queue[g])
  BY <1>0, <1>1, WorkerFacts DEF Drop, Take, Goto, Only
<1>3. /\ UNCHANGED <<launched, H, given, handle, registered, release, in_global, freed, global>>
      /\ queue' = [queue EXCEPT ![g] = mq_pop(@)]
  BY <1>1 DEF Drop, handles
<1>4. /\ g \in Services /\ g # 0 /\ g \in Handles /\ release[g]
      /\ back[w] = "top" /\ dst[w] = 0
  BY <1>0, <1>1, <1>2, WorkerFacts, ServiceFacts DEF Control, Loc, HasOther, NodeInv
<1>5. source \in Ids
  BY <1>1, <1>2, <1>4, IdsFacts, PopTakesFirst DEF NodeInv, RingInv
<1>6. \A h \in Handles : h # g => queue'[h] = queue[h]
  BY <1>3 DEF NodeInv, RingInv
<1>7. InHand(w)' = InHand(w)
  <2>1. pc'[w] \in {"push", "drop"}
    BY <1>0, <1>2, WorkerFacts DEF Drop, Take, Goto
  <2> QED
    BY <1>2, <2>1 DEF InHand
<1>8. ASSUME NEW h \in Ids PROVE Placed(h)
  BY <1>0, <1>2, <1>3, <1>7, HandsOnly, PlacesSame
<1>9. ASSUME NEW h \in Services PROVE At(h)'
  <2>1. At(h) /\ Placed(h) /\ h \in Handles
    BY <1>8, ServiceFacts DEF NodeInv, PlaceInv
  <2>2. queue'[h] = queue[h] \/ in_global[h] \/ release[h]
    BY <1>4, <1>6, <2>1
  <2> QED
    BY <1>3, <2>1, <2>2, AtKept
<1>10. ASSUME NEW h \in Ids \ Services PROVE Nowhere(h)'
  BY <1>8 DEF NodeInv, PlaceInv, Placed
<1>11. \A h \in Handles \ Services : queue'[h] = queue[h]
  BY <1>4, <1>6
<1>12. CASE source # 0 /\ Found(source)
  <2>1. /\ pc'[w] = "push" /\ dst'[w] = source /\ back'[w] = "drop"
        /\ Grab(source)
    BY <1>0, <1>1, <1>12, WorkerFacts DEF Drop, Take, Goto
  <2>2. source \in Handles /\ source \in Services /\ handle[source] # 0
    BY <1>5, <1>12, FoundFacts, ServiceFacts DEF NodeInv
  <2>3. Control(w)'
    BY <1>0, <1>1, <1>2, <1>3, <1>4, <1>12, <2>1, <2>2, WorkerFacts
    DEF Control, Loc, HasTurn, HasOther, HasNoOther, Services
  <2>4. ASSUME NEW h \in Services
        PROVE  Holds(w, h)' = IF h = source THEN Holds(w, h) + 1 ELSE Holds(w, h)
    <3>1. /\ Serves(w, h)' <=> Serves(w, h)
          /\ Launches(w, h)' <=> Launches(w, h)
          /\ ~Pushes(w, h) /\ (Pushes(w, h)' <=> h = source)
      BY <1>2, <1>4, <2>1 DEF Serves, Pushes, Launches, Services
    <3>2. /\ One(Serves(w, h))' = One(Serves(w, h))
          /\ One(Launches(w, h))' = One(Launches(w, h))
          /\ One(Serves(w, h)) \in Int /\ One(Launches(w, h)) \in Int
          /\ One(Pushes(w, h)) = 0
          /\ One(Pushes(w, h))' = IF h = source THEN 1 ELSE 0
      BY <3>1 DEF One
    <3> QED
      BY <3>2 DEF Holds
  <2>5. pc'[w] # "new"
    BY <2>1
  <2> QED
    BY <1>0, <1>2, <1>3, <1>9, <1>10, <1>11, <1>12, <2>1, <2>2, <2>3, <2>4, <2>5, GrabStep
<1>13. CASE ~(source # 0 /\ Found(source))
  <2>1. UNCHANGED <<ref, dst, back, pc>>
    BY <1>1, <1>13 DEF Drop
  <2>2. Control(w)'
    BY <1>0, <1>1, <1>2, <1>3, <2>1, WorkerFacts
    DEF Control, Loc, HasTurn, HasOther, HasNoOther, Services
  <2>3. ASSUME NEW h \in Services PROVE Holds(w, h)' = Holds(w, h)
    BY <1>2, <2>1 DEF Holds, Serves, Pushes, Launches
  <2>4. in_global' \in [Handles -> BOOLEAN]
    BY <1>3 DEF NodeInv, StoreInv
  <2>5. pc'[w] # "new"
    BY <1>2, <2>1
  <2> QED
    BY <1>0, <1>2, <1>3, <1>9, <1>10, <1>11, <2>1, <2>2, <2>3, <2>4, <2>5, QuietStep
<1> QED
  BY <1>12, <1>13

(* A new service gets its handle, and the worker its queue in hand.         *)
LEMMA CreateKeeps ==
  ASSUME NodeInv, RingInv', NEW w \in Workers, Create(w)
  PROVE  NodeInv'
<1>0. w \in Threads
  BY DEF Threads
<1>1. PICK g : g = new[w]
  OBVIOUS
<1>2. /\ Only(w) /\ pc[w] = "new" /\ pc'[w] = "init"
      /\ q'[w] = q[w] /\ new'[w] = new[w] /\ dst'[w] = dst[w] /\ back'[w] = back[w]
  BY <1>0, WorkerFacts DEF Create, Goto, Only
<1>3. /\ UNCHANGED <<launched, H, given, ref, queue, release, freed, global>>
      /\ handle' = [handle EXCEPT ![g] = given[g]]
      /\ registered' = registered \cup {g}
      /\ in_global' = [in_global EXCEPT ![g] = TRUE]
  BY <1>1 DEF Create, Assign
<1>4. /\ g \in Services /\ g # 0 /\ g # q[w] /\ g \in Handles /\ g \in Ids
      /\ back[w] = "top" /\ dst[w] = 0
  BY <1>0, <1>1, <1>2, WorkerFacts, ServiceFacts DEF Control, Loc, HasOther, NodeInv
<1>5. handle[g] = 0 /\ ~in_global[g]
  BY <1>0, <1>1, <1>2 DEF NodeInv, NewInv
<1>6. /\ in_global' \in [Handles -> BOOLEAN] /\ in_global'[g]
      /\ \A h \in Handles : h # g => (in_global'[h] <=> in_global[h])
  BY <1>3, <1>4 DEF NodeInv, StoreInv
<1>7. /\ handle' \in [Handles -> 0 .. HANDLE_MASK]
      /\ \A h \in Handles : h # g => handle'[h] = handle[h]
  BY <1>3, <1>4 DEF NodeInv, StoreInv
<1>8. \A h \in Handles : handle[h] # 0 => handle'[h] # 0
  BY <1>5, <1>7
<1>9. Control(w)'
  BY <1>0, <1>2, <1>3, <1>4, WorkerFacts
  DEF Control, Loc, HasTurn, HasOther, HasNoOther, Services
<1>10. ASSUME NEW h \in Services PROVE Holds(w, h)' = Holds(w, h)
  <2>1. /\ Serves(w, h)' <=> Serves(w, h)
        /\ Pushes(w, h)' <=> Pushes(w, h)
        /\ Launches(w, h)' <=> Launches(w, h)
    BY <1>2, <1>4 DEF Serves, Pushes, Launches
  <2> QED
    BY <2>1 DEF Holds, One
<1>11. Holds(w, g) >= 1
  <2>1. One(Launches(w, g)) = 1
    BY <1>1, <1>2 DEF One, Launches
  <2> QED
    BY <2>1 DEF Holds, One
<1>12. ~release[g] /\ g \notin freed /\ Nowhere(g)
  <2>1. ~release[g]
    BY <1>0, <1>2, <1>4, <1>11, HolderFacts
  <2> QED
    BY <1>4, <1>5, <2>1 DEF NodeInv, PlaceInv, At
<1>13. InHand(w)' = InHand(w) \cup {g}
  BY <1>1, <1>2, <1>4 DEF InHand
<1>14. ASSUME NEW h PROVE IF h = g THEN Alone(h)' ELSE Placed(h)
  BY <1>0, <1>2, <1>3, <1>12, <1>13, HandsOnly, PlacesMade
<1>15. ASSUME NEW h \in Services PROVE At(h)'
  <2>1. CASE h = g
    BY <1>3, <1>6, <1>12, <1>14, <2>1 DEF At
  <2>2. CASE h # g
    BY <1>3, <1>6, <1>14, <2>2, AtKept, ServiceFacts DEF NodeInv, PlaceInv
  <2> QED
    BY <2>1, <2>2
<1>16. ASSUME NEW h \in Ids \ Services PROVE Nowhere(h)'
  BY <1>4, <1>14 DEF NodeInv, PlaceInv, Placed
<1>17. Services' = Services
  BY <1>3 DEF Services
<1>18. PlaceInv'
  BY <1>15, <1>16, <1>17 DEF PlaceInv
<1>19. StoreInv'
  BY <1>3, <1>6, <1>7 DEF StoreInv, NodeInv
<1>20. RefInv'
  <2>1. ASSUME NEW h \in Services
        PROVE  /\ StorageRef(h)' + Holds(w, h)' - ref'[h] = StorageRef(h) + Holds(w, h) - ref[h]
               /\ release'[h] <=> ref'[h] = 0
               /\ InStorage(H', h) => InStorage(H, h) /\ StorageRef(h)' = StorageRef(h)
    <3>1. StorageRef(h)' = StorageRef(h) /\ StorageRef(h) \in Int
      <4>1. h = g => StorageRef(h)' = 1 /\ StorageRef(h) = 1
        BY <1>3, <1>5 DEF StorageRef
      <4>2. h # g => StorageRef(h)' = StorageRef(h)
        <5>1. h # g => handle'[h] = handle[h]
          BY <1>7, ServiceFacts DEF NodeInv
        <5> QED
          BY <1>3, <5>1 DEF StorageRef
      <4>3. StorageRef(h) \in Int
        BY DEF StorageRef
      <4> QED
        BY <4>1, <4>2, <4>3
    <3>2. Holds(w, h) \in Int /\ ref[h] \in Int
      BY <1>0, <1>2, HeldStep, ServiceFacts DEF NodeInv, StoreInv
    <3> QED
      BY <1>3, <1>10, <3>1, <3>2 DEF NodeInv, RefInv
  <2> QED
    BY <1>0, <1>2, <1>3, <2>1, CountsKept, ServiceFacts DEF NodeInv, StoreInv
<1>21. Fresh'
  BY <1>3, <1>4, <1>6, <1>7, <1>17 DEF Fresh, NodeInv
<1>22. ASSUME NEW u \in Threads, u # w, pc[u] = "new"
       PROVE  handle'[new[u]] = 0 /\ ~in_global'[new[u]]
  <2>1. new[u] \in Handles
    BY <1>22, WorkerFacts, ServiceFacts DEF NodeInv, Control, Loc, HasOther
  <2>2. new[u] # g /\ handle[new[u]] = 0 /\ ~in_global[new[u]]
    BY <1>0, <1>1, <1>2, <1>22 DEF NodeInv, NewInv
  <2> QED
    BY <1>6, <1>7, <2>1, <2>2
<1>23. pc'[w] # "new"
  BY <1>2
<1>24. \A h \in Services : (handle[h] # 0 => handle'[h] # 0) /\ (release[h] => release'[h])
  BY <1>3, <1>8, ServiceFacts DEF NodeInv
<1> QED
  BY <1>0, <1>2, <1>3, <1>9, <1>18, <1>19, <1>20, <1>21, <1>22, <1>23, <1>24, Assembled

(* A new service: of what is not launched yet there is no trace.            *)
LEMMA LaunchKeeps ==
  ASSUME NodeInv, RingInv', NEW w \in Workers, Launch(w)
  PROVE  NodeInv'
<1>0. w \in Threads
  BY DEF Threads
<1>1. PICK g : g = launched + 1
  OBVIOUS
<1>2. /\ Only(w) /\ pc[w] = "run" /\ pc'[w] = "new"
      /\ q'[w] = q[w] /\ new'[w] = g /\ dst'[w] = dst[w] /\ back'[w] = back[w]
  BY <1>0, <1>1, WorkerFacts DEF Launch, Goto, Only
<1>3. /\ UNCHANGED <<handle, registered, queue, in_global, release, freed, global>>
      /\ launched' = g
      /\ H' = skynet_handle_register(H, handle, g).storage
      /\ given' = [given EXCEPT ![g] = skynet_handle_register(H, handle, g).handle]
      /\ ref' = [ref EXCEPT ![g] = 2]
  BY <1>1 DEF Launch, queues
<1>4. /\ launched \in 1 .. HANDLE_MASK /\ g \in Handles /\ g \in Ids /\ g # 0
      /\ g \notin Services /\ Services \subseteq Handles
      /\ Services' = Services \cup {g} /\ launched <= launched' /\ launched' \in Nat
  <2>1. /\ launched \in 1 .. MaxHandles /\ launched < MaxHandles
        /\ MaxHandles \in 1 .. HANDLE_MASK + 1 /\ HANDLE_MASK \in Nat
    BY SkynetAssumption, HandleAssumption DEF NodeInv, RingInv, Launch
  <2> QED
    BY <1>1, <1>3, <2>1 DEF Handles, Ids, Services
<1>5. /\ q[w] \in Services /\ q[w] # 0 /\ new[w] = 0 /\ dst[w] = 0 /\ back[w] = "top"
  BY <1>0, <1>2, WorkerFacts DEF Control, Loc, HasTurn, HasNoOther
<1>6. /\ ~in_global[g] /\ ~release[g] /\ g \notin freed
      /\ IsEmpty(queue[g]) /\ handle[g] = 0 /\ Nowhere(g)
  BY <1>4 DEF NodeInv, Fresh, PlaceInv
<1>7. /\ GoodStorage(H', g)
      /\ skynet_handle_register(H, handle, g).handle \in 0 .. HANDLE_MASK
      /\ \A h \in Services : InStorage(H', h) => InStorage(H, h)
  <2>1. launched \in 0 .. HANDLE_MASK
    BY <1>4
  <2>2. GoodStorage(H, launched)
    BY DEF NodeInv, StoreInv
  <2>3. \A h \in 1 .. launched : handle[h] \in Nat
    BY <1>4, HandleAssumption DEF NodeInv, StoreInv, Services
  <2> QED
    BY <1>1, <1>3, <2>1, <2>2, <2>3, Registered DEF Services
<1>8. StoreInv'
  BY <1>3, <1>4, <1>7 DEF StoreInv, NodeInv
<1>9. Control(w)'
  BY <1>0, <1>1, <1>2, <1>3, <1>4, <1>5, WorkerFacts
  DEF Control, Loc, HasTurn, HasOther, HasNoOther
<1>10. \A u \in Threads : Control(u)'
  BY <1>0, <1>2, <1>3, <1>4, <1>9, ControlKept, ServiceFacts DEF NodeInv
<1>11. NewInv'
  <2>1. ASSUME NEW u \in Threads, pc'[u] = "new", u # w
        PROVE  new'[u] # g /\ pc[u] = "new" /\ new'[u] = new[u]
    <3>1. pc[u] = "new" /\ new'[u] = new[u]
      BY <1>2, <2>1 DEF Only
    <3>2. new[u] \in Services
      BY <3>1, WorkerFacts DEF Control, Loc, HasOther
    <3> QED
      BY <1>4, <3>1, <3>2
  <2> QED
    BY <1>0, <1>2, <1>3, <1>6, <2>1 DEF NewInv, NodeInv
<1>12. Fresh'
  BY <1>3, <1>4 DEF Fresh, NodeInv
<1>13. /\ ref' \in [Handles -> Int] /\ ref'[g] = 2
       /\ \A h \in Handles : h # g => ref'[h] = ref[h]
  BY <1>3, <1>4 DEF NodeInv, StoreInv
<1>14. ASSUME NEW h \in Services
       PROVE  /\ ref'[h] = StorageRef(h)' + Held(h)' /\ (release'[h] <=> ref'[h] = 0)
              /\ InStorage(H', h) => StorageRef(h)' = 1
  <2>1. h \in Handles /\ h # g /\ h # 0
    BY <1>4 DEF Services
  <2>2. Holds(w, h)' = Holds(w, h)
    BY <1>2, <1>5, <2>1 DEF Holds, Serves, Pushes, Launches
  <2>3. Held(h)' = Held(h) /\ Held(h) \in Int
    BY <1>0, <1>2, <2>2, HeldStep
  <2>4. StorageRef(h)' = StorageRef(h) /\ StorageRef(h) \in Int /\ StorageRef(h)' \in Int
    BY <1>3 DEF StorageRef
  <2>5. ref'[h] = ref[h] /\ ref[h] \in Int
    BY <1>13, <2>1 DEF NodeInv, StoreInv
  <2>6. /\ ref[h] = StorageRef(h) + Held(h) /\ (release[h] <=> ref[h] = 0)
        /\ InStorage(H, h) => StorageRef(h) = 1
    BY DEF NodeInv, RefInv
  <2> QED
    BY <1>3, <1>7, <2>3, <2>4, <2>5, <2>6
<1>15. /\ ref'[g] = StorageRef(g)' + Held(g)' /\ (release'[g] <=> ref'[g] = 0)
       /\ StorageRef(g)' = 1
  <2>1. Serving(g) = {} /\ Pushing(g) = {} /\ Launching(g) = {}
    BY <1>4, WorkerFacts DEF Serving, Pushing, Launching, Control
  <2>2. Held(g) = 0
    BY <2>1, FS_EmptySet DEF Held
  <2>3. Holds(w, g) = 0 /\ Holds(w, g)' = 1
    <3>1. /\ ~Serves(w, g) /\ ~Pushes(w, g) /\ ~Launches(w, g)
          /\ ~Serves(w, g)' /\ ~Pushes(w, g)' /\ Launches(w, g)'
      BY <1>2, <1>4, <1>5, <1>3 DEF Serves, Pushes, Launches
    <3>2. /\ One(Serves(w, g)) = 0 /\ One(Pushes(w, g)) = 0 /\ One(Launches(w, g)) = 0
          /\ One(Serves(w, g))' = 0 /\ One(Pushes(w, g))' = 0 /\ One(Launches(w, g))' = 1
      BY <3>1 DEF One
    <3> QED
      BY <3>2 DEF Holds
  <2>4. Held(g)' = 1
    BY <1>0, <1>2, <2>2, <2>3, HeldStep
  <2>5. StorageRef(g)' = 1
    BY <1>3, <1>6 DEF StorageRef
  <2> QED
    BY <1>3, <1>6, <1>13, <2>4, <2>5
<1>16. RefInv'
  BY <1>4, <1>14, <1>15 DEF RefInv
<1>17. InHand(w)' = InHand(w)
  BY <1>2, <1>5 DEF InHand
<1>18. ASSUME NEW h \in Ids PROVE Placed(h)
  BY <1>0, <1>2, <1>3, <1>17, HandsOnly, PlacesSame
<1>19. ASSUME NEW h \in Services PROVE At(h)'
  BY <1>3, <1>18, AtKept, ServiceFacts DEF NodeInv, PlaceInv
<1>20. At(g)'
  BY <1>3, <1>4, <1>6, <1>18 DEF At, Placed
<1>21. ASSUME NEW h \in Ids \ Services' PROVE Nowhere(h)'
  BY <1>4, <1>18 DEF NodeInv, PlaceInv, Placed
<1>22. PlaceInv'
  BY <1>4, <1>19, <1>20, <1>21 DEF PlaceInv
<1> QED
  BY <1>8, <1>10, <1>11, <1>12, <1>16, <1>22 DEF NodeInv

-----------------------------------------------------------------------------
(* The loops of the timer and the socket thread wake and end threads.       *)
LEMMA WakeKeeps ==
  ASSUME NodeInv, RingInv',
         UNCHANGED <<storage, queues, q, n, dst, new, back>>,
         \A u \in Threads :
           \/ pc'[u] = pc[u]
           \/ pc[u] = "asleep" /\ pc'[u] = "top"
           \/ u \notin Workers /\ pc[u] = "top" /\ pc'[u] = "done"
  PROVE  NodeInv'
<1>1. UNCHANGED <<launched, H, given, handle, registered, ref, release, in_global,
                  freed, queue, global, q, dst, new, back>>
  BY DEF storage, handles, queues
<1>2. Services' = Services
  BY <1>1 DEF Services
<1>3. ASSUME NEW u \in Threads PROVE Control(u)'
  <2>1. Control(u)
    BY WorkerFacts
  <2>2. CASE pc'[u] = pc[u]
    BY <1>1, <1>2, <2>1, <2>2 DEF Control, Loc
  <2>3. CASE pc[u] = "asleep" /\ pc'[u] = "top"
    BY <1>1, <1>2, <2>1, <2>3
    DEF Control, Loc, HasTurn, HasOther, HasNoOther
  <2>4. CASE u \notin Workers /\ pc[u] = "top" /\ pc'[u] = "done"
    BY <1>1, <1>2, <2>1, <2>4
    DEF Control, Loc, HasTurn, HasOther, HasNoOther
  <2> QED
    BY <2>2, <2>3, <2>4
<1>4. NewInv'
  <2>1. \A u \in Threads : pc'[u] = "new" <=> pc[u] = "new"
    OBVIOUS
  <2> QED
    BY <1>1, <2>1 DEF NewInv, NodeInv
<1>5. ASSUME NEW h \in Services PROVE Held(h)' = Held(h)
  <2>1. Serving(h)' = Serving(h)
    <3>1. ASSUME NEW u \in Threads, pc[u] = "asleep" PROVE q[u] # h
      BY <3>1, WorkerFacts DEF Control, Loc, Services
    <3> QED
      BY <1>1, <3>1 DEF Serving
  <2>2. Pushing(h)' = Pushing(h)
    BY <1>1 DEF Pushing
  <2>3. Launching(h)' = Launching(h)
    BY <1>1 DEF Launching
  <2> QED
    BY <2>1, <2>2, <2>3 DEF Held
<1>6. RefInv'
  <2>1. \A h \in Services : StorageRef(h)' = StorageRef(h)
    BY <1>1 DEF StorageRef
  <2> QED
    BY <1>1, <1>2, <1>5, <2>1 DEF RefInv, NodeInv
<1>7. \A u \in Threads : InHand(u)' = InHand(u)
  BY <1>1 DEF InHand
<1>8. ASSUME NEW h \in Ids PROVE Placed(h)
  BY <1>1, <1>7, PlacesSame
<1>9. PlaceInv'
  <2>1. ASSUME NEW h \in Services PROVE At(h)'
    BY <1>1, <1>8, AtKept, ServiceFacts DEF NodeInv, PlaceInv
  <2>2. ASSUME NEW h \in Ids \ Services PROVE Nowhere(h)'
    BY <1>8 DEF NodeInv, PlaceInv, Placed
  <2> QED
    BY <1>2, <2>1, <2>2 DEF PlaceInv
<1>10. StoreInv' /\ Fresh'
  BY <1>1, <1>2 DEF StoreInv, Fresh, NodeInv
<1> QED
  BY <1>3, <1>4, <1>6, <1>9, <1>10 DEF NodeInv

(* All that these loops do to the node is to wake and to end threads.       *)
LEMMA LoopKeeps ==
  ASSUME NodeInv, RingInv', TimerTick \/ SocketWakeup \/ SocketExit
  PROVE  NodeInv'
<1>1. /\ pc \in [Threads -> Labels] /\ timer \in Threads /\ socket \in Threads
      /\ timer \notin Workers /\ socket \notin Workers
  BY WorkerFacts, SkynetAssumption DEF Threads, NodeInv, RingInv
<1>2. ASSUME Signal
      PROVE  \A u \in Threads : \/ pc'[u] = pc[u]
                                \/ pc[u] = "asleep" /\ pc'[u] = "top"
  <2>1. CASE Asleep = {}
    BY <1>2, <2>1 DEF Signal
  <2>2. CASE Asleep # {}
    <3>1. PICK w \in Asleep : pc' = [pc EXCEPT ![w] = "top"]
      BY <1>2, <2>2 DEF Signal, Goto
    <3>2. pc[w] = "asleep"
      BY DEF Asleep
    <3> QED
      BY <1>1, <3>1, <3>2
  <2> QED
    BY <2>1, <2>2
<1>3. CASE TimerTick
  <2>1. UNCHANGED <<storage, queues, q, n, dst, new, back>>
    BY <1>3 DEF TimerTick
  <2>2. CASE Total = 0
    <3>1. pc[timer] = "top"
      BY <1>3 DEF TimerTick
    <3>2. pc' = [t \in Threads |-> IF t = timer THEN "done"
                                   ELSE IF pc[t] = "asleep" THEN "top"
                                   ELSE pc[t]]
      BY <1>3, <2>2 DEF TimerTick
    <3> QED
      BY <1>1, <2>1, <3>1, <3>2, WakeKeeps
  <2>3. CASE Total # 0
    BY <1>2, <1>3, <2>1, <2>3, WakeKeeps DEF TimerTick
  <2> QED
    BY <2>2, <2>3
<1>4. CASE SocketWakeup
  BY <1>2, <1>4, WakeKeeps DEF SocketWakeup
<1>5. CASE SocketExit
  <2>1. UNCHANGED <<storage, queues, q, n, dst, new, back>>
    BY <1>5 DEF SocketExit
  <2>2. /\ pc[socket] = "top" /\ pc'[socket] = "done"
        /\ \A u \in Threads : u # socket => pc'[u] = pc[u]
    BY <1>1, <1>5 DEF SocketExit, Goto
  <2> QED
    BY <1>1, <2>1, <2>2, WakeKeeps
<1> QED
  BY <1>3, <1>4, <1>5

-----------------------------------------------------------------------------
(* The node at its start, and all of its steps.                             *)
LEMMA NodeInit == Init => NodeInv
<1> SUFFICES ASSUME Init PROVE NodeInv
  OBVIOUS
<1>0. RingInv
  BY RingInit
<1>1. /\ Services = {1} /\ launched = 1 /\ 1 \in Handles
      /\ HANDLE_MASK \in Nat /\ timer \notin Workers /\ socket \notin Workers
  BY <1>0, SkynetAssumption, HandleAssumption DEF Init, Services, Handles
<1>2. PICK none, first :
        /\ none = [h \in Handles |-> 0]
        /\ first = skynet_handle_register(NewStorage, none, 1)
  OBVIOUS
<1>3. GoodStorage(first.storage, 1) /\ first.handle \in 0 .. HANDLE_MASK
  <2>1. 0 \in 0 .. HANDLE_MASK /\ \A c \in 1 .. 0 : none[c] \in Nat
    BY <1>1
  <2>2. /\ GoodStorage(skynet_handle_register(NewStorage, none, 0 + 1).storage, 0 + 1)
        /\ skynet_handle_register(NewStorage, none, 0 + 1).handle \in 0 .. HANDLE_MASK
    BY <2>1, NewStorageIsGood, Registered
  <2>3. 0 + 1 = 1
    OBVIOUS
  <2> QED
    BY <1>2, <2>2, <2>3
<1>4. /\ H = first.storage
      /\ given = [h \in Handles |-> IF h = 1 THEN first.handle ELSE 0]
      /\ handle = given
  BY <1>2 DEF Init
<1>5. /\ given \in [Handles -> 0 .. HANDLE_MASK]
      /\ \A h \in Handles : h # 1 => handle[h] = 0
  BY <1>1, <1>3, <1>4
<1>6. StoreInv
  BY <1>1, <1>3, <1>4, <1>5 DEF StoreInv, Init
<1>7. ASSUME NEW t \in Threads
      PROVE  /\ pc[t] = "top" /\ back[t] = "top" /\ q[t] = 0 /\ dst[t] = 0 /\ new[t] = 0
  BY DEF Init
<1>8. ASSUME NEW t \in Threads PROVE Control(t)
  BY <1>7 DEF Control, Loc, HasTurn, HasOther, HasNoOther
<1>9. NewInv
  BY <1>7 DEF NewInv
<1>10. Fresh
  <2>1. IsEmpty(NewRing)
    BY DEF NewRing, IsEmpty
  <2> QED
    BY <1>1, <1>5, <2>1 DEF Init, Fresh
<1>11. RefInv
  <2>1. Serving(1) = {} /\ Pushing(1) = {} /\ Launching(1) = {}
    BY <1>7 DEF Serving, Pushing, Launching
  <2>2. Held(1) = 0
    BY <2>1, FS_EmptySet DEF Held
  <2>3. StorageRef(1) = 1
    BY DEF Init, StorageRef
  <2>4. ref[1] = 1 /\ ~release[1]
    BY <1>1 DEF Init
  <2> QED
    BY <1>1, <2>2, <2>3, <2>4 DEF RefInv
<1>12. PlaceInv
  <2>1. \A t \in Threads : InHand(t) = {}
    BY <1>7 DEF InHand
  <2>2. global = <<1>> /\ DOMAIN global = {1} /\ global[1] = 1
    BY DEF Init
  <2>3. Alone(1)
    BY <2>1, <2>2 DEF Alone, Once
  <2>4. in_global[1] /\ 1 \notin freed
    BY <1>1 DEF Init
  <2>5. \A h \in Ids \ Services : Nowhere(h)
    BY <1>1, <2>1, <2>2 DEF Nowhere, Never
  <2> QED
    BY <1>1, <2>3, <2>4, <2>5 DEF PlaceInv, At
<1> QED
  BY <1>0, <1>6, <1>8, <1>9, <1>10, <1>11, <1>12 DEF NodeInv

(* No step of any thread breaks the invariant.                              *)
LEMMA NodeNext == NodeInv /\ [Next]_vars => NodeInv'
<1> SUFFICES ASSUME NodeInv, [Next]_vars PROVE NodeInv'
  OBVIOUS
<1>1. RingInv'
  BY RingNext DEF NodeInv
<1>2. ASSUME NEW w \in Workers, Work(w) PROVE NodeInv'
  <2>1. CASE GlobalPop(w)
    BY <1>1, <2>1, GlobalPopKeeps
  <2>2. CASE Sleep(w) \/ Quit(w) \/ Return(w) \/ Flag(w)
    BY <1>1, <2>2, PauseKeeps
  <2>3. CASE BeginTurn(w)
    BY <1>1, <2>3, BeginTurnMisses, BeginTurnFinds
  <2>4. CASE Empty(w)
    BY <1>1, <2>4, EmptyKeeps
  <2>5. CASE Dispatch(w)
    BY <1>1, <2>5, DispatchKeeps
  <2>6. CASE Yield(w)
    BY <1>1, <2>6, YieldKeeps
  <2>7. CASE Requeue(w)
    BY <1>1, <2>7, RequeueKeeps
  <2>8. CASE EndTurn(w)
    BY <1>1, <2>8, EndTurnKeeps
  <2>9. CASE Create(w)
    BY <1>1, <2>9, CreateKeeps
  <2>10. CASE Launched(w)
    BY <1>1, <2>10, LaunchedKeeps
  <2>11. CASE Start(w)
    BY <1>1, <2>11, StartKeeps
  <2>12. CASE RetireFailed(w)
    BY <1>1, <2>12, RetireFailedKeeps
  <2>13. CASE ReleaseQueue(w)
    BY <1>1, <2>13, ReleaseQueueKeeps
  <2>14. CASE Drop(w)
    BY <1>1, <2>14, DropKeeps
  <2>15. CASE FreeQueue(w)
    BY <1>1, <2>15, FreeQueueKeeps
  <2> QED
    BY <1>2, <2>1, <2>2, <2>3, <2>4, <2>5, <2>6, <2>7, <2>8, <2>9, <2>10,
       <2>11, <2>12, <2>13, <2>14, <2>15 DEF Work
<1>3. ASSUME NEW w \in Workers, Command(w) PROVE NodeInv'
  <2>1. CASE \E h \in Handles : Kill(w, h)
    BY <1>1, <2>1, KillKeeps
  <2>2. CASE Launch(w)
    BY <1>1, <2>2, LaunchKeeps
  <2>3. CASE LaunchFailed(w)
    BY <1>1, <2>3, LaunchedKeeps
  <2> QED
    BY <1>3, <2>1, <2>2, <2>3 DEF Command
<1>4. ASSUME NEW t \in Threads, Deliver(t) \/ \E h \in Handles : Send(t, h)
      PROVE  NodeInv'
  BY <1>1, <1>4, PushKeeps, PutKeeps, SendKeeps DEF Deliver
<1>5. ASSUME TimerTick \/ SocketWakeup \/ SocketExit PROVE NodeInv'
  BY <1>1, <1>5, LoopKeeps
<1>6. ASSUME UNCHANGED vars PROVE NodeInv'
  <2>1. UNCHANGED <<storage, queues, q, n, dst, new, back>> /\ pc' = pc
    BY <1>6 DEF vars, threads
  <2> QED
    BY <1>1, <2>1, WakeKeeps
<1> QED
  BY <1>2, <1>3, <1>4, <1>5, <1>6 DEF Next

(* What the counts of QueueInOnePlace are.                                  *)
LEMMA PlacesCounted ==
  ASSUME NodeInv, NEW h
  PROVE  /\ Alone(h) => Places(h) = 1
         /\ Nowhere(h) => Places(h) = 0
<1>1. PICK I, T : /\ I = {i \in DOMAIN global : global[i] = h}
                  /\ T = {t \in Threads : h \in InHand(t)}
                  /\ Places(h) = Cardinality(I) + Cardinality(T)
  BY DEF Places
<1>2. \A x : Cardinality({x}) = 1
  BY FS_Singleton
<1>3. Cardinality({}) = 0
  BY FS_EmptySet
<1>4. (Never(global, h) <=> I = {}) /\ (T = {} <=> \A t \in Threads : h \notin InHand(t))
  BY <1>1 DEF Never
<1>5. ASSUME Once(global, h) PROVE \E i : I = {i}
  BY <1>1, <1>5 DEF Once
<1>6. ASSUME Alone(h) PROVE Places(h) = 1
  <2>1. CASE Once(global, h) /\ \A t \in Threads : h \notin InHand(t)
    <3>1. Cardinality(I) = 1 /\ Cardinality(T) = 0
      BY <1>2, <1>3, <1>4, <1>5, <2>1
    <3> QED
      BY <1>1, <3>1
  <2>2. CASE /\ Never(global, h)
             /\ \E t \in Threads :
                  h \in InHand(t) /\ \A u \in Threads : h \in InHand(u) => u = t
    <3>1. \E t : T = {t}
      BY <1>1, <2>2
    <3>2. Cardinality(I) = 0 /\ Cardinality(T) = 1
      BY <1>2, <1>3, <1>4, <2>2, <3>1
    <3> QED
      BY <1>1, <3>2
  <2> QED
    BY <1>6, <2>1, <2>2 DEF Alone
<1>7. ASSUME Nowhere(h) PROVE Places(h) = 0
  <2>1. Cardinality(I) = 0 /\ Cardinality(T) = 0
    BY <1>3, <1>4, <1>7 DEF Nowhere
  <2> QED
    BY <1>1, <2>1
<1> QED
  BY <1>6, <1>7

(* The invariant says where each queue is.                                  *)
LEMMA NodePlaces == NodeInv => QueueInOnePlace
<1> SUFFICES ASSUME NodeInv, NEW h \in 1 .. launched
             PROVE  IF h \in freed THEN Places(h) = 0
                    ELSE /\ Places(h) = IF in_global[h] \/ release[h] THEN 1 ELSE 0
                         /\ Places(h) = 0 => IsEmpty(queue[h])
  BY DEF QueueInOnePlace
<1>1. At(h)
  BY DEF NodeInv, PlaceInv, Services
<1>2. CASE h \in freed
  BY <1>1, <1>2, PlacesCounted DEF At
<1>3. CASE h \notin freed /\ (in_global[h] \/ release[h])
  <2>1. Places(h) = 1
    BY <1>1, <1>3, PlacesCounted DEF At
  <2> QED
    BY <1>3, <2>1
<1>4. CASE h \notin freed /\ ~in_global[h] /\ ~release[h]
  <2>1. Places(h) = 0 /\ IsEmpty(queue[h])
    BY <1>1, <1>4, PlacesCounted DEF At
  <2> QED
    BY <1>4, <2>1
<1> QED
  BY <1>2, <1>3, <1>4

(* Whatever the threads do, the queue of a service is in the global queue   *)
(* once or in the hands of one thread, as long as it counts as scheduled or *)
(* its context is gone; else it is nowhere, and empty: QueueInOnePlace.  In *)
(* particular no two workers ever run the callback of one service, and no   *)
(* message waits in a queue that nobody will look at.                       *)
THEOREM OnePlace == Spec => []QueueInOnePlace
<1>1. Init => NodeInv
  BY NodeInit
<1>2. NodeInv /\ [Next]_vars => NodeInv'
  BY NodeNext
<1>3. NodeInv => QueueInOnePlace
  BY NodePlaces
<1> QED
  BY <1>1, <1>2, <1>3, PTL DEF Spec

(* A context is deleted with its last reference: nobody has it in use then, *)
(* nor can anybody find it.                                                 *)
DeadIsUnheld ==
  \A h \in 1 .. launched :
    release[h] => /\ Serving(h) = {} /\ Pushing(h) = {} /\ Launching(h) = {}
                  /\ ~InStorage(H, h)

(* As the references held are those counted, none is held of zero.          *)
LEMMA NodeUnheld == NodeInv => DeadIsUnheld
<1> SUFFICES ASSUME NodeInv, NEW h \in 1 .. launched, release[h]
             PROVE  /\ Serving(h) = {} /\ Pushing(h) = {} /\ Launching(h) = {}
                    /\ ~InStorage(H, h)
  BY DEF DeadIsUnheld
<1>1. /\ StorageRef(h) + Held(h) = 0 /\ StorageRef(h) \in 0 .. 1
      /\ InStorage(H, h) => StorageRef(h) = 1
  <2>1. /\ ref[h] = StorageRef(h) + Held(h) /\ ref[h] = 0
        /\ InStorage(H, h) => StorageRef(h) = 1
    BY DEF NodeInv, RefInv, Services
  <2> QED
    BY <2>1 DEF StorageRef
<1>2. IsFiniteSet(Serving(h)) /\ IsFiniteSet(Pushing(h)) /\ IsFiniteSet(Launching(h))
  BY ThreadsFinite, FS_Subset DEF Serving, Pushing, Launching
<1>3. PICK s, p, l \in Nat : /\ s = Cardinality(Serving(h))
                             /\ p = Cardinality(Pushing(h))
                             /\ l = Cardinality(Launching(h))
  BY <1>2, FS_CardinalityType
<1>4. StorageRef(h) = 0 /\ s = 0 /\ p = 0 /\ l = 0
  <2>1. PICK x, y : x = StorageRef(h) /\ y = Held(h)
    OBVIOUS
  <2>2. y = s + p + l
    BY <1>3, <2>1 DEF Held
  <2>3. x \in 0 .. 1 /\ x + y = 0
    BY <1>1, <2>1
  <2>4. x \in Nat /\ x + (s + p + l) = 0
    BY <2>2, <2>3
  <2>5. x = 0 /\ s = 0 /\ p = 0 /\ l = 0
    BY <2>4
  <2> QED
    BY <2>1, <2>5
<1>5. Serving(h) = {} /\ Pushing(h) = {} /\ Launching(h) = {}
  BY <1>2, <1>3, <1>4, FS_EmptySet
<1> QED
  BY <1>1, <1>4, <1>5

(* skynet_context_release never deletes a context that a worker runs, that  *)
(* a sender pushes to or that its launcher holds, nor one that the handle   *)
(* storage still has.  That is what rules out a use after free, and holds   *)
(* however many services are launched at once.                              *)
THEOREM NoneHeldDead == Spec => []DeadIsUnheld
<1>1. Spec => []NodeInv
  BY NodeInit, NodeNext, PTL DEF Spec
<1> QED
  BY <1>1, NodeUnheld, PTL
-----------------------------------------------------------------------------
(* Services launched one at a time: from its registration until it has its  *)
(* handle, no other is registered.                                          *)
OneLaunch == \A t, u \in Threads : pc[t] = "new" /\ pc[u] = "new" => t = u

(* The handles given have not come round to 0.                              *)
HandlesLast == \A h \in 1 .. launched : given[h] # 0

(* Then each service whose reference is counted for the storage is in it,   *)
(* in the slot of its handle, be that in the context already or not.        *)
SlotsInv ==
  /\ Sorted(H, given)
  /\ \A h \in Services :
       /\ StorageRef(h) = 1 => InStorage(H, h)
       /\ \/ handle[h] = given[h]
          \/ h \notin registered /\ \E t \in Threads : pc[t] = "new" /\ new[t] = h

(* A step of t that has nothing to do with the storage.                     *)
Apart(t) == Only(t) /\ pc[t] # "new" /\ UNCHANGED <<launched, handles>>

LEMMA SlotsKept ==
  ASSUME SlotsInv, UNCHANGED <<launched, handles>>,
         \A u \in Threads : pc[u] = "new" => pc'[u] = "new" /\ new'[u] = new[u]
  PROVE  SlotsInv'
<1>1. UNCHANGED <<launched, H, given, handle, registered>>
  BY DEF handles
<1>2. Sorted(H, given)'
  BY <1>1 DEF SlotsInv, Sorted
<1>3. Services' = Services
  BY <1>1 DEF Services
<1>4. ASSUME NEW h \in Services
      PROVE  /\ StorageRef(h)' = StorageRef(h) /\ (InStorage(H, h)' <=> InStorage(H, h))
             /\ handle'[h] = handle[h] /\ given'[h] = given[h]
             /\ h \in registered' <=> h \in registered
  BY <1>1 DEF StorageRef, InStorage
<1>5. ASSUME NEW h \in Services
      PROVE  (StorageRef(h) = 1)' => InStorage(H, h)'
  BY <1>4 DEF SlotsInv
<1>6. ASSUME NEW h \in Services
      PROVE  \/ handle'[h] = given'[h]
             \/ h \notin registered' /\ \E t \in Threads : pc'[t] = "new" /\ new'[t] = h
  BY <1>4 DEF SlotsInv
<1> QED
  BY <1>2, <1>3, <1>5, <1>6 DEF SlotsInv

LEMMA ApartKeeps ==
  ASSUME SlotsInv, NEW t \in Threads, Apart(t)
  PROVE  SlotsInv'
<1>1. \A u \in Threads : pc[u] = "new" => pc'[u] = "new" /\ new'[u] = new[u]
  BY DEF Apart, Only
<1> QED
  BY <1>1, SlotsKept DEF Apart

(* The steps that are.                                                      *)
LEMMA WorkApart ==
  ASSUME NodeInv, NEW w \in Workers, Work(w), ~Create(w), ~RetireFailed(w)
  PROVE  Apart(w)
<1>0. w \in Threads
  BY DEF Threads
<1> USE <1>0, WorkerFacts DEF Goto, Only, Apart, storage
<1>1. CASE GlobalPop(w)
  BY <1>1 DEF GlobalPop
<1>2. CASE Sleep(w) \/ Quit(w) \/ Return(w) \/ Flag(w)
  BY <1>2 DEF Sleep, Quit, Return, Flag
<1>3. CASE BeginTurn(w)
  BY <1>3 DEF BeginTurn
<1>4. CASE Empty(w)
  BY <1>4 DEF Empty
<1>5. CASE Dispatch(w)
  BY <1>5 DEF Dispatch
<1>6. CASE Yield(w)
  BY <1>6 DEF Yield
<1>7. CASE Requeue(w) \/ Start(w)
  BY <1>7 DEF Requeue, Start
<1>8. CASE EndTurn(w)
  BY <1>8 DEF EndTurn
<1>9. CASE Launched(w)
  BY <1>9 DEF Launched
<1>10. CASE ReleaseQueue(w)
  BY <1>10 DEF ReleaseQueue, Resume
<1>11. CASE Drop(w)
  BY <1>11 DEF Drop, Take
<1>12. CASE FreeQueue(w)
  BY <1>12 DEF FreeQueue, Resume
<1> QED
  BY <1>1, <1>2, <1>3, <1>4, <1>5, <1>6, <1>7, <1>8, <1>9, <1>10, <1>11, <1>12
  DEF Work

LEMMA DeliverApart ==
  ASSUME NodeInv, NEW t \in Threads, Deliver(t) \/ \E h \in Handles : Send(t, h)
  PROVE  Apart(t)
<1> USE WorkerFacts DEF Goto, Only, Apart, storage
<1>1. CASE PushMessage(t)
  BY <1>1 DEF PushMessage
<1>2. CASE Put(t)
  BY <1>2 DEF Put
<1>3. CASE \E h \in Handles : Send(t, h)
  BY <1>3 DEF Send, Sends, Take
<1> QED
  BY <1>1, <1>2, <1>3 DEF Deliver

(* A registration: nobody else has a context without its handle, so the     *)
(* handles in the contexts are those given.                                 *)
LEMMA LaunchSlots ==
  ASSUME NodeInv, SlotsInv, OneLaunch', NEW w \in Workers, Launch(w)
  PROVE  SlotsInv'
<1>0. w \in Threads
  BY DEF Threads
<1>1. PICK g : g = launched + 1
  OBVIOUS
<1>2. Only(w) /\ pc'[w] = "new" /\ new'[w] = g /\ pc[w] = "run"
  BY <1>0, <1>1, WorkerFacts DEF Launch, Goto, Only
<1>3. PICK reg : reg = skynet_handle_register(H, handle, g)
  OBVIOUS
<1>4. /\ UNCHANGED <<handle, registered>>
      /\ launched' = g /\ H' = reg.storage
      /\ given' = [given EXCEPT ![g] = reg.handle]
  BY <1>1, <1>3 DEF Launch
<1>5. /\ launched \in 0 .. HANDLE_MASK /\ g \in Handles /\ g \notin Services
      /\ Services \subseteq Handles /\ Services' = Services \cup {g}
  <2>1. /\ launched \in 1 .. MaxHandles /\ launched < MaxHandles
        /\ MaxHandles \in 1 .. HANDLE_MASK + 1 /\ HANDLE_MASK \in Nat
    BY SkynetAssumption, HandleAssumption DEF NodeInv, RingInv, Launch
  <2> QED
    BY <1>1, <1>4, <2>1 DEF Handles, Services
<1>6. ASSUME NEW u \in Threads PROVE pc[u] # "new"
  BY <1>0, <1>2, <1>6 DEF Only, OneLaunch
<1>7. /\ given'[g] = reg.handle
      /\ \A h \in Services : given'[h] = given[h] /\ given[h] = handle[h]
  <2>1. given \in [Handles -> 0 .. HANDLE_MASK]
    BY DEF NodeInv, StoreInv
  <2>2. \A h \in Services : given[h] = handle[h]
    BY <1>6 DEF SlotsInv
  <2> QED
    BY <1>4, <1>5, <2>1, <2>2
<1>8. GoodStorage(H, launched) /\ \A h \in 1 .. launched : handle[h] \in Nat
  BY <1>5, HandleAssumption DEF NodeInv, StoreInv, Services
<1>9. Sorted(H, handle)
  <2>1. \A i \in DOMAIN H.slot : H.slot[i] # 0 => H.slot[i] \in Services
    BY <1>8 DEF GoodStorage, IsStorage, Services
  <2> QED
    BY <1>7, <2>1 DEF SlotsInv, Sorted
<1>10. /\ Sorted(H', given')
       /\ InStorage(H', g)
       /\ \A h \in Services : InStorage(H, h) => InStorage(H', h)
  <2>1. PICK gv : gv = given'
    OBVIOUS
  <2>2. \A c \in 1 .. launched : gv[c] = handle[c]
    BY <1>7, <2>1 DEF Services
  <2>3. /\ Sorted(reg.storage, gv) /\ InStorage(reg.storage, launched + 1)
        /\ \A c \in 1 .. launched : InStorage(H, c) => InStorage(reg.storage, c)
    BY <1>1, <1>3, <1>5, <1>7, <1>8, <1>9, <2>1, <2>2, RegisteredKeeps
  <2> QED
    BY <1>1, <1>4, <2>1, <2>3 DEF Services
<1>11. ASSUME NEW h \in Services
       PROVE  StorageRef(h)' = 1 => InStorage(H', h)
  <2>1. StorageRef(h)' = StorageRef(h)
    BY <1>4 DEF StorageRef
  <2> QED
    BY <1>10, <2>1 DEF SlotsInv
<1>12. \A h \in Services : handle'[h] = given'[h]
  BY <1>4, <1>7
<1>13. g \notin registered'
  BY <1>4, <1>5 DEF NodeInv, Fresh
<1> QED
  BY <1>0, <1>2, <1>5, <1>10, <1>11, <1>12, <1>13 DEF SlotsInv

LEMMA CreateSlots ==
  ASSUME NodeInv, SlotsInv, NEW w \in Workers, Create(w)
  PROVE  SlotsInv'
<1>0. w \in Threads
  BY DEF Threads
<1>1. PICK g : g = new[w]
  OBVIOUS
<1>2. Only(w) /\ pc[w] = "new"
  BY <1>0, WorkerFacts DEF Create, Goto, Only
<1>3. /\ UNCHANGED <<launched, H, given>>
      /\ handle' = [handle EXCEPT ![g] = given[g]]
      /\ registered' = registered \cup {g}
  BY <1>1 DEF Create, Assign
<1>4. g \in Services /\ Services \subseteq Handles /\ Services' = Services
  BY <1>0, <1>1, <1>2, <1>3, WorkerFacts, ServiceFacts
  DEF Control, Loc, HasOther, NodeInv, Services
<1>5. /\ handle'[g] = given[g]
      /\ \A h \in Services : h # g => handle'[h] = handle[h]
  BY <1>3, <1>4 DEF NodeInv, StoreInv
<1>6. StorageRef(g) = 1
  BY <1>0, <1>1, <1>2 DEF NodeInv, NewInv, StorageRef
<1>7. \A h \in Services : h # g => StorageRef(h)' = StorageRef(h)
  BY <1>3, <1>5 DEF StorageRef
<1>8. ASSUME NEW h \in Services
      PROVE  StorageRef(h)' = 1 => InStorage(H', h)
  BY <1>3, <1>6, <1>7 DEF SlotsInv
<1>9. ASSUME NEW h \in Services, h # g
      PROVE  \/ handle'[h] = given'[h]
             \/ h \notin registered' /\ \E t \in Threads : pc'[t] = "new" /\ new'[t] = h
  <2>1. CASE handle[h] = given[h]
    BY <1>3, <1>5, <1>9, <2>1
  <2>2. CASE h \notin registered /\ \E t \in Threads : pc[t] = "new" /\ new[t] = h
    <3>1. PICK t \in Threads : pc[t] = "new" /\ new[t] = h
      BY <2>2
    <3>2. t # w
      BY <1>1, <1>9, <3>1
    <3> QED
      BY <1>2, <1>3, <1>9, <2>2, <3>1, <3>2 DEF Only
  <2> QED
    BY <2>1, <2>2 DEF SlotsInv
<1>10. Sorted(H', given')
  BY <1>3 DEF SlotsInv
<1> QED
  BY <1>3, <1>4, <1>5, <1>8, <1>9, <1>10 DEF SlotsInv

(* A service that is retired, by a command or by its launcher.              *)
LEMMA RetireSlots ==
  ASSUME NodeInv, SlotsInv, NEW w \in Threads, Only(w), pc[w] # "new",
         NEW g \in Handles, Found(g),
         H' = skynet_handle_retire(H, handle, handle[g]),
         registered' = registered \ {g},
         UNCHANGED <<launched, given, handle>>
  PROVE  SlotsInv'
<1>1. /\ g \in Services /\ handle[g] \in Nat /\ handle[g] # 0
      /\ launched \in Nat /\ Services' = Services
  BY FoundFacts, ServiceFacts DEF NodeInv, Services
<1>2. /\ Sorted(H, given) => Sorted(H', given)
      /\ \A h \in Services : h # g /\ InStorage(H, h) => InStorage(H', h)
  <2>1. GoodStorage(H, launched) /\ g \in 1 .. launched
    BY <1>1 DEF NodeInv, StoreInv, Services
  <2>2. skynet_handle_grab(H, handle, handle[g]) = g
    BY DEF Found
  <2> QED
    BY <1>1, <2>1, <2>2, Retired DEF Services
<1>3. Sorted(H', given')
  BY <1>2 DEF SlotsInv
<1>4. StorageRef(g)' # 1
  BY <1>1 DEF StorageRef
<1>5. ASSUME NEW h \in Services
      PROVE  StorageRef(h)' = 1 => InStorage(H', h)
  <2>1. CASE h = g
    BY <1>4, <2>1
  <2>2. CASE h # g
    <3>1. StorageRef(h)' = StorageRef(h)
      BY <2>2 DEF StorageRef
    <3> QED
      BY <1>2, <2>2, <3>1 DEF SlotsInv
  <2> QED
    BY <2>1, <2>2
<1>6. ASSUME NEW h \in Services
      PROVE  \/ handle'[h] = given'[h]
             \/ h \notin registered' /\ \E t \in Threads : pc'[t] = "new" /\ new'[t] = h
  BY DEF SlotsInv, Only
<1> QED
  BY <1>1, <1>3, <1>5, <1>6 DEF SlotsInv

LEMMA SlotsInit == Init => SlotsInv
<1> SUFFICES ASSUME Init PROVE SlotsInv
  OBVIOUS
<1>1. /\ Services = {1} /\ 1 \in Handles /\ HANDLE_MASK \in Nat
  BY SkynetAssumption, HandleAssumption DEF Init, Services, Handles
<1>2. PICK none, first :
        /\ none = [h \in Handles |-> 0]
        /\ first = skynet_handle_register(NewStorage, none, 0 + 1)
  OBVIOUS
<1>3. /\ H = first.storage
      /\ given = [h \in Handles |-> IF h = 1 THEN first.handle ELSE 0]
      /\ handle = given
  <2>1. 0 + 1 = 1
    OBVIOUS
  <2> QED
    BY <1>2, <2>1 DEF Init
<1>4. Sorted(NewStorage, none)
  BY DEF Sorted, NewStorage
<1>5. given[0 + 1] = first.handle
  BY <1>1, <1>3
<1>6. 0 \in 0 .. HANDLE_MASK /\ \A c \in 1 .. 0 : none[c] \in Nat /\ given[c] = none[c]
  BY <1>1
<1>7. Sorted(first.storage, given) /\ InStorage(first.storage, 0 + 1)
  BY <1>2, <1>4, <1>5, <1>6, NewStorageIsGood, RegisteredKeeps
<1>8. 0 + 1 = 1
  OBVIOUS
<1> QED
  BY <1>1, <1>3, <1>7, <1>8 DEF SlotsInv

LEMMA SlotsNext == NodeInv /\ SlotsInv /\ OneLaunch' /\ [Next]_vars => SlotsInv'
<1> SUFFICES ASSUME NodeInv, SlotsInv, OneLaunch', [Next]_vars PROVE SlotsInv'
  OBVIOUS
<1>1. ASSUME NEW w \in Workers, Work(w) PROVE SlotsInv'
  <2>0. w \in Threads
    BY DEF Threads
  <2>1. CASE Create(w)
    BY <2>1, CreateSlots
  <2>2. CASE RetireFailed(w)
    <3>1. /\ Only(w) /\ pc[w] = "failed" /\ UNCHANGED launched
          /\ pc[w] # "new"
      BY <2>0, <2>2, WorkerFacts DEF RetireFailed, Retire, Take, Goto, Only
    <3>2. CASE Found(new[w])
      <4>1. new[w] \in Handles
        BY <2>0, <3>1, WorkerFacts, ServiceFacts DEF Control, Loc, HasOther, NodeInv
      <4>2. /\ H' = skynet_handle_retire(H, handle, handle[new[w]])
            /\ registered' = registered \ {new[w]}
            /\ UNCHANGED <<given, handle>>
        BY <2>2, <3>2 DEF RetireFailed, Retire
      <4> QED
        BY <2>0, <3>1, <3>2, <4>1, <4>2, RetireSlots
    <3>3. CASE ~Found(new[w])
      <4>1. UNCHANGED handles
        BY <2>2, <3>3 DEF RetireFailed
      <4> QED
        BY <2>0, <3>1, <4>1, ApartKeeps DEF Apart
    <3> QED
      BY <3>2, <3>3
  <2>3. CASE ~Create(w) /\ ~RetireFailed(w)
    BY <1>1, <2>0, <2>3, WorkApart, ApartKeeps
  <2> QED
    BY <2>1, <2>2, <2>3
<1>2. ASSUME NEW w \in Workers, Command(w) PROVE SlotsInv'
  <2>0. w \in Threads
    BY DEF Threads
  <2>1. ASSUME NEW h \in Handles, Kill(w, h) PROVE SlotsInv'
    <3>1. /\ Only(w) /\ pc[w] # "new" /\ Found(h)
          /\ H' = skynet_handle_retire(H, handle, handle[h])
          /\ registered' = registered \ {h}
          /\ UNCHANGED <<launched, given, handle>>
      BY <2>0, <2>1, WorkerFacts DEF Kill, Retire, Take, Goto, Only
    <3> QED
      BY <2>0, <3>1, RetireSlots
  <2>2. CASE Launch(w)
    BY <2>2, LaunchSlots
  <2>3. CASE LaunchFailed(w)
    <3>1. Apart(w)
      BY <2>0, <2>3, WorkerFacts DEF LaunchFailed, Goto, Only, Apart
    <3> QED
      BY <2>0, <3>1, ApartKeeps
  <2> QED
    BY <1>2, <2>1, <2>2, <2>3 DEF Command
<1>3. ASSUME NEW t \in Threads, Deliver(t) \/ \E h \in Handles : Send(t, h)
      PROVE  SlotsInv'
  BY <1>3, DeliverApart, ApartKeeps
<1>4. ASSUME TimerTick \/ SocketWakeup \/ SocketExit PROVE SlotsInv'
  <2>1. UNCHANGED <<launched, handles, new>>
    BY <1>4 DEF TimerTick, SocketWakeup, SocketExit, storage
  <2>2. \A u \in Threads : pc[u] = "new" => pc'[u] = "new"
    <3>1. pc \in [Threads -> Labels] /\ timer \in Threads /\ socket \in Threads
      BY WorkerFacts DEF Threads, NodeInv, RingInv
    <3>2. CASE TimerTick
      BY <3>1, <3>2 DEF TimerTick, Signal, Asleep, Goto
    <3>3. CASE SocketWakeup
      BY <3>1, <3>3 DEF SocketWakeup, Signal, Asleep, Goto
    <3>4. CASE SocketExit
      BY <3>1, <3>4 DEF SocketExit, Goto
    <3> QED
      BY <1>4, <3>2, <3>3, <3>4
  <2> QED
    BY <2>1, <2>2, SlotsKept
<1>5. ASSUME UNCHANGED vars PROVE SlotsInv'
  <2>1. UNCHANGED <<launched, handles, new, pc>>
    BY <1>5 DEF vars, storage, threads
  <2> QED
    BY <2>1, SlotsKept
<1> QED
  BY <1>1, <1>2, <1>3, <1>4, <1>5 DEF Next

LEMMA SlotsAlways == Spec /\ []OneLaunch => [](NodeInv /\ SlotsInv)
<1>1. Init => NodeInv /\ SlotsInv
  BY NodeInit, SlotsInit
<1>2. NodeInv /\ SlotsInv /\ OneLaunch' /\ [Next]_vars => (NodeInv /\ SlotsInv)'
  BY NodeNext, SlotsNext
<1> QED
  BY <1>1, <1>2, PTL DEF Spec

(* If services are launched one at a time, each context has exactly the     *)
(* references that the storage, workers, senders and its launcher hold: it  *)
(* is not freed before they have given theirs back, and it is freed then.   *)
THEOREM AllCounted == Spec /\ []OneLaunch => []ReferencesCounted
<1>1. NodeInv /\ SlotsInv => ReferencesCounted
  <2> SUFFICES ASSUME NodeInv, SlotsInv, NEW h \in 1 .. launched
               PROVE  ref[h] = (IF InStorage(H, h) THEN 1 ELSE 0)
                               + Cardinality(Serving(h)) + Cardinality(Pushing(h))
                               + Cardinality(Launching(h))
    BY DEF ReferencesCounted
  <2>1. /\ ref[h] = StorageRef(h) + Held(h)
        /\ InStorage(H, h) => StorageRef(h) = 1
    BY DEF NodeInv, RefInv, Services
  <2>2. StorageRef(h) = IF InStorage(H, h) THEN 1 ELSE 0
    <3>1. StorageRef(h) = 1 => InStorage(H, h)
      BY DEF SlotsInv, Services
    <3>2. StorageRef(h) = 1 \/ StorageRef(h) = 0
      BY DEF StorageRef
    <3> QED
      BY <2>1, <3>1, <3>2
  <2>3. PICK s, p, l \in Nat : /\ s = Cardinality(Serving(h))
                               /\ p = Cardinality(Pushing(h))
                               /\ l = Cardinality(Launching(h))
    <3>1. IsFiniteSet(Serving(h)) /\ IsFiniteSet(Pushing(h)) /\ IsFiniteSet(Launching(h))
      BY ThreadsFinite, FS_Subset DEF Serving, Pushing, Launching
    <3> QED
      BY <3>1, FS_CardinalityType
  <2>4. ref[h] = StorageRef(h) + (s + p + l) /\ StorageRef(h) \in Int
    BY <2>1, <2>3 DEF Held, StorageRef
  <2>5. ref[h] = StorageRef(h) + s + p + l
    BY <2>3, <2>4
  <2> QED
    BY <2>2, <2>3, <2>5
<1> QED
  BY <1>1, SlotsAlways, PTL

(* And if no handle is 0 once more, a service is found under its handle     *)
(* from the moment it has one until it is retired, however often the        *)
(* storage is doubled, and never again.                                     *)
THEOREM AllFound == Spec /\ []OneLaunch /\ []HandlesLast => []HandlesFound
<1>1. NodeInv /\ SlotsInv /\ HandlesLast => HandlesFound
  <2> SUFFICES ASSUME NodeInv, SlotsInv, HandlesLast, NEW h \in 1 .. launched
               PROVE  Found(h) <=> h \in registered
    BY DEF HandlesFound
  <2>1. h \in Services /\ h \in Handles /\ h # 0
    BY ServiceFacts DEF Services, NodeInv
  <2>2. Found(h) => h \in registered
    BY <2>1, FoundFacts DEF StorageRef
  <2>3. ASSUME h \in registered PROVE Found(h)
    <3>1. handle[h] = given[h] /\ handle[h] # 0
      BY <2>1, <2>3 DEF SlotsInv, HandlesLast
    <3>2. InStorage(H, h)
      BY <2>1, <2>3 DEF SlotsInv, StorageRef
    <3>3. PICK i \in DOMAIN H.slot : H.slot[i] = h
      BY <3>2 DEF InStorage
    <3>4. H.slot[handle[h] % H.slot_size] = h
      BY <2>1, <3>1, <3>3 DEF SlotsInv, Sorted
    <3> QED
      BY <2>1, <3>1, <3>4 DEF Found, skynet_handle_grab
  <2> QED
    BY <2>2, <2>3
<1> QED
  BY <1>1, SlotsAlways, PTL

(* assert(new_slot[hash] == NULL) in skynet_handle_register: when the next  *)
(* service may be registered, no two contexts would go to one slot of a     *)
(* doubled storage.                                                         *)
THEOREM NoneCollide ==
  Spec /\ []OneLaunch => []((\A t \in Threads : pc[t] # "new") => NoCollision(H, handle))
<1>1. NodeInv /\ SlotsInv => ((\A t \in Threads : pc[t] # "new") => NoCollision(H, handle))
  <2> SUFFICES ASSUME NodeInv, SlotsInv, \A t \in Threads : pc[t] # "new"
               PROVE  NoCollision(H, handle)
    OBVIOUS
  <2>1. /\ GoodStorage(H, launched) /\ launched \in Nat
        /\ \A h \in 1 .. launched : handle[h] \in Nat /\ handle[h] = given[h]
    BY ServiceFacts, HandleAssumption DEF NodeInv, StoreInv, SlotsInv, Services
  <2>2. Sorted(H, handle)
    <3>1. \A i \in DOMAIN H.slot : H.slot[i] # 0 => H.slot[i] \in 1 .. launched
      BY <2>1 DEF GoodStorage, IsStorage
    <3> QED
      BY <2>1, <3>1 DEF SlotsInv, Sorted
  <2> QED
    BY <2>1, <2>2, DoubledKeeps
<1> QED
  BY <1>1, SlotsAlways, PTL
(* A service whose init is not done is in the hands of its launcher, or     *)
(* retired, so that no worker that looks for it finds it.                   *)
Opening == {"init", "flag", "failed"}
Outside == {"top", "empty", "asleep", "done"}

Opened(h) == h \in init \/ h \notin registered
HeldOpen(h) == \E t \in Threads : Loc(t) \in Opening /\ new[t] = h
TurnOpened(t) == q[t] # 0 /\ Loc(t) \notin Outside => q[t] \in init

InitInv ==
  /\ \A h \in Services : Opened(h) \/ HeldOpen(h)
  /\ \A t \in Threads : TurnOpened(t)

(* A step of t, by what it does to the service it launches, if any, and to  *)
(* the one it serves.                                                       *)
LEMMA InitKept ==
  ASSUME InitInv, NEW t \in Threads, Only(t),
         \A h \in Services' : h \in Services \/ h \notin registered',
         init \subseteq init',
         \A h \in Services : h \in registered' /\ h \notin registered =>
                               Loc(t)' \in Opening /\ new'[t] = h,
         Loc(t) \in Opening => \/ Loc(t)' \in Opening /\ new'[t] = new[t]
                               \/ new[t] \in init' \/ new[t] \notin registered',
         TurnOpened(t)'
  PROVE  InitInv'
<1>1. ASSUME NEW u \in Threads, u # t
      PROVE  /\ Loc(u)' = Loc(u) /\ new'[u] = new[u] /\ q'[u] = q[u]
             /\ TurnOpened(u)'
  <2>1. Loc(u)' = Loc(u) /\ new'[u] = new[u] /\ q'[u] = q[u]
    BY <1>1 DEF Only, Loc
  <2> QED
    BY <1>1, <2>1 DEF InitInv, TurnOpened
<1>2. ASSUME NEW h \in Services' PROVE Opened(h)' \/ HeldOpen(h)'
  <2>1. CASE h \notin Services
    BY <1>2, <2>1 DEF Opened
  <2>2. CASE h \in Services /\ Opened(h)
    <3>1. CASE h \in init \/ h \notin registered'
      BY <3>1 DEF Opened
    <3>2. CASE h \in registered' /\ h \notin registered
      BY <2>2, <3>2 DEF HeldOpen
    <3> QED
      BY <2>2, <3>1, <3>2 DEF Opened
  <2>3. CASE HeldOpen(h)
    <3>1. PICK u \in Threads : Loc(u) \in Opening /\ new[u] = h
      BY <2>3 DEF HeldOpen
    <3>2. CASE u # t
      BY <1>1, <3>1, <3>2 DEF HeldOpen
    <3>3. CASE u = t /\ (new[t] \in init' \/ new[t] \notin registered')
      BY <3>1, <3>3 DEF Opened
    <3>4. CASE u = t /\ Loc(t)' \in Opening /\ new'[t] = new[t]
      BY <3>1, <3>4 DEF HeldOpen
    <3> QED
      BY <3>1, <3>2, <3>3, <3>4
  <2> QED
    BY <2>1, <2>2, <2>3 DEF InitInv
<1>3. \A u \in Threads : TurnOpened(u)'
  BY <1>1
<1> QED
  BY <1>2, <1>3 DEF InitInv

(* The steps that keep the registered, the init flags and what t has.       *)
LEMMA InitSame ==
  ASSUME InitInv, NEW t \in Threads, Only(t),
         UNCHANGED <<launched, registered, init>>,
         q'[t] = q[t], Loc(t) \in Outside => Loc(t)' \in Outside,
         Loc(t) \in Opening => Loc(t)' \in Opening /\ new'[t] = new[t]
  PROVE  InitInv'
<1>1. TurnOpened(t)'
  BY DEF InitInv, TurnOpened
<1>2. Services' = Services
  BY DEF Services
<1> QED
  BY <1>1, <1>2, InitKept

LEMMA WorkInits ==
  ASSUME NodeInv, NodeInv', HandlesFound, InitInv, NEW w \in Workers, Work(w)
  PROVE  InitInv'
<1>0. w \in Threads
  BY DEF Threads
<1>o. Only(w)
  <2> USE <1>0, WorkerFacts DEF Goto, Only, storage
  <2>1. CASE GlobalPop(w) \/ Sleep(w) \/ Quit(w) \/ Return(w) \/ Flag(w)
    BY <2>1 DEF GlobalPop, Sleep, Quit, Return, Flag
  <2>2. CASE BeginTurn(w) \/ Empty(w) \/ Dispatch(w)
    BY <2>2 DEF BeginTurn, Empty, Dispatch
  <2>3. CASE Yield(w) \/ Requeue(w) \/ Start(w) \/ EndTurn(w)
    BY <2>3 DEF Yield, Requeue, Start, EndTurn
  <2>4. CASE Create(w) \/ Launched(w) \/ RetireFailed(w)
    BY <2>4 DEF Create, Launched, RetireFailed, Retire, Take
  <2>5. CASE ReleaseQueue(w) \/ Drop(w) \/ FreeQueue(w)
    BY <2>5 DEF ReleaseQueue, Drop, FreeQueue, Resume, Take
  <2> QED
    BY <1>0, <2>1, <2>2, <2>3, <2>4, <2>5 DEF Work
<1>c. Control(w) /\ Control(w)'
  BY <1>0 DEF NodeInv
<1>1. CASE GlobalPop(w)
  <2>1. /\ UNCHANGED <<launched, registered, init, new, back>>
        /\ Loc(w) \notin Opening /\ Loc(w)' \in Outside
    BY <1>0, <1>1, WorkerFacts
    DEF GlobalPop, storage, handles, Goto, Loc, Opening, Outside
  <2>2. TurnOpened(w)' /\ Services' = Services
    BY <2>1 DEF TurnOpened, Services
  <2> QED
    BY <1>0, <1>o, <2>1, <2>2, InitKept
<1>2. CASE \/ Sleep(w) \/ Quit(w) \/ Return(w) \/ Empty(w) \/ Dispatch(w)
           \/ Yield(w) \/ Requeue(w)
  <2>1. /\ UNCHANGED <<launched, registered, init, q>>
        /\ Loc(w) \notin Opening
        /\ Loc(w) \in Outside => Loc(w)' \in Outside
    BY <1>0, <1>2, WorkerFacts
    DEF Sleep, Quit, Return, Empty, Dispatch, Yield, Requeue, storage, handles,
        Goto, Loc, Opening, Outside
  <2> QED
    BY <1>0, <1>o, <2>1, InitSame
<1>3. CASE BeginTurn(w)
  <2>1. /\ UNCHANGED <<launched, registered, init>>
        /\ pc[w] = "top" /\ q[w] # 0 /\ Loc(w) \notin Opening
    BY <1>0, <1>3, WorkerFacts DEF BeginTurn, handles, Loc, Opening
  <2>2. CASE Found(q[w])
    <3>1. /\ q[w] \in Services /\ q[w] \in Handles /\ new[w] = 0
          /\ q[w] \in InHand(w) /\ 0 \notin Services
      BY <1>c, <2>1, ServiceFacts DEF Control, Loc, HasNoOther, InHand, NodeInv
    <3>2. q[w] \in registered
      BY <2>2, <3>1 DEF HandlesFound, Services
    <3>3. ~HeldOpen(q[w])
      <4> SUFFICES ASSUME NEW t \in Threads, Loc(t) \in Opening, new[t] = q[w]
                   PROVE  FALSE
        BY DEF HeldOpen
      <4>1. q[w] \in InHand(t)
        BY <2>1 DEF InHand, Loc, Opening
      <4>2. t # w
        BY <2>1, <3>1
      <4> QED
        BY <1>0, <3>1, <4>1, <4>2, InHandFacts DEF Alone
    <3>4. q[w] \in init
      BY <3>1, <3>2, <3>3 DEF InitInv, Opened
    <3>5. q'[w] = q[w]
      BY <1>3, <2>2 DEF BeginTurn
    <3>6. TurnOpened(w)' /\ Services' = Services
      BY <2>1, <3>4, <3>5 DEF TurnOpened, Services
    <3> QED
      BY <1>0, <1>o, <2>1, <3>6, InitKept
  <2>3. CASE ~Found(q[w])
    <3>1. q'[w] = 0
      BY <1>0, <1>3, <2>3, WorkerFacts DEF BeginTurn
    <3>2. TurnOpened(w)' /\ Services' = Services
      BY <2>1, <3>1 DEF TurnOpened, Services
    <3> QED
      BY <1>0, <1>o, <2>1, <3>2, InitKept
  <2> QED
    BY <2>2, <2>3
<1>4. CASE EndTurn(w)
  <2>1. /\ UNCHANGED <<launched, registered, init>>
        /\ Loc(w) \notin Opening /\ Loc(w)' \in Outside
    BY <1>0, <1>4, WorkerFacts DEF EndTurn, handles, Goto, Loc, Opening, Outside
  <2>2. TurnOpened(w)' /\ Services' = Services
    BY <2>1 DEF TurnOpened, Services
  <2> QED
    BY <1>0, <1>o, <2>1, <2>2, InitKept
<1>5. CASE Create(w)
  <2>1. /\ UNCHANGED <<launched, init, q, new>>
        /\ registered' = registered \cup {new[w]}
        /\ Loc(w) = "new" /\ Loc(w)' = "init"
    BY <1>0, <1>5, WorkerFacts DEF Create, Assign, Goto, Loc
  <2>2. TurnOpened(w)' /\ Services' = Services
    BY <1>0, <2>1 DEF InitInv, TurnOpened, Services, Outside
  <2> QED
    BY <1>0, <1>o, <2>1, <2>2, InitKept DEF Opening
<1>6. CASE Launched(w)
  <2>1. /\ UNCHANGED <<launched, registered, init, q, new>>
        /\ Loc(w) = "init"
        /\ Loc(w)' = IF ref[new[w]] = 1 THEN "start" ELSE "flag"
        /\ ref' = [ref EXCEPT ![new[w]] = @ - 1]
    BY <1>0, <1>6, WorkerFacts DEF Launched, handles, Release, Goto, Loc
  <2>2. TurnOpened(w)' /\ Services' = Services
    BY <1>0, <2>1 DEF InitInv, TurnOpened, Services, Outside
  <2>3. CASE ref[new[w]] # 1
    BY <1>0, <1>o, <2>1, <2>2, <2>3, InitKept DEF Opening
  <2>4. CASE ref[new[w]] = 1
    <3>1. new[w] \in Services
      BY <1>c, <2>1 DEF Control, HasOther
    <3>2. /\ StorageRef(new[w]) \in Nat
          /\ ref[new[w]] = StorageRef(new[w]) + Held(new[w])
      BY <3>1 DEF NodeInv, RefInv, StorageRef
    <3>3. Held(new[w]) \in Nat /\ Held(new[w]) >= 1
      <4>1. Launches(w, new[w])
        BY <1>6 DEF Launched, Launches
      <4>2. Holds(w, new[w]) >= 1
        BY <4>1 DEF Holds, One
      <4>3. /\ Held(new[w]) \in Nat /\ Holds(w, new[w]) \in Nat
            /\ Holds(w, new[w]) <= Held(new[w])
        BY <1>0, <1>o, HeldStep
      <4> QED
        BY <4>2, <4>3
    <3>4. new[w] \notin registered
      <4>1. StorageRef(new[w]) = 0
        BY <2>4, <3>2, <3>3
      <4> QED
        BY <4>1 DEF StorageRef
    <3> QED
      BY <1>0, <1>o, <2>1, <2>2, <3>4, InitKept
  <2> QED
    BY <2>3, <2>4
<1>7. CASE Flag(w)
  <2>1. /\ UNCHANGED <<launched, registered, q, new>>
        /\ init' = init \cup {new[w]}
        /\ Loc(w) = "flag"
    BY <1>0, <1>7, WorkerFacts DEF Flag, handles, Goto, Loc
  <2>2. TurnOpened(w)' /\ Services' = Services
    BY <1>0, <2>1 DEF InitInv, TurnOpened, Services, Outside
  <2> QED
    BY <1>0, <1>o, <2>1, <2>2, InitKept
<1>8. CASE Start(w) \/ ReleaseQueue(w) \/ Drop(w) \/ FreeQueue(w)
  <2>1. /\ UNCHANGED <<launched, registered, init, q>>
        /\ Loc(w) \in {"start", "release", "drop"}
    BY <1>0, <1>8, WorkerFacts
    DEF Start, ReleaseQueue, Drop, FreeQueue, storage, handles, Loc
  <2>2. TurnOpened(w)' /\ Services' = Services
    BY <1>0, <2>1 DEF InitInv, TurnOpened, Services, Outside
  <2> QED
    BY <1>0, <1>o, <2>1, <2>2, InitKept DEF Opening
<1>9. CASE RetireFailed(w)
  <2>1. UNCHANGED <<launched, init, q, new>> /\ Loc(w) = "failed"
    BY <1>9 DEF RetireFailed, Loc
  <2>2. TurnOpened(w)' /\ Services' = Services
    BY <1>0, <2>1 DEF InitInv, TurnOpened, Services, Outside
  <2>3. new[w] \in Services
    BY <1>c, <2>1 DEF Control, HasOther
  <2>4. registered' \subseteq registered /\ new[w] \notin registered'
    <3>1. CASE Found(new[w])
      BY <1>9, <3>1 DEF RetireFailed, Retire
    <3>2. CASE ~Found(new[w])
      BY <1>9, <2>3, <3>2 DEF RetireFailed, handles, HandlesFound, Services
    <3> QED
      BY <3>1, <3>2
  <2> QED
    BY <1>0, <1>o, <2>1, <2>2, <2>4, InitKept
<1> QED
  BY <1>1, <1>2, <1>3, <1>4, <1>5, <1>6, <1>7, <1>8, <1>9 DEF Work

LEMMA CommandInits ==
  ASSUME NodeInv, InitInv, NEW w \in Workers, Command(w)
  PROVE  InitInv'
<1>0. w \in Threads
  BY DEF Threads
<1>1. ASSUME NEW h \in Handles, Kill(w, h) PROVE InitInv'
  <2>1. /\ Only(w) /\ UNCHANGED <<launched, init, q, new>>
        /\ registered' = registered \ {h}
        /\ Loc(w)' = Loc(w) /\ Loc(w) \in {"run", "init"}
    BY <1>0, <1>1, WorkerFacts DEF Kill, Retire, Take, Goto, Only, Loc
  <2>2. TurnOpened(w)' /\ Services' = Services
    BY <1>0, <2>1 DEF InitInv, TurnOpened, Services
  <2> QED
    BY <1>0, <2>1, <2>2, InitKept
<1>2. CASE Launch(w)
  <2>1. /\ Only(w) /\ UNCHANGED <<registered, init, q>>
        /\ launched' = launched + 1
        /\ Loc(w)' = "new" /\ Loc(w) = "run"
    BY <1>0, <1>2, WorkerFacts DEF Launch, Goto, Only, Loc
  <2>2. TurnOpened(w)'
    BY <1>0, <2>1 DEF InitInv, TurnOpened, Outside
  <2>3. \A h \in Services' : h \in Services \/ h \notin registered'
    <3>1. Services' \subseteq Handles
      BY <1>2, <2>1, SkynetAssumption, HandleAssumption
      DEF Launch, NodeInv, RingInv, Services, Handles
    <3> QED
      BY <2>1, <3>1 DEF NodeInv, Fresh
  <2> QED
    BY <1>0, <2>1, <2>2, <2>3, InitKept DEF Opening
<1>3. CASE LaunchFailed(w)
  <2>1. /\ Only(w) /\ UNCHANGED <<launched, registered, init, q, new>>
        /\ Loc(w)' = "failed" /\ Loc(w) = "init"
    BY <1>0, <1>3, WorkerFacts DEF LaunchFailed, handles, Goto, Only, Loc
  <2> QED
    BY <1>0, <2>1, InitSame DEF Outside, Opening
<1> QED
  BY <1>1, <1>2, <1>3 DEF Command

LEMMA DeliverInits ==
  ASSUME NodeInv, InitInv, NEW t \in Threads,
         Deliver(t) \/ \E h \in Handles : Send(t, h)
  PROVE  InitInv'
<1>1. UNCHANGED <<launched, registered, init, q, new>> /\ Loc(t)' = Loc(t)
  <2>1. CASE PushMessage(t)
    BY <2>1, WorkerFacts DEF PushMessage, storage, handles, Goto, Loc
  <2>2. CASE Put(t)
    BY <2>2, WorkerFacts DEF Put, handles, Goto, Loc, Control
  <2>3. CASE \E h \in Handles : Send(t, h)
    BY <2>3, WorkerFacts DEF Send, Sends, Take, handles, Goto, Loc, Control
  <2> QED
    BY <2>1, <2>2, <2>3 DEF Deliver
<1>2. Only(t)
  BY DeliverApart DEF Apart
<1> QED
  BY <1>1, <1>2, InitSame

LEMMA InitsInit == Init => InitInv
<1> SUFFICES ASSUME Init PROVE InitInv
  OBVIOUS
<1>1. Services = {1} /\ init = {1}
  BY DEF Init, Services
<1>2. \A t \in Threads : q[t] = 0
  BY DEF Init
<1> QED
  BY <1>1, <1>2 DEF InitInv, Opened, TurnOpened

LEMMA InitsNext ==
  NodeInv /\ NodeInv' /\ HandlesFound /\ InitInv /\ [Next]_vars => InitInv'
<1> SUFFICES ASSUME NodeInv, NodeInv', HandlesFound, InitInv, [Next]_vars
             PROVE  InitInv'
  OBVIOUS
<1>1. ASSUME TimerTick \/ SocketWakeup \/ SocketExit \/ UNCHANGED vars
      PROVE  InitInv'
  <2>1. UNCHANGED <<launched, registered, init, q, new, back>>
    BY <1>1 DEF TimerTick, SocketWakeup, SocketExit, vars, storage, handles, threads
  <2>2. \A u \in Threads : pc'[u] = pc[u] \/ (pc[u] \in Outside /\ pc'[u] \in Outside)
    <3>1. pc \in [Threads -> Labels] /\ timer \in Threads /\ socket \in Threads
      BY WorkerFacts DEF Threads, NodeInv, RingInv
    <3>2. CASE TimerTick
      BY <3>1, <3>2 DEF TimerTick, Signal, Asleep, Goto, Outside
    <3>3. CASE SocketWakeup
      BY <3>1, <3>3 DEF SocketWakeup, Signal, Asleep, Goto, Outside
    <3>4. CASE SocketExit
      BY <3>1, <3>4 DEF SocketExit, Goto, Outside
    <3>5. CASE UNCHANGED vars
      BY <3>5 DEF vars, threads
    <3> QED
      BY <1>1, <3>2, <3>3, <3>4, <3>5
  <2>3. \A u \in Threads :
          /\ Loc(u)' = Loc(u) \/ (Loc(u) \in Outside /\ Loc(u)' \in Outside)
          /\ new'[u] = new[u] /\ q'[u] = q[u]
    BY <2>1, <2>2 DEF Loc, Outside
  <2>4. Services' = Services
    BY <2>1 DEF Services
  <2>5. \A u \in Threads : TurnOpened(u)'
    BY <2>1, <2>3 DEF InitInv, TurnOpened
  <2>6. ASSUME NEW h \in Services PROVE Opened(h)' \/ HeldOpen(h)'
    <3>1. CASE Opened(h)
      BY <2>1, <3>1 DEF Opened
    <3>2. CASE HeldOpen(h)
      <4>1. PICK t \in Threads : Loc(t) \in Opening /\ new[t] = h
        BY <3>2 DEF HeldOpen
      <4>2. Loc(t)' \in Opening /\ new'[t] = h
        BY <2>3, <4>1 DEF Opening, Outside
      <4> QED
        BY <4>2 DEF HeldOpen
    <3> QED
      BY <3>1, <3>2 DEF InitInv
  <2> QED
    BY <2>4, <2>5, <2>6 DEF InitInv
<1> QED
  BY <1>1, WorkInits, CommandInits, DeliverInits DEF Next

(* assert(ctx->init) in dispatch_message: on the same two conditions, no    *)
(* worker runs the callback of a service whose init is not done, or has     *)
(* failed.                                                                  *)
THEOREM AllInitialised ==
  Spec /\ []OneLaunch /\ []HandlesLast
    => [](\A w \in Workers : pc[w] = "run" => q[w] \in init)
<1>1. InitInv /\ NodeInv => (\A w \in Workers : pc[w] = "run" => q[w] \in init)
  <2> SUFFICES ASSUME InitInv, NodeInv, NEW w \in Workers, pc[w] = "run"
               PROVE  q[w] \in init
    OBVIOUS
  <2>1. w \in Threads /\ Loc(w) = "run"
    BY DEF Threads, Loc
  <2>2. q[w] # 0
    BY <2>1 DEF NodeInv, Control, HasTurn
  <2> QED
    BY <2>1, <2>2 DEF InitInv, TurnOpened, Outside
<1> QED
  BY <1>1, InitsInit, InitsNext, SlotsAlways, AllFound, PTL DEF Spec
==============================================================================
