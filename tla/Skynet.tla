------------------------------- MODULE Skynet --------------------------------
(***************************************************************************)
(* The heart of a skynet node (skynet-src): services, their message        *)
(* queues, and the threads that serve them.  A service is a context and a  *)
(* queue under one handle.  The queues that have work are in the global    *)
(* queue; a worker takes one, hands messages of it to the callback of the  *)
(* service, and puts it back.  A context is freed when its last reference  *)
(* goes; its queue lives on until a worker finds that the handle is dead.  *)
(*                                                                         *)
(* Everything the other models take for granted about services rests on    *)
(* this: a service runs one message at a time, and none is forgotten.      *)
(*                                                                         *)
(* An action is what a thread does under one lock.  What a message says is *)
(* left out but for its source.  Services are known by their number, in    *)
(* the order of their launching; the handle of a service and how it is     *)
(* found under it are the matter of module HandleStorage.                  *)
(***************************************************************************)
EXTENDS Integers, Sequences, FiniteSets, MessageQueue, HandleStorage

CONSTANTS
  Workers,     \* the worker threads
  timer,       \* the timer thread
  socket,      \* the socket thread
  Weight,      \* of each worker: it takes len >> Weight messages in a turn,
               \* or one if that is negative
  MaxHandles,  \* bound: the number of services
  MaxSends     \* bound: the number of messages sent, error replies aside

Threads == Workers \cup {timer, socket}
Handles == 1 .. MaxHandles
Ids == 0 .. MaxHandles  \* 0 is no service, and the source of timer and socket

ASSUME SkynetAssumption ==
  /\ timer # socket /\ timer \notin Workers /\ socket \notin Workers
  /\ IsFiniteSet(Workers)
  /\ Weight \in [Workers -> Int]
  /\ MaxHandles \in 1 .. HANDLE_MASK + 1
  /\ MaxSends \in Nat

VARIABLES
  launched,    \* the services so far are 1 .. launched
  H,           \* the handle storage
  given,       \* the handle each service is given on registration
  handle,      \* the handle in each context, or 0 as long as it is not set
  registered,  \* history: the services given a handle and not retired
  ref,         \* the reference count of each context
  init,        \* the contexts whose init flag is set
  queue,       \* the ring of each queue: the sources of its messages
  in_global,   \* the in_global flag of each queue
  release,     \* the release flag of each queue
  freed,       \* the queues that are freed
  global,      \* the global queue
  quit,        \* m->quit
  sent,        \* the number of messages sent
  pc,          \* where each thread is
  q,           \* the queue a worker has in hand
  n,           \* the messages it may still take in this turn
  dst,         \* the context a thread pushes to, or must release
  new,         \* the service being launched, the queue being released, or the
               \* queue a worker goes on with
  back         \* where a thread goes on when it is done with dst or new

handles == <<H, given, handle, registered>>
storage == <<launched, handles, ref, init>>
queues == <<queue, in_global, release, freed, global>>
threads == <<pc, q, n, dst, new, back>>
vars == <<storage, queues, threads, quit, sent>>

-----------------------------------------------------------------------------
Total == Cardinality({h \in 1 .. launched : ref[h] > 0})

Asleep == {w \in Workers : pc[w] = "asleep"}

Goto(t, label) == pc' = [pc EXCEPT ![t] = label]

(* The context is found under its handle.                                   *)
Found(h) == handle[h] # 0 /\ skynet_handle_grab(H, handle, handle[h]) = h

(* A reference more on the context of h.                                    *)
Grab(h) == ref' = [ref EXCEPT ![h] = @ + 1]

(* Fault: the flag in_global is not looked at.                              *)
MarkRelease_Always(h) ==
  /\ release' = [release EXCEPT ![h] = TRUE]
  /\ global' = Append(global, h)

(* Fault: a queue that is not scheduled is not put in the global queue.     *)
MarkRelease_NoPush(h) ==
  /\ release' = [release EXCEPT ![h] = TRUE]
  /\ UNCHANGED global

MarkRelease(h) ==
  /\ release' = [release EXCEPT ![h] = TRUE]
  /\ global' = IF in_global[h] THEN global ELSE Append(global, h)

(* A reference less.  Who takes the last one deletes the context.           *)
Release(h) ==
  /\ ref' = [ref EXCEPT ![h] = @ - 1]
  /\ IF ref[h] = 1 THEN MarkRelease(h) ELSE UNCHANGED <<release, global>>

(* skynet_mq_push: a queue that is nowhere gets into the global queue.      *)
Push(h, source) ==
  /\ queue' = [queue EXCEPT ![h] = mq_push(@, source)]
  /\ in_global' = [in_global EXCEPT ![h] = TRUE]
  /\ global' = IF in_global[h] THEN global ELSE Append(global, h)

-----------------------------------------------------------------------------
(* A worker without a queue takes the first of the global queue, or goes to *)
(* sleep until it is woken.                                                 *)
GlobalPop(w) ==
  /\ pc[w] = "top" /\ q[w] = 0 /\ ~quit
  /\ IF global = <<>>
     THEN Goto(w, "empty") /\ UNCHANGED <<global, q>>
     ELSE /\ q' = [q EXCEPT ![w] = Head(global)]
          /\ global' = Tail(global)
          /\ UNCHANGED pc
  /\ UNCHANGED <<storage, queue, in_global, release, freed, n, dst, new, back,
                 quit, sent>>

(* Fault: quit is not looked at again under the mutex.                      *)
Sleep_NoCheck(w) ==
  /\ pc[w] = "empty"
  /\ Goto(w, "asleep")
  /\ UNCHANGED <<storage, queues, q, n, dst, new, back, quit, sent>>

(* Under the mutex: quit is looked at once more.                            *)
Sleep(w) ==
  /\ pc[w] = "empty"
  /\ Goto(w, IF quit THEN "top" ELSE "asleep")
  /\ UNCHANGED <<storage, queues, q, n, dst, new, back, quit, sent>>

Quit(w) ==
  /\ pc[w] = "top" /\ quit
  /\ Goto(w, "done")
  /\ UNCHANGED <<storage, queues, q, n, dst, new, back, quit, sent>>

(* A turn begins if the context is still there.                             *)
BeginTurn(w) ==
  /\ pc[w] = "top" /\ q[w] # 0 /\ ~quit
  /\ IF Found(q[w])
     THEN Grab(q[w]) /\ Goto(w, "first") /\ UNCHANGED <<q, new>>
     ELSE /\ Goto(w, "release")
          /\ q' = [q EXCEPT ![w] = 0]
          /\ new' = [new EXCEPT ![w] = q[w]]
          /\ UNCHANGED ref
  /\ UNCHANGED <<launched, handles, init, queues, n, dst, back, quit, sent>>

(* len >> Weight, less the message already taken.                           *)
More(w, len) ==
  IF Weight[w] < 0 \/ len = 0 THEN 0
  ELSE LET k == len \div (2 ^ Weight[w]) IN IF k = 0 THEN 0 ELSE k - 1

(* A queue found empty is left out of the global queue: in_global = 0.      *)
Empty(w) ==
  /\ pc[w] \in {"first", "more"} /\ IsEmpty(queue[q[w]])
  /\ in_global' = [in_global EXCEPT ![q[w]] = FALSE]
  /\ Goto(w, "turned")
  /\ n' = [n EXCEPT ![w] = 0]
  /\ UNCHANGED <<storage, queue, release, freed, global, q, dst, new, back,
                 quit, sent>>

(* The pop and the look at the length are under two locks in the code; only *)
(* the length of the worker's turn depends on what comes in between.        *)
Dispatch(w) ==
  /\ pc[w] \in {"first", "more"} /\ ~IsEmpty(queue[q[w]])
  /\ queue' = [queue EXCEPT ![q[w]] = mq_pop(@)]
  /\ n' = [n EXCEPT ![w] = IF pc[w] = "first"
                           THEN More(w, mq_length(queue[q[w]]) - 1) ELSE @ - 1]
  /\ Goto(w, "run")
  /\ UNCHANGED <<storage, in_global, release, freed, global, q, dst, new, back,
                 quit, sent>>

(* The callback returns.                                                    *)
Return(w) ==
  /\ pc[w] = "run"
  /\ Goto(w, IF n[w] > 0 THEN "more" ELSE "yield")
  /\ UNCHANGED <<storage, queues, q, n, dst, new, back, quit, sent>>

(* The worker goes on with the next queue if there is one, else with its    *)
(* own.                                                                     *)
Yield(w) ==
  /\ pc[w] = "yield"
  /\ IF global = <<>>
     THEN /\ new' = [new EXCEPT ![w] = q[w]]
          /\ Goto(w, "turned")
          /\ UNCHANGED global
     ELSE /\ new' = [new EXCEPT ![w] = Head(global)]
          /\ Goto(w, "requeue")
          /\ global' = Tail(global)
  /\ UNCHANGED <<storage, queue, in_global, release, freed, q, n, dst, back,
                 quit, sent>>

Requeue(w) ==
  /\ pc[w] = "requeue"
  /\ global' = Append(global, q[w])
  /\ Goto(w, "turned")
  /\ UNCHANGED <<storage, queue, in_global, release, freed, q, n, dst, new,
                 back, quit, sent>>

EndTurn(w) ==
  /\ pc[w] = "turned"
  /\ Release(q[w])
  /\ q' = [q EXCEPT ![w] = new[w]]
  /\ new' = [new EXCEPT ![w] = 0]
  /\ Goto(w, "top")
  /\ UNCHANGED <<launched, handles, init, queue, in_global, freed, n, dst,
                 back, quit, sent>>

-----------------------------------------------------------------------------
(* Sending: take a reference on the destination if it is there, push, give  *)
(* the reference back.  Timer and socket thread send from their loop, a     *)
(* worker for the callback it runs or for the service it launches; then,    *)
(* once a queue is dropped, to the sources of its messages.                 *)
Take(t, h, label, return) ==
  /\ dst' = [dst EXCEPT ![t] = h]
  /\ back' = [back EXCEPT ![t] = return]
  /\ Goto(t, label)

Sends(t) == pc[t] \in IF t \in Workers THEN {"run", "init"} ELSE {"top"}

(* Fault: no reference is taken for the push.                               *)
Send_NoGrab(t, h) ==
  /\ Sends(t) /\ sent < MaxSends /\ Found(h)
  /\ sent' = sent + 1
  /\ Take(t, h, "push", pc[t])
  /\ UNCHANGED <<storage, queues, q, n, new, quit>>

(* To a handle that is not there the message is freed, and skynet_send      *)
(* returns -1.                                                              *)
Send(t, h) ==
  /\ Sends(t) /\ sent < MaxSends /\ Found(h)
  /\ sent' = sent + 1
  /\ Grab(h)
  /\ Take(t, h, "push", pc[t])
  /\ UNCHANGED <<launched, handles, init, queues, q, n, new, quit>>

Source(t) ==
  IF back[t] = "run" THEN q[t]
  ELSE IF back[t] = "init" THEN new[t]
  ELSE 0

PushMessage(t) ==
  /\ pc[t] = "push"
  /\ Push(dst[t], IF back[t] = "drop" THEN new[t] ELSE Source(t))
  /\ Goto(t, "put")
  /\ UNCHANGED <<storage, release, freed, q, n, dst, new, back, quit, sent>>

Put(t) ==
  /\ pc[t] = "put"
  /\ Release(dst[t])
  /\ dst' = [dst EXCEPT ![t] = 0]
  /\ back' = [back EXCEPT ![t] = "top"]
  /\ Goto(t, back[t])
  /\ UNCHANGED <<launched, handles, init, queue, in_global, freed, q, n,
                 new, quit, sent>>

-----------------------------------------------------------------------------
(* KILL, EXIT and, service by service, ABORT, from a callback or from init: *)
(* the handle is retired, then the reference the storage had is given back. *)
Retire(t, h, return) ==
  /\ H' = skynet_handle_retire(H, handle, handle[h])
  /\ registered' = registered \ {h}
  /\ UNCHANGED <<given, handle>>
  /\ Take(t, h, "put", return)

Kill(w, h) ==
  /\ pc[w] \in {"run", "init"} /\ Found(h)
  /\ Retire(w, h, pc[w])
  /\ UNCHANGED <<launched, ref, init, queues, q, n, new, quit, sent>>

(* LAUNCH: a context without a handle, with two references, one for the     *)
(* storage and one for the launcher, gets into the storage.                 *)
Launch(w) ==
  /\ pc[w] = "run" /\ launched < MaxHandles
  /\ LET h == launched + 1
         registration == skynet_handle_register(H, handle, h)
     IN  /\ launched' = h
         /\ H' = registration.storage
         /\ given' = [given EXCEPT ![h] = registration.handle]
         /\ ref' = [ref EXCEPT ![h] = 2]
         /\ new' = [new EXCEPT ![w] = h]
  /\ Goto(w, "new")
  /\ UNCHANGED <<handle, registered, init, queues, q, n, dst, back, quit, sent>>

Assign(h) ==
  /\ handle' = [handle EXCEPT ![h] = given[h]]
  /\ registered' = registered \cup {h}

(* Fault: the queue of a new service does not count as being scheduled.     *)
Create_NotInGlobal(w) ==
  /\ pc[w] = "new"
  /\ Assign(new[w])
  /\ Goto(w, "init")
  /\ UNCHANGED <<launched, H, given, ref, init, queues, q, n, dst, new, back,
                 quit, sent>>

(* The context is given its handle, and a queue that counts as being in the *)
(* global queue, so that messages do not put it there before init is done.  *)
(* Nobody knows the handle yet, so that this and context_inc are one step.  *)
Create(w) ==
  /\ pc[w] = "new"
  /\ Assign(new[w])
  /\ in_global' = [in_global EXCEPT ![new[w]] = TRUE]
  /\ Goto(w, "init")
  /\ UNCHANGED <<launched, H, given, ref, init, queue, release, freed, global,
                 q, n, dst, new, back, quit, sent>>

(* Init has succeeded.  If the context is not gone with this reference, its *)
(* init flag is set; but from here on the launcher holds it no more.        *)
Launched(w) ==
  /\ pc[w] = "init"
  /\ Release(new[w])
  /\ Goto(w, IF ref[new[w]] = 1 THEN "start" ELSE "flag")
  /\ UNCHANGED <<launched, handles, init, queue, in_global, freed, q, n,
                 dst, new, back, quit, sent>>

Flag(w) ==
  /\ pc[w] = "flag"
  /\ init' = init \cup {new[w]}
  /\ Goto(w, "start")
  /\ UNCHANGED <<launched, handles, ref, queues, q, n, dst, new, back, quit,
                 sent>>

Start(w) ==
  /\ pc[w] = "start"
  /\ global' = Append(global, new[w])
  /\ new' = [new EXCEPT ![w] = 0]
  /\ Goto(w, "run")
  /\ UNCHANGED <<storage, queue, in_global, release, freed, q, n, dst, back,
                 quit, sent>>

(* Init has failed: three steps, in any of which others may still hold the  *)
(* context.                                                                 *)
LaunchFailed(w) ==
  /\ pc[w] = "init"
  /\ Release(new[w])
  /\ Goto(w, "failed")
  /\ UNCHANGED <<launched, handles, init, queue, in_global, freed, q, n,
                 dst, new, back, quit, sent>>

RetireFailed(w) ==
  /\ pc[w] = "failed"
  /\ IF Found(new[w])
     THEN Retire(w, new[w], "release")
     ELSE /\ Goto(w, "release")
          /\ UNCHANGED <<handles, dst, back>>
  /\ UNCHANGED <<launched, ref, init, queues, q, n, new, quit, sent>>

-----------------------------------------------------------------------------
(* Where a worker goes on once it is done with the queue of a dead service: *)
(* to the callback that launched it, if it has one in hand, or to the top.  *)
Resume(w) == Goto(w, IF q[w] = 0 THEN "top" ELSE "run")

(* skynet_mq_release: while the context is held by somebody, the queue goes *)
(* round the global queue.                                                  *)
ReleaseQueue(w) ==
  /\ pc[w] = "release"
  /\ IF release[new[w]]
     THEN Goto(w, "drop") /\ UNCHANGED <<global, new>>
     ELSE /\ global' = Append(global, new[w])
          /\ new' = [new EXCEPT ![w] = 0]
          /\ Resume(w)
  /\ UNCHANGED <<storage, queue, in_global, release, freed, q, n, dst, back,
                 quit, sent>>

(* The source of a message that is dropped is sent an error.                *)
Drop(w) ==
  /\ pc[w] = "drop" /\ ~IsEmpty(queue[new[w]])
  /\ LET source == mq_first(queue[new[w]])
     IN  IF source # 0 /\ Found(source)
         THEN Grab(source) /\ Take(w, source, "push", "drop")
         ELSE UNCHANGED <<ref, dst, back, pc>>
  /\ queue' = [queue EXCEPT ![new[w]] = mq_pop(@)]
  /\ UNCHANGED <<launched, handles, init, in_global, release, freed, global,
                 q, n, new, quit, sent>>

FreeQueue(w) ==
  /\ pc[w] = "drop" /\ IsEmpty(queue[new[w]])
  /\ in_global' = [in_global EXCEPT ![new[w]] = FALSE]
  /\ freed' = freed \cup {new[w]}
  /\ new' = [new EXCEPT ![w] = 0]
  /\ Resume(w)
  /\ UNCHANGED <<storage, queue, release, global, q, n, dst, back, quit, sent>>

-----------------------------------------------------------------------------
(* pthread_cond_signal wakes one of those that wait, if any.                *)
Signal ==
  IF Asleep = {} THEN UNCHANGED pc ELSE \E w \in Asleep : Goto(w, "top")

(* Fault: the timer thread wakes nobody.                                    *)
TimerTick_NoSignal ==
  /\ pc[timer] = "top" /\ ~quit
  /\ IF Total = 0
     THEN /\ quit' = TRUE
          /\ pc' = [t \in Threads |-> IF t = timer THEN "done"
                                      ELSE IF pc[t] = "asleep" THEN "top"
                                      ELSE pc[t]]
     ELSE UNCHANGED <<pc, quit>>
  /\ UNCHANGED <<storage, queues, q, n, dst, new, back, sent>>

(* The timer thread wakes a worker if one is asleep (busy = count - 1), or  *)
(* ends the node if no context is left.  A push by a worker wakes nobody:   *)
(* this does.                                                               *)
TimerTick ==
  /\ pc[timer] = "top" /\ ~quit
  /\ IF Total = 0
     THEN /\ quit' = TRUE
          /\ pc' = [t \in Threads |-> IF t = timer THEN "done"
                                      ELSE IF pc[t] = "asleep" THEN "top"
                                      ELSE pc[t]]
     ELSE Signal /\ UNCHANGED quit
  /\ UNCHANGED <<storage, queues, q, n, dst, new, back, sent>>

(* The socket thread wakes a worker only if all are asleep (busy = 0).      *)
SocketWakeup ==
  /\ pc[socket] = "top" /\ ~quit
  /\ Asleep = Workers
  /\ Signal
  /\ UNCHANGED <<storage, queues, q, n, dst, new, back, quit, sent>>

SocketExit ==
  /\ pc[socket] = "top" /\ quit
  /\ Goto(socket, "done")
  /\ UNCHANGED <<storage, queues, q, n, dst, new, back, quit, sent>>

-----------------------------------------------------------------------------
(* The node has started: the first service has just been launched, and has  *)
(* sent itself the message that snlua starts with.                          *)
Init ==
  /\ launched = 1
  /\ LET first == skynet_handle_register(NewStorage, [h \in Handles |-> 0], 1)
     IN  /\ H = first.storage
         /\ given = [h \in Handles |-> IF h = 1 THEN first.handle ELSE 0]
         /\ handle = given
  /\ registered = {1}
  /\ ref = [h \in Handles |-> IF h = 1 THEN 1 ELSE 0]
  /\ init = {1}
  /\ queue = [h \in Handles |-> IF h = 1 THEN mq_push(NewRing, 1) ELSE NewRing]
  /\ in_global = [h \in Handles |-> h = 1]
  /\ release = [h \in Handles |-> FALSE]
  /\ freed = {}
  /\ global = <<1>>
  /\ quit = FALSE
  /\ sent = 0
  /\ pc = [t \in Threads |-> "top"]
  /\ q = [t \in Threads |-> 0]
  /\ n = [t \in Threads |-> 0]
  /\ dst = [t \in Threads |-> 0]
  /\ new = [t \in Threads |-> 0]
  /\ back = [t \in Threads |-> "top"]

(* What a worker does of itself, and what its callback may do.              *)
Work(w) ==
  \/ GlobalPop(w) \/ Sleep(w) \/ Quit(w)
  \/ BeginTurn(w) \/ Empty(w) \/ Dispatch(w) \/ Return(w)
  \/ Yield(w) \/ Requeue(w) \/ EndTurn(w)
  \/ Create(w) \/ Launched(w) \/ Flag(w) \/ Start(w) \/ RetireFailed(w)
  \/ ReleaseQueue(w) \/ Drop(w) \/ FreeQueue(w)

Command(w) ==
  \/ \E h \in Handles : Kill(w, h)
  \/ Launch(w)
  \/ LaunchFailed(w)

Deliver(t) == PushMessage(t) \/ Put(t)

Next ==
  \/ \E w \in Workers : Work(w) \/ Command(w)
  \/ \E t \in Threads : Deliver(t) \/ \E h \in Handles : Send(t, h)
  \/ TimerTick \/ SocketWakeup \/ SocketExit

Spec == Init /\ [][Next]_vars

(* Threads are scheduled, and callbacks return.                             *)
Fairness ==
  /\ \A w \in Workers : WF_vars(Work(w) \/ Deliver(w))
  /\ WF_vars(TimerTick \/ Deliver(timer))
  /\ WF_vars(SocketExit \/ Deliver(socket))

FairSpec == Spec /\ Fairness

-----------------------------------------------------------------------------
Labels ==
  {"top", "empty", "asleep", "done", "first", "more", "run", "yield",
   "requeue", "turned", "push", "put", "new", "init", "flag", "start",
   "failed", "release", "drop"}

(* The types of the variables; part of Assertions below.                    *)
TypeOK ==
  /\ launched \in Handles
  /\ IsStorage(H, Handles)
  /\ {given, handle} \subseteq [Handles -> 0 .. HANDLE_MASK]
  /\ registered \subseteq 1 .. launched
  /\ ref \in [Handles -> Nat]
  /\ init \subseteq 1 .. launched
  /\ DOMAIN queue = Handles /\ \A h \in Handles : IsRing(queue[h], Ids)
  /\ in_global \in [Handles -> BOOLEAN]
  /\ release \in [Handles -> BOOLEAN]
  /\ freed \subseteq 1 .. launched
  /\ global \in Seq(Handles)
  /\ quit \in BOOLEAN
  /\ sent \in 0 .. MaxSends
  /\ pc \in [Threads -> Labels]
  /\ q \in [Threads -> Ids]
  /\ n \in [Threads -> Nat]
  /\ dst \in [Threads -> Ids]
  /\ new \in [Threads -> Ids]
  /\ back \in [Threads -> {"top", "run", "init", "drop", "release"}]

(* The threads that hold the context of h for a turn, to push to it or to   *)
(* release it, or because they are launching it.                            *)
Serving(h) == {t \in Threads : q[t] = h /\ pc[t] \notin {"top", "done"}}
Pushing(h) == {t \in Threads : dst[t] = h}
Launching(h) ==
  {t \in Threads : new[t] = h /\ {pc[t], back[t]} \cap {"new", "init"} # {}}

(* Every reference is held by somebody who will give it back, and by nobody *)
(* twice: skynet_context_release never frees a context in use and never     *)
(* keeps one for ever.                                                      *)
ReferencesCounted ==
  \A h \in 1 .. launched :
    ref[h] = (IF InStorage(H, h) THEN 1 ELSE 0)
             + Cardinality(Serving(h)) + Cardinality(Pushing(h))
             + Cardinality(Launching(h))

(* The thread that has queue h in hand, and will put it back or free it.    *)
InHand(t) ==
  ((IF pc[t] = "turned" THEN {} ELSE {q[t]})
   \cup (IF pc[t] = "new" THEN {} ELSE {new[t]})) \ {0}

Places(h) ==
  Cardinality({i \in DOMAIN global : global[i] = h})
  + Cardinality({t \in Threads : h \in InHand(t)})

(* "0 means mq is not in global mq.  1 means mq is in global mq, or the     *)
(* message is dispatching" (skynet_mq.c): exactly then the queue is in one  *)
(* place, be it the global queue or the hands of one thread, or its context *)
(* is gone and it awaits its end there.  A queue that is nowhere is empty:  *)
(* no message waits in a queue that no worker will ever look at.  And two   *)
(* workers never run the callback of one service at once, since both would  *)
(* have its queue in hand.                                                  *)
QueueInOnePlace ==
  \A h \in 1 .. launched :
    IF h \in freed THEN Places(h) = 0
    ELSE /\ Places(h) = IF in_global[h] \/ release[h] THEN 1 ELSE 0
         /\ Places(h) = 0 => IsEmpty(queue[h])

(* A service is found under its handle from the moment it has one until it  *)
(* is retired, whatever other services come and go, and however often the   *)
(* storage is doubled; and never again after that.                          *)
HandlesFound ==
  \A h \in 1 .. launched : Found(h) <=> h \in registered

(* The states are well-formed, and what the code asserts is true in them:   *)
(* assert(ctx->init) in dispatch_message, assert(q->release == 0) in        *)
(* skynet_mq_mark_release, and assert(new_slot[hash] == NULL) in            *)
(* skynet_handle_register.                                                  *)
Assertions ==
  /\ TypeOK
  /\ FreeSteps(H) = {} => NoCollision(H, handle)
  /\ \A w \in Workers : pc[w] \in {"run"} => q[w] \in init
  /\ \A h \in 1 .. launched : release[h] <=> ref[h] = 0

(* A queue is first in, first out, whatever the ring goes through: what it  *)
(* stands for changes by a message at its end or without its first.         *)
QueuesAreFifo ==
  [][\A h \in Handles :
       LET old == Contents(queue[h])
           now == Contents(queue'[h])
       IN  \/ now = old
           \/ old # <<>> /\ now = Tail(old)
           \/ \E source \in Ids : now = Append(old, source)]_vars

-----------------------------------------------------------------------------
(* Every message is taken from its queue, to be handled or, its service     *)
(* being dead, to be answered with an error: although nobody is woken for   *)
(* it but by the timer thread.                                              *)
EveryMessageTaken == \A h \in Handles : []<>(IsEmpty(queue[h]) \/ quit)

(* The queue of a dead service is freed, unless the node ends first.  (The  *)
(* release flag is never reset.)                                            *)
DeadQueueFreed == \A h \in Handles : []<>(release[h] => h \in freed \/ quit)

(* When no context is left, which is for good, all threads end: none sleeps *)
(* through it.                                                              *)
NodeEnds == []<>(Total = 0 => \A t \in Threads : pc[t] = "done")
=============================================================================
