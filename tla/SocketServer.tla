---------------------------- MODULE SocketServer -----------------------------
(***************************************************************************)
(* The socket server of a skynet node (skynet-src/socket_server.c) for TCP *)
(* sockets.  Services reserve a slot in their own threads and write        *)
(* requests to a pipe; the socket thread alone does the rest: it drains    *)
(* the pipe, then works off a batch of events, and reports to services.    *)
(*                                                                         *)
(* The kernel is left to choose: whether a connect or a write succeeds,    *)
(* how much a write takes, what peers do.  A write buffer list is the      *)
(* sequence of what is left to write, a package being PackageSize equal    *)
(* members.  A failed assert ends the process.  UDP, bind, socket options  *)
(* and the warnings about long buffers are left out.                       *)
(***************************************************************************)
EXTENDS Integers, Sequences, FiniteSets, SequencesExt

CONSTANTS
  Users,        \* the threads that run services
  MAX_SOCKET,   \* the number of slots (2^16)
  PackageSize,  \* the pieces a package may be written in
  MaxIds,       \* bound: the ids reserved
  MaxPackages,  \* bound: the packages sent
  MaxPipe       \* bound: the requests in the pipe

ASSUME SocketAssumption ==
  /\ MAX_SOCKET \in Nat \ {0}
  /\ PackageSize \in Nat \ {0}
  /\ {MaxIds, MaxPackages, MaxPipe} \subseteq Nat

Slots == 0 .. MAX_SOCKET - 1
SocketIds == 1 .. MaxIds

VARIABLES
  alloc_id,   \* the last id tried
  slot,       \* the sockets
  reserving,  \* of each user: the request it will send, its slot being taken
  known,      \* the ids the services know
  pipe,       \* the requests on their way
  checkctrl,  \* the pipe is to be looked at before the next event
  ev,         \* the events of the batch not worked off
  clearing,   \* the id whose event is still to be cleared, or 0
  aborted,    \* the assert that has failed, or "no"
  packages,   \* the number of packages sent
  wire,       \* history: what was written to each connection
  taken,      \* history: the packages taken for it
  cut,        \* history: the ids closed by an error, by the peer, or by a
              \* shutdown with something left to write
  told        \* history: what was reported of an id

serverVars == <<checkctrl, ev, clearing, aborted>>
userVars == <<alloc_id, reserving, known, packages>>
history == <<wire, taken, cut, told>>
vars == <<slot, pipe, serverVars, userVars, history>>

-----------------------------------------------------------------------------
Hash(id) == id % MAX_SOCKET

Free == [type |-> "INVALID", id |-> 0, high |-> <<>>, low |-> <<>>]

Buffered(s) == s.high \o s.low

Units(p) == [i \in 1 .. PackageSize |-> p]

Count(list, p) == Cardinality({i \in DOMAIN list : list[i] = p})

list_uncomplete(list) ==
  list # <<>> /\ Count(list, Head(list)) < PackageSize

(* The socket of an id, if the slot is still its own.                       *)
Has(id) == slot[Hash(id)].type # "INVALID" /\ slot[Hash(id)].id = id

Type(id) == slot[Hash(id)].type

Report(id, kind) == told' = [told EXCEPT ![id] = @ \cup {kind}]

Abort(where) ==
  /\ aborted' = where
  /\ UNCHANGED <<slot, history, clearing>>

(* force_close: the type a user's reserve_id waits for is the last thing    *)
(* written.                                                                 *)
ForceClose(n) ==
  slot' = [slot EXCEPT ![n] = [Free EXCEPT !.id = slot[n].id]]

(* What a closed socket leaves in the batch is cleared in a step of its     *)
(* own; meanwhile another thread may take the slot.                         *)
Closed(id, early) ==
  /\ ForceClose(Hash(id))
  /\ Report(id, "close")
  /\ cut' = IF early THEN cut \cup {id} ELSE cut
  /\ UNCHANGED aborted

(* Fault: the rest of a package of the low list is lost.                    *)
AfterWrite_RestLost(s, k) ==
  IF k < Len(s.high) THEN [s EXCEPT !.high = SubSeq(@, k + 1, Len(@))]
  ELSE LET low == SubSeq(s.low, k - Len(s.high) + 1, Len(s.low))
           part == IF list_uncomplete(low) THEN Count(low, Head(low)) ELSE 0
       IN  [s EXCEPT !.high = <<>>, !.low = SubSeq(low, part + 1, Len(low))]

(* The first k pieces are written, the rest stays.  The lists are gone      *)
(* through in order; a package of the low list written in part goes to the  *)
(* high one.                                                                *)
AfterWrite(s, k) ==
  IF k < Len(s.high) THEN [s EXCEPT !.high = SubSeq(@, k + 1, Len(@))]
  ELSE LET low == SubSeq(s.low, k - Len(s.high) + 1, Len(s.low))
           part == IF list_uncomplete(low) THEN Count(low, Head(low)) ELSE 0
       IN  [s EXCEPT !.high = SubSeq(low, 1, part),
                     !.low = SubSeq(low, part + 1, Len(low))]

Written(s, k) ==
  wire' = [wire EXCEPT ![s.id] = @ \o SubSeq(Buffered(s), 1, k)]

(* assert(send_buffer_empty(s) && s->wb_size == 0) in send_buffer fails:    *)
(* the write stops between two packages of the low list.                    *)
Blocked(s, k) ==
  LET t == AfterWrite(s, k)
  IN  k >= Len(s.high) /\ t.high = <<>> /\ t.low # <<>>

-----------------------------------------------------------------------------
(* reserve_id: up to MAX_SOCKET ids are tried.  Taking the slot and writing *)
(* the id to it are two steps.                                              *)
NextIds == {id \in alloc_id + 1 .. alloc_id + MAX_SOCKET : id <= MaxIds}

Takes(id) ==
  /\ slot[Hash(id)].type = "INVALID"
  /\ \A i \in NextIds : i < id => slot[Hash(i)].type # "INVALID"

Reserve(u, cmd) ==
  /\ reserving[u] = <<>>
  /\ \E id \in NextIds :
       /\ Takes(id)
       /\ alloc_id' = id
       /\ slot' = [slot EXCEPT ![Hash(id)].type = "RESERVE"]
       /\ reserving' = [reserving EXCEPT ![u] = <<[cmd |-> cmd, id |-> id]>>]
  /\ UNCHANGED <<pipe, serverVars, known, packages, history>>

(* connect ("O") and listen ("L"): the id is written, the request sent, and *)
(* the id given to the service.                                             *)
Request(u) ==
  /\ reserving[u] # <<>> /\ Len(pipe) < MaxPipe
  /\ LET m == Head(reserving[u])
     IN  /\ slot' = [slot EXCEPT ![Hash(m.id)].id = m.id]
         /\ pipe' = Append(pipe, m)
         /\ known' = known \cup {m.id}
  /\ reserving' = [reserving EXCEPT ![u] = <<>>]
  /\ UNCHANGED <<serverVars, alloc_id, packages, history>>

(* send ("D") and lwrite ("P") of a service that has found the socket to be *)
(* there; by now it may be gone.                                            *)
SendPackage(id, low) ==
  /\ packages < MaxPackages /\ Len(pipe) < MaxPipe
  /\ packages' = packages + 1
  /\ pipe' = Append(pipe, [cmd |-> IF low THEN "P" ELSE "D", id |-> id,
                           p |-> [no |-> packages + 1, low |-> low, to |-> id]])
  /\ UNCHANGED <<slot, serverVars, alloc_id, reserving, known, history>>

(* start ("S"), close ("K") and shutdown ("K").                             *)
Ask(m) ==
  /\ Len(pipe) < MaxPipe
  /\ pipe' = Append(pipe, m)
  /\ UNCHANGED <<slot, serverVars, alloc_id, reserving, known, packages,
                 history>>

Start(id) == Ask([cmd |-> "S", id |-> id])

Close(id, shutdown) == Ask([cmd |-> "K", id |-> id, shutdown |-> shutdown])

User ==
  /\ aborted = "no"
  /\ \/ \E u \in Users : Reserve(u, "O") \/ Reserve(u, "L") \/ Request(u)
     \/ \E id \in known :
          \/ \E low \in BOOLEAN : SendPackage(id, low)
          \/ Start(id)
          \/ \E shutdown \in BOOLEAN : Close(id, shutdown)

-----------------------------------------------------------------------------
(* Fault: a socket with something left to write is not marked.              *)
Flush_NotMarked(s, k, closing, shutdown, clear) ==
  LET t == AfterWrite(s, k)
      empty == Buffered(t) = <<>>
  IN  IF Blocked(s, k) THEN Abort("send_buffer")
      ELSE /\ Written(s, k)
           /\ IF closing /\ (empty \/ shutdown)
              THEN Closed(s.id, ~empty) /\ clearing' = clear
              ELSE /\ slot' = [slot EXCEPT ![Hash(s.id)] = t]
                   /\ clearing' = 0
                   /\ UNCHANGED <<aborted, told, cut>>
           /\ UNCHANGED taken

(* What send_buffer does once it has written k pieces.  A half closed       *)
(* socket is closed when nothing is left; one being closed, too, and at     *)
(* once if it is a shutdown.                                                *)
Flush(s, k, closing, shutdown, clear) ==
  LET t == AfterWrite(s, k)
      empty == Buffered(t) = <<>>
  IN  IF Blocked(s, k) THEN Abort("send_buffer")
      ELSE /\ Written(s, k)
           /\ IF closing /\ (empty \/ shutdown)
              THEN Closed(s.id, ~empty) /\ clearing' = clear
              ELSE /\ slot' = [slot EXCEPT ![Hash(s.id)] =
                                 [t EXCEPT !.type = IF closing THEN "HALFCLOSE"
                                                    ELSE @]]
                   /\ clearing' = 0
                   /\ UNCHANGED <<aborted, told, cut>>
           /\ UNCHANGED taken

(* A write, or a read, has failed: the socket is closed at once.            *)
Fails(id) ==
  /\ Closed(id, TRUE)
  /\ clearing' = id
  /\ UNCHANGED <<wire, taken>>

Nothing == clearing' = 0 /\ UNCHANGED <<slot, aborted, history>>

ReportOnly(id, kind) ==
  /\ Report(id, kind)
  /\ clearing' = IF kind = "close" THEN id ELSE 0
  /\ UNCHANGED <<aborted, wire, taken, cut>>

Becomes(id, type) ==
  /\ slot' = [slot EXCEPT ![Hash(id)].type = type]
  /\ clearing' = 0
  /\ UNCHANGED <<aborted, wire, taken, cut>>

(* open_socket, with new_fd.  A failure only marks the slot free.           *)
open_socket(m) ==
  \/ /\ slot' = [slot EXCEPT ![Hash(m.id)].type = "INVALID"]
     /\ ReportOnly(m.id, "close")
  \/ /\ Buffered(slot[Hash(m.id)]) # <<>>
     /\ Abort("new_fd")
  \/ /\ Buffered(slot[Hash(m.id)]) = <<>>
     /\ \/ Becomes(m.id, "CONNECTED") /\ Report(m.id, "open")
        \/ Becomes(m.id, "CONNECTING") /\ UNCHANGED told

listen_socket(m) ==
  IF Buffered(slot[Hash(m.id)]) # <<>> THEN Abort("new_fd")
  ELSE Becomes(m.id, "PLISTEN") /\ UNCHANGED told

start_socket(m) ==
  LET type == Type(m.id)
  IN  IF ~Has(m.id) THEN ReportOnly(m.id, "close") /\ UNCHANGED slot
      ELSE \/ /\ type \in {"PACCEPT", "PLISTEN"}
              /\ \/ Fails(m.id)
                 \/ /\ Becomes(m.id, IF type = "PACCEPT" THEN "CONNECTED"
                                     ELSE "LISTEN")
                    /\ Report(m.id, "open")
           \/ /\ type = "CONNECTED"
              /\ ReportOnly(m.id, "open") /\ UNCHANGED slot
           \/ type \notin {"PACCEPT", "PLISTEN", "CONNECTED"} /\ Nothing

(* Fault: what is left to write is thrown away.                             *)
close_socket_AtOnce(m) ==
  LET s == slot[Hash(m.id)]
  IN  IF ~Has(m.id) THEN ReportOnly(m.id, "close") /\ UNCHANGED slot
      ELSE IF s.type = "RESERVE" THEN Abort("force_close")
      ELSE /\ Closed(m.id, FALSE)
           /\ clearing' = m.id
           /\ UNCHANGED <<wire, taken>>

(* assert(s->type != SOCKET_TYPE_RESERVE) in force_close: the slot has been *)
(* taken by reserve_id, and the new id is not yet written.                  *)
close_socket(m) ==
  LET s == slot[Hash(m.id)]
  IN  IF ~Has(m.id) THEN ReportOnly(m.id, "close") /\ UNCHANGED slot
      ELSE IF s.type = "RESERVE" THEN Abort("force_close")
      ELSE \/ Buffered(s) # <<>> /\ Fails(m.id)
           \/ \E k \in 0 .. Len(Buffered(s)) : Flush(s, k, TRUE, m.shutdown, m.id)

(* A package for a closed id may get into a slot that another thread has    *)
(* just taken: it does not count.                                           *)
Take(id, p) ==
  taken' = IF Type(id) = "RESERVE" THEN taken
           ELSE [taken EXCEPT ![id] = @ \cup {p}]

AppendTo(id, high, low) ==
  slot' = [slot EXCEPT ![Hash(id)].high = @ \o high, ![Hash(id)].low = @ \o low]

(* Fault: a connection takes packages before it is started.                 *)
Refused_NotAccepted(id) ==
  ~Has(id) \/ Type(id) \in {"HALFCLOSE", "PLISTEN", "LISTEN"}

(* Fault: the slot is written to whoever has it now.                        *)
Refused_AnyId(id) ==
  Type(id) \in {"INVALID", "HALFCLOSE", "PACCEPT", "PLISTEN", "LISTEN"}

Refused(id) ==
  ~Has(id) \/ Type(id) \in {"HALFCLOSE", "PACCEPT", "PLISTEN", "LISTEN"}

(* Fault: a package is written at once whatever is waiting.                 *)
send_socket_NotEmpty(m) ==
  LET s == slot[Hash(m.id)]
      all == Units(m.p)
  IN  IF Refused(m.id) THEN Nothing
      ELSE IF s.type = "CONNECTED"
      THEN \/ Fails(m.id)
           \/ \E k \in 0 .. PackageSize :
                /\ wire' = [wire EXCEPT ![s.id] = @ \o SubSeq(all, 1, k)]
                /\ AppendTo(m.id, SubSeq(all, k + 1, PackageSize), <<>>)
                /\ Take(m.id, m.p)
                /\ clearing' = 0
                /\ UNCHANGED <<aborted, cut, told>>
      ELSE /\ AppendTo(m.id, IF m.p.low THEN <<>> ELSE all,
                       IF m.p.low THEN all ELSE <<>>)
           /\ Take(m.id, m.p)
           /\ clearing' = 0
           /\ UNCHANGED <<aborted, wire, cut, told>>

(* With nothing waiting, a package is written at once, and its rest is the  *)
(* high list whatever its priority.                                         *)
send_socket(m) ==
  LET s == slot[Hash(m.id)]
      all == Units(m.p)
  IN  IF Refused(m.id) THEN Nothing
      ELSE IF Buffered(s) = <<>> /\ s.type = "CONNECTED"
      THEN \/ Fails(m.id)
           \/ \E k \in 0 .. PackageSize :
                /\ wire' = [wire EXCEPT ![s.id] = @ \o SubSeq(all, 1, k)]
                /\ AppendTo(m.id, SubSeq(all, k + 1, PackageSize), <<>>)
                /\ Take(m.id, m.p)
                /\ clearing' = 0
                /\ UNCHANGED <<aborted, cut, told>>
      ELSE /\ AppendTo(m.id, IF m.p.low THEN <<>> ELSE all,
                       IF m.p.low THEN all ELSE <<>>)
           /\ Take(m.id, m.p)
           /\ clearing' = 0
           /\ UNCHANGED <<aborted, wire, cut, told>>

Serve(m) ==
  CASE m.cmd = "O" -> open_socket(m)
    [] m.cmd = "L" -> listen_socket(m)
    [] m.cmd = "S" -> start_socket(m)
    [] m.cmd = "K" -> close_socket(m)
    [] m.cmd \in {"D", "P"} -> send_socket(m)

Thread == aborted = "no" /\ clearing = 0

ctrl_cmd ==
  /\ Thread /\ checkctrl /\ pipe # <<>>
  /\ Serve(Head(pipe))
  /\ pipe' = Tail(pipe)
  /\ UNCHANGED <<checkctrl, ev, userVars>>

NoCommand ==
  /\ Thread /\ checkctrl /\ pipe = <<>>
  /\ checkctrl' = FALSE
  /\ UNCHANGED <<slot, pipe, ev, clearing, aborted, userVars, history>>

(* Fault: a slot that was closed keeps its event.                           *)
clear_closed_event_Kept ==
  /\ aborted = "no" /\ clearing # 0
  /\ clearing' = 0
  /\ UNCHANGED <<slot, pipe, checkctrl, ev, aborted, userVars, history>>

clear_closed_event ==
  /\ aborted = "no" /\ clearing # 0
  /\ ev' = {e \in ev : ~(/\ slot[e.s].type = "INVALID"
                         /\ slot[e.s].id = clearing)}
  /\ clearing' = 0
  /\ UNCHANGED <<slot, pipe, checkctrl, aborted, userVars, history>>

-----------------------------------------------------------------------------
(* The events there can be for the sockets in the event pool.               *)
Ready ==
  {[s |-> n, read |-> r, write |-> w] :
     n \in {i \in Slots : slot[i].type \in {"LISTEN", "CONNECTING", "CONNECTED",
                                            "HALFCLOSE"}},
     r \in BOOLEAN, w \in BOOLEAN}

Possible(e) ==
  LET s == slot[e.s]
  IN  /\ e.read \/ e.write
      /\ s.type = "LISTEN" => ~e.write
      /\ s.type = "CONNECTING" => ~e.read
      /\ e.write => s.type = "CONNECTING" \/ Buffered(s) # <<>>

Batches ==
  {b \in SUBSET {e \in Ready : Possible(e)} :
     \A e, f \in b : e.s = f.s => e = f}

(* sp_wait returns when there are events, or when the pipe can be read.     *)
(* The code handles the first event of a batch before it looks at the pipe  *)
(* again; here that is a batch of this event alone, the other events and    *)
(* the requests coming after it.                                            *)
Wait(b) ==
  /\ Thread /\ ~checkctrl /\ ev = {}
  /\ b # {} \/ pipe # <<>>
  /\ ev' = b
  /\ checkctrl' = TRUE
  /\ UNCHANGED <<slot, pipe, clearing, aborted, userVars, history>>

(* An event that closes its socket leaves none of it in the batch.          *)
Consume(e) == ev' = ev \ {e}

report_connect(e) ==
  LET id == slot[e.s].id
  IN  /\ Consume(e)
      /\ \/ Closed(id, TRUE)
         \/ /\ slot' = [slot EXCEPT ![e.s].type = "CONNECTED"]
            /\ Report(id, "open")
            /\ UNCHANGED <<aborted, cut>>
      /\ UNCHANGED <<alloc_id, known, wire, taken>>

(* accept fails, or finds no free slot, or the connection gets a slot, in   *)
(* which new_fd allows no buffers: a failed open_socket may have left some. *)
(* The report that accept has met the limit of files, which closes nothing, *)
(* is left out.                                                             *)
report_accept(e) ==
  /\ Consume(e)
  /\ UNCHANGED <<wire, taken, cut, told>>
  /\ \/ UNCHANGED <<slot, aborted, alloc_id, known>>
     \/ \E id \in NextIds :
          /\ Takes(id)
          /\ IF Buffered(slot[Hash(id)]) # <<>>
             THEN aborted' = "new_fd" /\ UNCHANGED <<slot, alloc_id, known>>
             ELSE /\ alloc_id' = id
                  /\ known' = known \cup {id}
                  /\ slot' = [slot EXCEPT ![Hash(id)] =
                                [Free EXCEPT !.type = "PACCEPT", !.id = id]]
                  /\ UNCHANGED aborted

(* After a read that closes nothing comes the write of the same event.      *)
AfterRead(e) ==
  ev' = (ev \ {e}) \cup (IF e.write THEN {[e EXCEPT !.read = FALSE]} ELSE {})

forward_message_tcp(e) ==
  LET s == slot[e.s]
  IN  /\ UNCHANGED <<alloc_id, known, wire, taken>>
      /\ IF s.type = "RESERVE"
         THEN /\ aborted' = "force_close"
              /\ Consume(e)
              /\ UNCHANGED <<slot, told, cut>>
         ELSE \/ Closed(s.id, TRUE) /\ Consume(e)
              \/ /\ \/ UNCHANGED told
                    \/ /\ s.type \in {"CONNECTED", "PACCEPT"}
                       /\ Report(s.id, "data")
                 /\ AfterRead(e)
                 /\ UNCHANGED <<slot, aborted, cut>>

WriteEvent(e) ==
  LET s == slot[e.s]
  IN  /\ Consume(e)
      /\ UNCHANGED <<alloc_id, known>>
      /\ IF s.type \notin {"CONNECTED", "HALFCLOSE"} \/ Buffered(s) = <<>>
         THEN UNCHANGED <<slot, aborted, history>>
         ELSE \/ Closed(s.id, TRUE) /\ UNCHANGED <<wire, taken>>
              \/ \E k \in 1 .. Len(Buffered(s)) :
                   Flush(s, k, s.type = "HALFCLOSE", FALSE, 0)

Event(e) ==
  /\ Thread /\ ~checkctrl
  /\ CASE slot[e.s].type = "CONNECTING" -> report_connect(e)
       [] slot[e.s].type = "LISTEN" -> report_accept(e)
       [] slot[e.s].type = "INVALID" ->
            Consume(e) /\ UNCHANGED <<slot, aborted, alloc_id, known, history>>
       [] OTHER -> IF e.read THEN forward_message_tcp(e) ELSE WriteEvent(e)
  /\ clearing' = 0
  /\ UNCHANGED <<pipe, checkctrl, reserving, packages>>

-----------------------------------------------------------------------------
Init ==
  /\ alloc_id = 0
  /\ slot = [n \in Slots |-> Free]
  /\ reserving = [u \in Users |-> <<>>]
  /\ known = {}
  /\ pipe = <<>>
  /\ checkctrl = TRUE
  /\ ev = {}
  /\ clearing = 0
  /\ aborted = "no"
  /\ packages = 0
  /\ wire = [id \in SocketIds |-> <<>>]
  /\ taken = [id \in SocketIds |-> {}]
  /\ cut = {}
  /\ told = [id \in SocketIds |-> {}]

SocketThread ==
  \/ ctrl_cmd \/ NoCommand \/ clear_closed_event
  \/ \E b \in Batches : Wait(b)
  \/ \E e \in ev : Event(e)

Next == User \/ SocketThread

Spec == Init /\ [][Next]_vars

(* The socket thread runs, and services do not keep the pipe filled for     *)
(* ever: they fall silent.  A socket that stays writable is found so by     *)
(* sp_wait, which the peer must see to by reading.                          *)
Fairness ==
  /\ <>[][SocketThread]_vars
  /\ WF_vars(SocketThread)
  /\ \A n \in Slots :
       SF_vars(\E b \in Batches : /\ Wait(b)
                                  /\ \E e \in b : e.s = n /\ e.write)

FairSpec == Spec /\ Fairness

-----------------------------------------------------------------------------
Requests ==
  [cmd : {"O", "L", "S"}, id : SocketIds]
  \cup [cmd : {"K"}, id : SocketIds, shutdown : BOOLEAN]
  \cup [cmd : {"D", "P"}, id : SocketIds,
        p : [no : 1 .. MaxPackages, low : BOOLEAN, to : SocketIds]]

Packages == [no : 1 .. MaxPackages, low : BOOLEAN, to : SocketIds]

(* The states are well-formed.                                              *)
TypeOK ==
  /\ alloc_id \in 0 .. MaxIds
  /\ \A n \in Slots :
       /\ slot[n].type \in {"INVALID", "RESERVE", "PLISTEN", "LISTEN",
                            "CONNECTING", "CONNECTED", "HALFCLOSE", "PACCEPT"}
       /\ slot[n].id \in 0 .. MaxIds
       /\ {slot[n].high, slot[n].low} \subseteq Seq(Packages)
       /\ slot[n].type \notin {"INVALID", "RESERVE"} => Hash(slot[n].id) = n
       /\ slot[n].type \in {"PLISTEN", "LISTEN", "PACCEPT"}
            => Buffered(slot[n]) = <<>>
  /\ \A u \in Users : reserving[u] \in Seq(Requests) /\ Len(reserving[u]) <= 1
  /\ known \subseteq SocketIds
  /\ pipe \in Seq(Requests) /\ Len(pipe) <= MaxPipe
  /\ checkctrl \in BOOLEAN
  /\ ev \subseteq [s : Slots, read : BOOLEAN, write : BOOLEAN]
  /\ clearing \in 0 .. MaxIds
  /\ aborted \in {"no", "send_buffer", "force_close", "new_fd"}
  /\ packages \in 0 .. MaxPackages
  /\ DOMAIN wire = SocketIds /\ DOMAIN taken = SocketIds
  /\ cut \subseteq SocketIds
  /\ told \in [SocketIds -> SUBSET {"open", "data", "close"}]

(* The pieces of each package in list follow each other without a gap, and  *)
(* every package but the last one is whole.                                 *)
Gapless(list) ==
  \A i \in 1 .. Len(list) - 1 :
    list[i] # list[i + 1] => Count(SubSeq(list, 1, i), list[i]) = PackageSize

(* Pieces of one priority are on the connection in the order of their       *)
(* packages.                                                                *)
PackagesInOrder(id) ==
  \A i, j \in DOMAIN wire[id] :
    i < j /\ wire[id][i].low = wire[id][j].low
      => wire[id][i].no <= wire[id][j].no

(* "If low list head is uncomplete (send a part before), move the head of   *)
(* low list to empty high list": what is written to a connection, followed  *)
(* by its high list, is made of whole packages, and so is its low list.  No *)
(* package of either priority is cut in two by another, which the frames of *)
(* the protocol above would not survive.  And packages of one priority are  *)
(* written in the order in which they were sent, although some of them are  *)
(* written at once and some are buffered.                                   *)
PackagesWhole ==
  /\ \A id \in SocketIds :
       IF Has(id) /\ Type(id) # "RESERVE"
       THEN LET s == slot[Hash(id)]
            IN  /\ Gapless(wire[id] \o s.high)
                /\ \A p \in taken[id] :
                     Count(wire[id] \o s.high, p) \in {0, PackageSize}
                /\ Gapless(s.low) /\ ~list_uncomplete(s.low)
       ELSE Gapless(wire[id])
  /\ \A id \in SocketIds : PackagesInOrder(id)

(* A socket that is closed by a service, and by nothing else, has had all   *)
(* its packages written: a close waits for the buffers.                     *)
NothingLostByClose ==
  \A id \in SocketIds :
    "close" \in told[id] /\ id \notin cut
      => \A p \in taken[id] : Count(wire[id], p) = PackageSize

(* What a service sends to an id never reaches a connection that has got    *)
(* the slot of that id since.                                               *)
StaleIdHarmless ==
  \A id \in SocketIds : \A i \in DOMAIN wire[id] : wire[id][i].to = id

(* No service gets data of a socket before it knows the socket to be open,  *)
(* be it for an event that was meant for the one before it in its slot.     *)
DataAfterOpen == \A id \in SocketIds : "data" \in told[id] => "open" \in told[id]

(* The assertion on empty buffers in send_buffer:                           *)
(* "If two lists are both empty, turn off the event" is its step 4.         *)
BuffersEmpty == aborted # "send_buffer"

(* A service that closes a socket is told of the end, unless the process    *)
(* aborts, for as long as the peer reads.                                   *)
CloseAnswered ==
  \A id \in SocketIds :
    (\E i \in DOMAIN pipe : pipe[i].cmd = "K" /\ pipe[i].id = id)
      ~> "close" \in told[id] \/ aborted # "no"
=============================================================================
