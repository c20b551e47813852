----------------------------- MODULE SocketProofs -----------------------------
(***************************************************************************)
(* The socket server, for any number of slots, ids, users and packages:    *)
(* nothing meant for a former owner of a slot reaches the present one, the *)
(* stream of a connection is made of whole packages in order, and complete *)
(* when it is closed.                                                      *)
(*                                                                         *)
(* The invariant has three parts.  Slots: an id that is not in use is in   *)
(* the hands of one service or one request, or nowhere, and so no request  *)
(* finds the slot of another id.  Events: what the socket thread still has *)
(* to tell of a socket, and has not cleared, is of one in use.  Streams:   *)
(* the packages on the wire of a socket, in its write lists and in the     *)
(* pipe are those that were sent to it, in this order and once each.       *)
(***************************************************************************)
EXTENDS SocketServer, SequenceTheorems, FiniteSetTheorems, TLAPS

(* Types.  A service reserves a slot for a connect or a listen.             *)
SocketTypes == {"INVALID", "RESERVE", "PLISTEN", "LISTEN", "CONNECTING",
                "CONNECTED", "HALFCLOSE", "PACCEPT"}

Sockets == [type : SocketTypes, id : 0 .. MaxIds,
            high : Seq(Packages), low : Seq(Packages)]

Reservations == [cmd : {"O", "L"}, id : SocketIds]

Types ==
  /\ alloc_id \in 0 .. MaxIds
  /\ slot \in [Slots -> Sockets]
  /\ reserving \in [Users -> Seq(Reservations)]
  /\ known \subseteq 1 .. alloc_id
  /\ pipe \in Seq(Requests)
  /\ checkctrl \in BOOLEAN
  /\ ev \subseteq [s : Slots, read : BOOLEAN, write : BOOLEAN]
  /\ clearing \in 0 .. MaxIds
  /\ aborted \in {"no", "send_buffer", "force_close", "new_fd"}
  /\ packages \in 0 .. MaxPackages
  /\ wire \in [SocketIds -> Seq(Packages)]
  /\ taken \in [SocketIds -> SUBSET Packages]
  /\ cut \subseteq SocketIds
  /\ told \in [SocketIds -> SUBSET {"open", "data", "close"}]

Limits ==
  /\ Len(pipe) <= MaxPipe
  /\ \A u \in Users : Len(reserving[u]) <= 1

-----------------------------------------------------------------------------
(* Slots.                                                                   *)
InUse(n) == slot[n].type \notin {"INVALID", "RESERVE"}

Live(id) == InUse(Hash(id)) /\ slot[Hash(id)].id = id

(* A slot that is in use is that of its id, and listens with empty buffers. *)
UsedByItsId ==
  \A n \in Slots :
    InUse(n) =>
      /\ slot[n].id \in known /\ Hash(slot[n].id) = n
      /\ slot[n].type \in {"PLISTEN", "LISTEN", "PACCEPT"}
           => slot[n].high = <<>> /\ slot[n].low = <<>>

(* What is reserved is still to be asked for by one service, or in the pipe *)
(* once.                                                                    *)
Reserving(u, id) == reserving[u] # <<>> /\ Head(reserving[u]).id = id

Opens(i, id) ==
  i \in DOMAIN pipe /\ pipe[i].cmd \in {"O", "L"} /\ pipe[i].id = id

ReservedOnce ==
  \A id, d \in SocketIds : Hash(id) = Hash(d) =>
    /\ \A u, v \in Users : Reserving(u, id) /\ Reserving(v, d) => u = v
    /\ \A u \in Users, i \in Nat : ~(Reserving(u, id) /\ Opens(i, d))
    /\ \A i, j \in Nat : Opens(i, id) /\ Opens(j, d) => i = j

ReservedSlots ==
  \A id \in SocketIds :
    /\ \A u \in Users : Reserving(u, id) =>
         /\ slot[Hash(id)].type = "RESERVE"
         /\ id <= alloc_id /\ id \notin known
    /\ \A i \in Nat : Opens(i, id) =>
         slot[Hash(id)].type = "RESERVE" /\ slot[Hash(id)].id = id

(* The first request for an id is the one that opens it.                    *)
OpensFirst ==
  /\ \A i \in DOMAIN pipe : pipe[i].id \in known
  /\ \A i, j \in DOMAIN pipe : Opens(i, pipe[j].id) => i <= j

SlotsInv == UsedByItsId /\ ReservedOnce /\ ReservedSlots /\ OpensFirst

-----------------------------------------------------------------------------
(* Events: none is left for a free slot, nor for one that a connection got  *)
(* that is not started, when the socket thread works off the batch.         *)
OneEventEach == \A e, f \in ev : e.s = f.s => e = f

EventsLeft ==
  \A e \in ev :
    /\ slot[e.s].type = "INVALID" => clearing # 0 /\ slot[e.s].id = clearing
    /\ slot[e.s].type # "PACCEPT"

ConnectedIsOpen ==
  \A id \in SocketIds : Live(id) /\ Type(id) = "CONNECTED" => "open" \in told[id]

EventsInv == OneEventEach /\ EventsLeft /\ ConnectedIsOpen /\ DataAfterOpen

-----------------------------------------------------------------------------
(* Streams.  A package takes up PackageSize places in a row, the last one   *)
(* of a stream that has been cut at least some of them.                     *)
Placed(list, i, a) ==
  /\ a < i /\ i <= a + PackageSize
  /\ \A j \in DOMAIN list : list[j] = list[i] <=> a < j /\ j <= a + PackageSize

Rows(list) == \A i \in DOMAIN list : \E a \in Nat : Placed(list, i, a)

WholeRows(list) ==
  \A i \in DOMAIN list : \E a \in Nat :
    Placed(list, i, a) /\ a + PackageSize <= Len(list)

InOrder(list) ==
  \A i, j \in DOMAIN list :
    i < j /\ list[i].low = list[j].low => list[i].no <= list[j].no

(* What has been written to a connection, and what is left of it to write   *)
(* before its low list.                                                     *)
Stream(id) == wire[id] \o slot[Hash(id)].high

LowList(id) == slot[Hash(id)].low

WholeStream(w, low, ps) ==
  /\ WholeRows(w) /\ WholeRows(low)
  /\ Range(w) \cap Range(low) = {}
  /\ Range(w) \cup Range(low) = ps
  /\ InOrder(w) /\ InOrder(low)
  /\ \A q \in Range(low) : q.low /\ \A p \in Range(w) : p.low => p.no <= q.no

(* A connection that has ended lacks nothing unless it was cut.             *)
EndedStream(w, ps, isCut) ==
  /\ Rows(w) /\ InOrder(w)
  /\ Range(w) \subseteq ps
  /\ ~isCut => WholeRows(w) /\ Range(w) = ps

(* Nothing has happened to an id that is not open yet.                      *)
Unborn(id) == id \notin known \/ \E i \in Nat : Opens(i, id)

StreamInv(id) ==
  /\ Live(id) => /\ WholeStream(Stream(id), LowList(id), taken[id])
                 /\ "close" \notin told[id]
  /\ ~Live(id) => EndedStream(wire[id], taken[id], id \in cut)
  /\ Unborn(id) => wire[id] = <<>> /\ taken[id] = {} /\ told[id] = {}

(* Packages are numbered as they are sent.                                  *)
Sends(i) == i \in DOMAIN pipe /\ pipe[i].cmd \in {"D", "P"}

Numbered ==
  /\ \A i \in Nat : Sends(i) =>
       /\ pipe[i].p.to = pipe[i].id /\ pipe[i].p.no <= packages
       /\ \A j \in Nat : Sends(j) /\ i < j => pipe[i].p.no < pipe[j].p.no
       /\ \A id \in SocketIds : \A p \in taken[id] : p.no < pipe[i].p.no
  /\ \A id \in SocketIds : \A p \in taken[id] : p.to = id /\ p.no <= packages

StreamsInv == Numbered /\ \A id \in SocketIds : StreamInv(id)

-----------------------------------------------------------------------------
(* Lists.                                                                   *)
LEMMA Joined ==
  ASSUME NEW S, NEW a \in Seq(S), NEW b \in Seq(S)
  PROVE  /\ a \o b \in Seq(S)
         /\ Len(a) \in Nat /\ Len(b) \in Nat /\ Len(a \o b) = Len(a) + Len(b)
         /\ \A i \in 1 .. Len(a) : (a \o b)[i] = a[i]
         /\ \A i \in 1 .. Len(b) : (a \o b)[Len(a) + i] = b[i]
         /\ Range(a \o b) = Range(a) \cup Range(b)
<1> DEFINE c == a \o b
<1>1. /\ c \in Seq(S)
      /\ Len(a) \in Nat /\ Len(b) \in Nat /\ Len(c) = Len(a) + Len(b)
      /\ DOMAIN a = 1 .. Len(a) /\ DOMAIN b = 1 .. Len(b)
      /\ DOMAIN c = 1 .. Len(a) + Len(b)
      /\ \A i \in 1 .. Len(a) : c[i] = a[i]
      /\ \A i \in 1 .. Len(b) : c[Len(a) + i] = b[i]
  OBVIOUS
<1> HIDE DEF c
<1>2. Range(a) \cup Range(b) \subseteq Range(c)
  <2>1. \A i \in 1 .. Len(b) : Len(a) + i \in 1 .. Len(a) + Len(b)
    BY <1>1
  <2>2. \A i \in 1 .. Len(a) : i \in 1 .. Len(a) + Len(b)
    BY <1>1
  <2> QED
    BY <1>1, <2>1, <2>2 DEF Range
<1>3. ASSUME NEW i \in DOMAIN c
      PROVE  c[i] \in Range(a) \cup Range(b)
  <2>1. CASE i \in 1 .. Len(a)
    BY <1>1, <2>1 DEF Range
  <2>2. CASE i \notin 1 .. Len(a)
    <3>1. i - Len(a) \in 1 .. Len(b) /\ Len(a) + (i - Len(a)) = i
      BY <1>1, <2>2
    <3>2. c[i] = b[i - Len(a)]
      BY <1>1, <3>1
    <3> QED
      BY <1>1, <3>1, <3>2 DEF Range
  <2> QED
    BY <2>1, <2>2
<1>4. Range(c) = Range(a) \cup Range(b)
  BY <1>2, <1>3 DEF Range
<1> QED
  BY <1>1, <1>4 DEF c

LEMMA Nil ==
  ASSUME NEW S, NEW a \in Seq(S)
  PROVE  /\ a \o <<>> = a /\ <<>> \o a = a
         /\ Len(a) = 0 <=> a = <<>>
<1>1. Len(a) = 0 <=> a = <<>>
  BY EmptySeq
<1>2. a \o <<>> = a /\ <<>> \o a = a
  BY ConcatEmptySeq
<1> QED
  BY <1>1, <1>2

(* A list that is cut after its first c members.                            *)
LEMMA InTwo ==
  ASSUME NEW S, NEW q \in Seq(S), NEW c \in 0 .. Len(q)
  PROVE  /\ SubSeq(q, 1, c) \in Seq(S) /\ SubSeq(q, c + 1, Len(q)) \in Seq(S)
         /\ Len(SubSeq(q, 1, c)) = c /\ Len(SubSeq(q, c + 1, Len(q))) = Len(q) - c
         /\ \A i \in 1 .. c : SubSeq(q, 1, c)[i] = q[i]
         /\ \A i \in 1 .. Len(q) - c : SubSeq(q, c + 1, Len(q))[i] = q[c + i]
         /\ SubSeq(q, 1, c) \o SubSeq(q, c + 1, Len(q)) = q
<1> DEFINE a == SubSeq(q, 1, c)
           b == SubSeq(q, c + 1, Len(q))
<1>1. Len(q) \in Nat /\ c \in Nat
  OBVIOUS
<1>2. /\ a \in Seq(S) /\ Len(a) = c
      /\ \A i \in 1 .. c : a[i] = q[i]
  BY <1>1
<1>3. /\ b \in Seq(S) /\ Len(b) = Len(q) - c
      /\ \A i \in 1 .. Len(q) - c : b[i] = q[c + i]
  BY <1>1
<1> HIDE DEF a, b
<1>4. a \o b = q
  <2>1. a \o b \in Seq(S) /\ Len(a \o b) = Len(q)
    BY <1>1, <1>2, <1>3
  <2>2. ASSUME NEW i \in 1 .. Len(q)
        PROVE  (a \o b)[i] = q[i]
    <3>1. CASE i <= c
      <4>1. i \in 1 .. Len(a)
        BY <1>1, <1>2, <3>1
      <4>2. (a \o b)[i] = a[i]
        BY <1>2, <1>3, <4>1, Joined
      <4> QED
        BY <1>2, <4>1, <4>2
    <3>2. CASE i > c
      <4>1. i - c \in 1 .. Len(b) /\ c + (i - c) = i
        BY <1>1, <1>3, <3>2
      <4>2. (a \o b)[c + (i - c)] = b[i - c]
        BY <1>2, <1>3, <4>1, Joined
      <4>3. b[i - c] = q[c + (i - c)]
        BY <1>3, <4>1
      <4> QED
        BY <4>1, <4>2, <4>3
    <3>3. i <= c \/ i > c
      BY <1>1
    <3> QED
      BY <3>1, <3>2, <3>3
  <2> QED
    BY <2>1, <2>2, SeqEqual
<1> QED
  BY <1>2, <1>3, <1>4 DEF a, b

LEMMA Unit ==
  ASSUME NEW p \in Packages
  PROVE  /\ Units(p) \in Seq(Packages) /\ Len(Units(p)) = PackageSize
         /\ PackageSize \in Nat /\ PackageSize > 0
         /\ \A i \in 1 .. PackageSize : Units(p)[i] = p
         /\ Range(Units(p)) = {p}
<1>1. PackageSize \in Nat /\ PackageSize > 0
  BY SocketAssumption
<1>2. /\ Units(p) \in Seq(Packages) /\ Len(Units(p)) = PackageSize
      /\ DOMAIN Units(p) = 1 .. PackageSize
      /\ \A i \in 1 .. PackageSize : Units(p)[i] = p
  BY <1>1 DEF Units
<1>3. 1 \in 1 .. PackageSize
  BY <1>1
<1>4. Range(Units(p)) = {p}
  BY <1>2, <1>3 DEF Range
<1> QED
  BY <1>1, <1>2, <1>4

-----------------------------------------------------------------------------
(* Rows.                                                                    *)
LEMMA WholeRowsAreRows ==
  ASSUME NEW q, WholeRows(q)
  PROVE  Rows(q)
BY DEF WholeRows, Rows

LEMMA RowsEmpty == WholeRows(<<>>) /\ Rows(<<>>) /\ InOrder(<<>>)
BY DEF WholeRows, Rows, InOrder

LEMMA RowsBegun ==
  ASSUME NEW q \in Seq(Packages), NEW c \in 0 .. Len(q), Rows(q)
  PROVE  Rows(SubSeq(q, 1, c))
<1> DEFINE a == SubSeq(q, 1, c)
<1>1. /\ c \in Nat /\ Len(q) \in Nat /\ c <= Len(q)
      /\ DOMAIN q = 1 .. Len(q)
      /\ a \in Seq(Packages) /\ Len(a) = c /\ DOMAIN a = 1 .. c
      /\ \A i \in 1 .. c : a[i] = q[i]
  BY InTwo
<1> HIDE DEF a
<1>2. ASSUME NEW i \in 1 .. c
      PROVE  \E k \in Nat : Placed(a, i, k)
  <2>1. i \in DOMAIN q /\ i \in Nat
    BY <1>1
  <2>2. PICK k \in Nat : Placed(q, i, k)
    BY <2>1 DEF Rows
  <2>3. \A j \in 1 .. c : j \in DOMAIN q
    BY <1>1
  <2>4. Placed(a, i, k)
    BY <1>1, <2>2, <2>3 DEF Placed
  <2> QED
    BY <2>4
<1>3. Rows(a)
  BY <1>1, <1>2 DEF Rows
<1> QED
  BY <1>3 DEF a

LEMMA RowsJoined ==
  ASSUME NEW a \in Seq(Packages), NEW b \in Seq(Packages),
         WholeRows(a), WholeRows(b), Range(a) \cap Range(b) = {}
  PROVE  WholeRows(a \o b)
<1> DEFINE q == a \o b
<1>1. /\ q \in Seq(Packages) /\ Len(q) = Len(a) + Len(b)
      /\ Len(a) \in Nat /\ Len(b) \in Nat
      /\ \A i \in 1 .. Len(a) : q[i] = a[i]
      /\ \A i \in 1 .. Len(b) : q[Len(a) + i] = b[i]
      /\ DOMAIN a = 1 .. Len(a) /\ DOMAIN b = 1 .. Len(b)
      /\ DOMAIN q = 1 .. Len(a) + Len(b)
      /\ PackageSize \in Nat
  BY Joined, SocketAssumption
<1> HIDE DEF q
<1>2. \A i \in DOMAIN a, j \in DOMAIN b : a[i] # b[j]
  BY DEF Range
<1>3. \A j \in DOMAIN q : \/ j \in DOMAIN a /\ q[j] = a[j] /\ j <= Len(a)
                          \/ j - Len(a) \in DOMAIN b /\ q[j] = b[j - Len(a)] /\ j > Len(a)
  <2> SUFFICES ASSUME NEW j \in DOMAIN q, ~(j \in DOMAIN a)
               PROVE  j - Len(a) \in DOMAIN b /\ q[j] = b[j - Len(a)] /\ j > Len(a)
    BY <1>1
  <2>1. j - Len(a) \in 1 .. Len(b) /\ Len(a) + (j - Len(a)) = j /\ j > Len(a)
    BY <1>1
  <2> QED
    BY <1>1, <2>1
<1>4. ASSUME NEW i \in DOMAIN a
      PROVE  \E k \in Nat : Placed(q, i, k) /\ k + PackageSize <= Len(q)
  <2>1. PICK k \in Nat : Placed(a, i, k) /\ k + PackageSize <= Len(a)
    BY DEF WholeRows
  <2>2. q[i] = a[i]
    BY <1>1
  <2>3. \A j \in DOMAIN q : q[j] = q[i] <=> k < j /\ j <= k + PackageSize
    BY <1>1, <1>2, <1>3, <2>1, <2>2 DEF Placed
  <2>4. k + PackageSize <= Len(q)
    BY <1>1, <2>1
  <2> QED
    BY <2>1, <2>3, <2>4 DEF Placed
<1>5. ASSUME NEW n \in DOMAIN b
      PROVE  \E k \in Nat : Placed(q, Len(a) + n, k) /\ k + PackageSize <= Len(q)
  <2>1. PICK k \in Nat : Placed(b, n, k) /\ k + PackageSize <= Len(b)
    BY DEF WholeRows
  <2>2. q[Len(a) + n] = b[n]
    BY <1>1
  <2>3. ASSUME NEW j \in DOMAIN q
        PROVE  q[j] = q[Len(a) + n]
                 <=> Len(a) + k < j /\ j <= Len(a) + k + PackageSize
    <3>1. CASE j \in DOMAIN a /\ q[j] = a[j] /\ j <= Len(a)
      BY <1>1, <1>2, <2>2, <3>1
    <3>2. CASE j - Len(a) \in DOMAIN b /\ q[j] = b[j - Len(a)] /\ j > Len(a)
      <4>1. b[j - Len(a)] = b[n] <=> k < j - Len(a) /\ j - Len(a) <= k + PackageSize
        BY <2>1, <3>2 DEF Placed
      <4>2. j \in Nat
        BY <1>1
      <4>3. k < j - Len(a) /\ j - Len(a) <= k + PackageSize
              <=> Len(a) + k < j /\ j <= Len(a) + k + PackageSize
        BY <1>1, <4>2
      <4> QED
        BY <2>2, <3>2, <4>1, <4>3
    <3> QED
      BY <1>3, <3>1, <3>2
  <2>4. /\ Len(a) + k \in Nat /\ Len(a) + k + PackageSize <= Len(q)
        /\ Len(a) + k < Len(a) + n /\ Len(a) + n <= Len(a) + k + PackageSize
    BY <1>1, <2>1 DEF Placed
  <2> QED
    BY <2>3, <2>4 DEF Placed
<1>6. WholeRows(q)
  <2> SUFFICES ASSUME NEW i \in DOMAIN q
               PROVE  \E k \in Nat : Placed(q, i, k) /\ k + PackageSize <= Len(q)
    BY DEF WholeRows
  <2>1. CASE i - Len(a) \in DOMAIN b
    <3>1. Len(a) + (i - Len(a)) = i
      BY <1>1
    <3> QED
      BY <1>5, <2>1, <3>1
  <2> QED
    BY <1>3, <1>4, <2>1
<1> QED
  BY <1>6 DEF q

LEMMA UnitRow ==
  ASSUME NEW p \in Packages
  PROVE  WholeRows(Units(p)) /\ InOrder(Units(p))
<1> DEFINE q == Units(p)
<1>1. /\ q \in Seq(Packages) /\ Len(q) = PackageSize /\ DOMAIN q = 1 .. PackageSize
      /\ PackageSize \in Nat /\ \A i \in DOMAIN q : q[i] = p
  BY Unit
<1> HIDE DEF q
<1>5. p.no \in Nat
  BY DEF Packages
<1>2. InOrder(q)
  BY <1>1, <1>5 DEF InOrder
<1>3. \A i \in DOMAIN q : Placed(q, i, 0) /\ 0 + PackageSize <= Len(q)
  BY <1>1 DEF Placed
<1>4. WholeRows(q)
  BY <1>3 DEF WholeRows
<1> QED
  BY <1>2, <1>4 DEF q

(* A list cut between two packages.                                         *)
LEMMA RowsCut ==
  ASSUME NEW q \in Seq(Packages), NEW c \in 0 .. Len(q), WholeRows(q),
         \A i, j \in DOMAIN q : i <= c /\ c < j => q[i] # q[j]
  PROVE  /\ WholeRows(SubSeq(q, 1, c)) /\ WholeRows(SubSeq(q, c + 1, Len(q)))
         /\ Range(SubSeq(q, 1, c)) \cap Range(SubSeq(q, c + 1, Len(q))) = {}
<1> DEFINE a == SubSeq(q, 1, c)
           b == SubSeq(q, c + 1, Len(q))
<1>1. /\ c \in Nat /\ Len(q) \in Nat /\ c <= Len(q) /\ DOMAIN q = 1 .. Len(q)
      /\ Len(a) = c /\ DOMAIN a = 1 .. c /\ \A i \in 1 .. c : a[i] = q[i]
      /\ Len(b) = Len(q) - c /\ DOMAIN b = 1 .. Len(q) - c
      /\ \A i \in 1 .. Len(q) - c : b[i] = q[c + i]
      /\ PackageSize \in Nat /\ PackageSize > 0
  <2>1. a \in Seq(Packages) /\ b \in Seq(Packages)
    BY InTwo
  <2> QED
    BY <2>1, InTwo, SocketAssumption
<1> HIDE DEF a, b
<1>2. Range(a) \cap Range(b) = {}
  <2>1. ASSUME NEW i \in DOMAIN a, NEW j \in DOMAIN b
        PROVE  a[i] # b[j]
    <3>1. i \in DOMAIN q /\ i <= c /\ c + j \in DOMAIN q /\ c < c + j
      BY <1>1
    <3> QED
      BY <1>1, <3>1
  <2> QED
    BY <2>1 DEF Range
<1>3. ASSUME NEW i \in DOMAIN a
      PROVE  \E k \in Nat : Placed(a, i, k) /\ k + PackageSize <= Len(a)
  <2>1. i \in DOMAIN q /\ i \in Nat /\ i <= c
    BY <1>1
  <2>2. PICK k \in Nat : Placed(q, i, k) /\ k + PackageSize <= Len(q)
    BY <2>1 DEF WholeRows
  <2>3. k + PackageSize \in DOMAIN q /\ q[k + PackageSize] = q[i]
    BY <1>1, <2>2 DEF Placed
  <2>4. k + PackageSize <= c
    BY <1>1, <2>1, <2>3
  <2>5. Placed(a, i, k)
    <3>1. \A j \in DOMAIN a : j \in DOMAIN q /\ a[j] = q[j]
      BY <1>1
    <3> QED
      BY <2>2, <3>1 DEF Placed
  <2> QED
    BY <1>1, <2>4, <2>5
<1>4. ASSUME NEW n \in DOMAIN b
      PROVE  \E k \in Nat : Placed(b, n, k) /\ k + PackageSize <= Len(b)
  <2>1. c + n \in DOMAIN q /\ n \in Nat /\ c < c + n /\ b[n] = q[c + n]
    BY <1>1
  <2>2. PICK k \in Nat : Placed(q, c + n, k) /\ k + PackageSize <= Len(q)
    BY <2>1 DEF WholeRows
  <2>3. k + 1 \in DOMAIN q /\ q[k + 1] = q[c + n]
    <3>1. k + 1 \in DOMAIN q /\ k < k + 1 /\ k + 1 <= k + PackageSize
      BY <1>1, <2>2
    <3> QED
      BY <2>2, <3>1 DEF Placed
  <2>4. k + 1 > c
    BY <1>1, <2>1, <2>3
  <2>5. k - c \in Nat /\ k - c + PackageSize <= Len(b)
    BY <1>1, <2>2, <2>4
  <2>6. k - c < n /\ n <= k - c + PackageSize
    BY <1>1, <2>1, <2>2 DEF Placed
  <2>7. ASSUME NEW j \in DOMAIN b
        PROVE  b[j] = b[n] <=> k - c < j /\ j <= k - c + PackageSize
    <3>1. c + j \in DOMAIN q /\ b[j] = q[c + j]
      BY <1>1
    <3>2. q[c + j] = q[c + n] <=> k < c + j /\ c + j <= k + PackageSize
      BY <2>2, <3>1 DEF Placed
    <3> QED
      BY <1>1, <2>1, <3>1, <3>2
  <2> QED
    BY <2>5, <2>6, <2>7 DEF Placed
<1>5. WholeRows(a) /\ WholeRows(b)
  BY <1>3, <1>4 DEF WholeRows
<1> QED
  BY <1>2, <1>5 DEF a, b

LEMMA CountedInRow ==
  ASSUME NEW q \in Seq(Packages), NEW p, NEW k \in Nat, NEW m \in Nat,
         k <= m, m <= Len(q),
         \A j \in DOMAIN q : q[j] = p <=> k < j /\ j <= m
  PROVE  Count(q, p) = m - k
<1>1. {j \in DOMAIN q : q[j] = p} = k + 1 .. m
  <2>1. \A j \in k + 1 .. m : j \in DOMAIN q /\ k < j /\ j <= m
    OBVIOUS
  <2>2. \A j \in DOMAIN q : j \in Nat
    OBVIOUS
  <2> QED
    BY <2>1, <2>2
<1>2. Cardinality(k + 1 .. m) = m - k
  <2>1. k + 1 \in Int /\ m \in Int
    OBVIOUS
  <2>2. Cardinality(k + 1 .. m) = IF k + 1 > m THEN 0 ELSE m - (k + 1) + 1
    BY <2>1, FS_Interval
  <2> QED
    BY <2>2
<1> QED
  BY <1>1, <1>2 DEF Count

LEMMA RowsGapless ==
  ASSUME NEW q \in Seq(Packages), Rows(q)
  PROVE  Gapless(q)
<1> SUFFICES ASSUME NEW i \in 1 .. Len(q) - 1, q[i] # q[i + 1]
             PROVE  Count(SubSeq(q, 1, i), q[i]) = PackageSize
  BY DEF Gapless
<1>1. /\ i \in DOMAIN q /\ i + 1 \in DOMAIN q /\ i \in 0 .. Len(q) /\ i \in Nat
      /\ Len(q) \in Nat /\ PackageSize \in Nat
  BY SocketAssumption
<1>2. PICK k \in Nat : Placed(q, i, k)
  BY <1>1 DEF Rows
<1>3. i = k + PackageSize
  BY <1>1, <1>2 DEF Placed
<1>4. PICK a : a = SubSeq(q, 1, i)
  OBVIOUS
<1>5. /\ a \in Seq(Packages) /\ Len(a) = i /\ DOMAIN a = 1 .. i
      /\ \A j \in 1 .. i : a[j] = q[j]
  <2>1. a \in Seq(Packages) /\ Len(a) = i
    BY <1>1, <1>4, InTwo
  <2> QED
    BY <1>1, <1>4, <2>1, InTwo
<1>6. \A j \in DOMAIN a : a[j] = q[i] <=> k < j /\ j <= i
  <2>1. \A j \in DOMAIN a : j \in DOMAIN q
    BY <1>1, <1>5
  <2>2. \A j \in DOMAIN q : q[j] = q[i] <=> k < j /\ j <= k + PackageSize
    BY <1>2 DEF Placed
  <2>3. \A j \in DOMAIN a : a[j] = q[j]
    BY <1>5
  <2> QED
    BY <1>3, <2>1, <2>2, <2>3
<1>7. Count(a, q[i]) = i - k
  <2>1. k <= i /\ i <= Len(a) /\ a \in Seq(Packages)
    BY <1>1, <1>3, <1>5
  <2> QED
    BY <1>1, <1>6, <2>1, CountedInRow
<1> QED
  BY <1>1, <1>3, <1>4, <1>7

LEMMA RowsCounted ==
  ASSUME NEW q \in Seq(Packages), WholeRows(q)
  PROVE  /\ \A p : Count(q, p) = IF p \in Range(q) THEN PackageSize ELSE 0
         /\ ~list_uncomplete(q)
<1>1. ASSUME NEW p, p \in Range(q)
      PROVE  Count(q, p) = PackageSize
  <2>1. PICK i \in DOMAIN q : p = q[i]
    BY <1>1 DEF Range
  <2>2. PICK k \in Nat : Placed(q, i, k) /\ k + PackageSize <= Len(q)
    BY DEF WholeRows
  <2>3. k + PackageSize \in Nat /\ k <= k + PackageSize /\ PackageSize \in Nat
    BY SocketAssumption
  <2>4. Count(q, p) = k + PackageSize - k
    BY <2>1, <2>2, <2>3, CountedInRow DEF Placed
  <2> QED
    BY <2>3, <2>4
<1>2. ASSUME NEW p, p \notin Range(q)
      PROVE  Count(q, p) = 0
  <2>1. {j \in DOMAIN q : q[j] = p} = {}
    BY <1>2 DEF Range
  <2> QED
    BY <2>1, FS_EmptySet DEF Count
<1>3. ASSUME q # <<>>
      PROVE  Head(q) \in Range(q)
  <2>1. 1 \in DOMAIN q /\ Head(q) = q[1]
    BY <1>3, EmptySeq
  <2> QED
    BY <2>1 DEF Range
<1>4. ~list_uncomplete(q)
  BY <1>1, <1>3, SocketAssumption DEF list_uncomplete
<1> QED
  BY <1>1, <1>2, <1>4

(* A row ends nowhere inside another.                                       *)
LEMMA BesideRow ==
  ASSUME NEW q \in Seq(Packages), WholeRows(q), NEW h \in DOMAIN q,
         NEW k \in Nat, Placed(q, h, k), k + PackageSize <= Len(q),
         NEW i \in DOMAIN q, NEW n \in DOMAIN q, NEW c \in {k, k + PackageSize},
         i <= c, c < n
  PROVE  q[i] # q[n]
<1> SUFFICES ASSUME q[i] = q[n]
             PROVE  FALSE
  OBVIOUS
<1>1. /\ i \in Nat /\ n \in Nat /\ Len(q) \in Nat /\ DOMAIN q = 1 .. Len(q)
      /\ PackageSize \in Nat /\ PackageSize > 0
  BY SocketAssumption
<1>2. PICK m \in Nat : Placed(q, n, m)
  BY DEF WholeRows
<1>3. m < i /\ n <= m + PackageSize
  BY <1>2 DEF Placed
<1>4. CASE c = k
  <2>1. k + 1 \in DOMAIN q /\ m < k + 1 /\ k + 1 <= m + PackageSize
    BY <1>1, <1>3, <1>4
  <2>2. q[k + 1] = q[n]
    BY <1>2, <2>1 DEF Placed
  <2>3. k < k + 1 /\ k + 1 <= k + PackageSize
    BY <1>1
  <2>4. q[k + 1] = q[h]
    BY <2>1, <2>3 DEF Placed
  <2>5. k < i
    BY <2>2, <2>4 DEF Placed
  <2> QED
    BY <1>1, <1>4, <2>5
<1>5. CASE c = k + PackageSize
  <2>1. c \in DOMAIN q /\ m < c /\ c <= m + PackageSize /\ k < c
    BY <1>1, <1>3, <1>5
  <2>2. q[c] = q[n]
    BY <1>2, <2>1 DEF Placed
  <2>3. q[c] = q[h]
    BY <1>5, <2>1 DEF Placed
  <2>4. n <= k + PackageSize
    BY <2>2, <2>3 DEF Placed
  <2> QED
    BY <1>1, <1>5, <2>4
<1> QED
  BY <1>4, <1>5

(* Where AfterWrite cuts the low list: when j pieces of it are written, the *)
(* rest of the package that has been begun goes, too.                       *)
Rest(l) == IF list_uncomplete(l) THEN Count(l, Head(l)) ELSE 0

LEMMA Difference ==
  \A j, n, x \in Nat : j <= n /\ x = n - j =>
    /\ x = 0 => j = n
    /\ x # 0 => j < n /\ j + 1 \in 1 .. n /\ 1 \in 1 .. n - j
OBVIOUS

LEMMA RestOfPackage ==
  ASSUME NEW q \in Seq(Packages), WholeRows(q), NEW j \in 0 .. Len(q)
  PROVE  \E r \in 0 .. Len(q) - j :
           /\ r = Rest(SubSeq(q, j + 1, Len(q)))
           /\ \A i, n \in DOMAIN q : i <= j + r /\ j + r < n => q[i] # q[n]
<1>0. PICK l : l = SubSeq(q, j + 1, Len(q))
  OBVIOUS
<1>1. /\ j \in Nat /\ Len(q) \in Nat /\ j <= Len(q) /\ DOMAIN q = 1 .. Len(q)
      /\ PackageSize \in Nat /\ PackageSize > 0
  BY SocketAssumption
<1>6. /\ l \in Seq(Packages) /\ Len(l) = Len(q) - j
      /\ \A i \in 1 .. Len(q) - j : l[i] = q[j + i]
  BY <1>0, InTwo
<1>10. l \in Seq(Packages)
  BY <1>0, InTwo
<1>7. Len(l) = Len(q) - j
  BY <1>6
<1>8. \A x \in Nat : x = Len(q) - j =>
        /\ x = 0 => j = Len(q)
        /\ x # 0 => j < Len(q) /\ j + 1 \in DOMAIN q /\ 1 \in 1 .. Len(q) - j
  BY <1>1, Difference, Zenon
<1>9. Len(l) \in Nat
  BY <1>10
<1>2. PICK r : r = Rest(l)
  OBVIOUS
<1>5. l = <<>> <=> Len(l) = 0
  BY <1>10, EmptySeq
<1>3. ASSUME Len(l) = 0
      PROVE  /\ r \in 0 .. Len(q) - j
             /\ \A i, n \in DOMAIN q : i <= j + r /\ j + r < n => q[i] # q[n]
  <2>1. j = Len(q)
    BY <1>3, <1>7, <1>8, <1>9, Zenon
  <2>2. r = 0
    BY <1>2, <1>3, <1>5 DEF Rest, list_uncomplete
  <2> QED
    BY <1>1, <1>3, <2>1, <2>2
<1>4. ASSUME Len(l) # 0
      PROVE  /\ r \in 0 .. Len(q) - j
             /\ \A i, n \in DOMAIN q : i <= j + r /\ j + r < n => q[i] # q[n]
  <2>1. l # <<>> /\ DOMAIN l = 1 .. Len(l) /\ Head(l) = l[1]
    BY <1>4, <1>5, <1>10
  <2>2. j < Len(q) /\ j + 1 \in DOMAIN q /\ Head(l) = q[j + 1]
    <3>1. j < Len(q) /\ j + 1 \in DOMAIN q /\ 1 \in 1 .. Len(q) - j
      BY <1>4, <1>7, <1>8, <1>9, Zenon
    <3> QED
      BY <1>6, <2>1, <3>1
  <2>3. PICK k \in Nat : Placed(q, j + 1, k) /\ k + PackageSize <= Len(q)
    BY <2>2 DEF WholeRows
  <2>4. k <= j /\ j + 1 <= k + PackageSize
    BY <1>1, <2>3 DEF Placed
  <2>5. Count(l, Head(l)) = k + PackageSize - j
    <3>5. k + PackageSize - j \in Nat
      BY <1>1, <2>4
    <3>1. PICK m : m = k + PackageSize - j
      OBVIOUS
    <3>2. ASSUME NEW i \in DOMAIN l
          PROVE  l[i] = Head(l) <=> 0 < i /\ i <= m
      <4>1. i \in Nat /\ i > 0 /\ j + i \in DOMAIN q /\ l[i] = q[j + i]
        BY <1>1, <1>6, <2>1
      <4>2. q[j + i] = q[j + 1] <=> k < j + i /\ j + i <= k + PackageSize
        BY <2>3, <4>1 DEF Placed
      <4> QED
        BY <1>1, <2>2, <2>3, <2>4, <3>1, <4>1, <4>2
    <3>3. m <= Len(l) /\ 0 <= m
      BY <1>1, <1>7, <2>3, <2>4, <3>1
    <3>4. Count(l, Head(l)) = m - 0
      BY <1>10, <3>1, <3>2, <3>3, <3>5, CountedInRow
    <3> QED
      BY <3>1, <3>4
  <2>6. ASSUME NEW i \in DOMAIN q, NEW n \in DOMAIN q, NEW c \in {k, k + PackageSize},
               i <= c, c < n
        PROVE  q[i] # q[n]
    BY <2>2, <2>3, <2>6, BesideRow
  <2>7. CASE k = j
    <3>1. ~list_uncomplete(l)
      BY <1>1, <2>3, <2>5, <2>7 DEF list_uncomplete
    <3>2. r = 0
      BY <1>2, <3>1 DEF Rest
    <3> QED
      BY <1>1, <2>6, <2>7, <3>2
  <2>8. CASE k < j
    <3>3. list_uncomplete(l)
      BY <1>1, <2>1, <2>3, <2>5, <2>8 DEF list_uncomplete
    <3>1. r = k + PackageSize - j
      BY <1>2, <2>5, <3>3 DEF Rest
    <3>2. j + r = k + PackageSize /\ r \in 0 .. Len(q) - j
      BY <1>1, <2>3, <2>4, <3>1
    <3> QED
      BY <2>6, <3>2
  <2> QED
    BY <1>1, <2>4, <2>7, <2>8
<1>11. /\ r \in 0 .. Len(q) - j
       /\ \A i, n \in DOMAIN q : i <= j + r /\ j + r < n => q[i] # q[n]
  BY <1>3, <1>4
<1> QED
  BY <1>0, <1>2, <1>11

LEMMA OrderJoined ==
  ASSUME NEW a \in Seq(Packages), NEW b \in Seq(Packages),
         InOrder(a), InOrder(b),
         \A p \in Range(a), q \in Range(b) : p.low = q.low => p.no <= q.no
  PROVE  InOrder(a \o b)
<1>1. PICK q : q = a \o b
  OBVIOUS
<1>2. /\ q \in Seq(Packages) /\ Len(q) = Len(a) + Len(b)
      /\ Len(a) \in Nat /\ Len(b) \in Nat
      /\ \A i \in 1 .. Len(a) : q[i] = a[i]
      /\ \A i \in 1 .. Len(b) : q[Len(a) + i] = b[i]
      /\ DOMAIN a = 1 .. Len(a) /\ DOMAIN b = 1 .. Len(b)
      /\ DOMAIN q = 1 .. Len(a) + Len(b)
  BY <1>1, Joined
<1>3. \A j \in DOMAIN q : \/ j \in DOMAIN a /\ q[j] = a[j] /\ j <= Len(a)
                          \/ j - Len(a) \in DOMAIN b /\ q[j] = b[j - Len(a)] /\ j > Len(a)
  <2> SUFFICES ASSUME NEW j \in DOMAIN q, ~(j \in DOMAIN a)
               PROVE  j - Len(a) \in DOMAIN b /\ q[j] = b[j - Len(a)] /\ j > Len(a)
    BY <1>2
  <2>1. j - Len(a) \in 1 .. Len(b) /\ Len(a) + (j - Len(a)) = j /\ j > Len(a)
    BY <1>2
  <2> QED
    BY <1>2, <2>1
<1>4. ASSUME NEW i \in DOMAIN q, NEW j \in DOMAIN q, i < j, q[i].low = q[j].low
      PROVE  q[i].no <= q[j].no
  <2>1. CASE j \in DOMAIN a /\ q[j] = a[j] /\ j <= Len(a)
    <3>1. i \in DOMAIN a /\ q[i] = a[i]
      BY <1>2, <1>4, <2>1
    <3> QED
      BY <1>4, <2>1, <3>1 DEF InOrder
  <2>2. CASE j - Len(a) \in DOMAIN b /\ q[j] = b[j - Len(a)] /\ j > Len(a)
    <3>1. CASE i \in DOMAIN a /\ q[i] = a[i]
      <4>1. q[i] \in Range(a) /\ q[j] \in Range(b)
        BY <2>2, <3>1 DEF Range
      <4> QED
        BY <1>4, <4>1
    <3>2. CASE i - Len(a) \in DOMAIN b /\ q[i] = b[i - Len(a)]
      <4>1. i - Len(a) < j - Len(a)
        BY <1>2, <1>4
      <4> QED
        BY <1>4, <2>2, <3>2, <4>1 DEF InOrder
    <3> QED
      BY <1>3, <3>1, <3>2
  <2> QED
    BY <1>3, <2>1, <2>2
<1> QED
  BY <1>1, <1>4 DEF InOrder

LEMMA OrderCut ==
  ASSUME NEW q \in Seq(Packages), NEW c \in 0 .. Len(q), InOrder(q)
  PROVE  /\ InOrder(SubSeq(q, 1, c)) /\ InOrder(SubSeq(q, c + 1, Len(q)))
         /\ \A x \in Range(SubSeq(q, 1, c)), y \in Range(SubSeq(q, c + 1, Len(q))) :
              x.low = y.low => x.no <= y.no
<1> DEFINE a == SubSeq(q, 1, c)
           b == SubSeq(q, c + 1, Len(q))
<1>1. /\ c \in Nat /\ Len(q) \in Nat /\ c <= Len(q) /\ DOMAIN q = 1 .. Len(q)
      /\ Len(a) = c /\ DOMAIN a = 1 .. c /\ \A i \in 1 .. c : a[i] = q[i]
      /\ Len(b) = Len(q) - c /\ DOMAIN b = 1 .. Len(q) - c
      /\ \A i \in 1 .. Len(q) - c : b[i] = q[c + i]
  <2>1. a \in Seq(Packages) /\ b \in Seq(Packages)
    BY InTwo
  <2> QED
    BY <2>1, InTwo
<1> HIDE DEF a, b
<1>2. InOrder(a)
  <2>1. \A i \in DOMAIN a : i \in DOMAIN q /\ a[i] = q[i]
    BY <1>1
  <2> QED
    BY <2>1 DEF InOrder
<1>3. \A i \in DOMAIN b : c + i \in DOMAIN q /\ b[i] = q[c + i]
  BY <1>1
<1>4. InOrder(b)
  <2>1. \A i, j \in DOMAIN b : i < j => c + i < c + j
    BY <1>1
  <2> QED
    BY <1>3, <2>1 DEF InOrder
<1>5. ASSUME NEW i \in DOMAIN a, NEW j \in DOMAIN b, a[i].low = b[j].low
      PROVE  a[i].no <= b[j].no
  <2>1. i \in DOMAIN q /\ a[i] = q[i] /\ i < c + j
    BY <1>1
  <2> QED
    BY <1>3, <1>5, <2>1 DEF InOrder
<1>6. \A x \in Range(a), y \in Range(b) : x.low = y.low => x.no <= y.no
  BY <1>5 DEF Range
<1> QED
  BY <1>2, <1>4, <1>6 DEF a, b

-----------------------------------------------------------------------------
(* Streams.                                                                 *)
LEMMA PartsOf ==
  ASSUME NEW S, NEW a \in Seq(S), NEW b \in Seq(S), NEW c, c = Len(a)
  PROVE  /\ SubSeq(a \o b, 1, c) = a
         /\ SubSeq(a \o b, c + 1, Len(a \o b)) = b
<1>1. PICK q : q = a \o b
  OBVIOUS
<1>2. /\ q \in Seq(S) /\ Len(q) = c + Len(b) /\ c \in Nat /\ Len(b) \in Nat
      /\ \A i \in 1 .. c : q[i] = a[i]
      /\ \A i \in 1 .. Len(b) : q[c + i] = b[i]
  BY <1>1, Joined
<1>3. c \in 0 .. Len(q) /\ Len(q) - c = Len(b)
  BY <1>2
<1>4. /\ SubSeq(q, 1, c) \in Seq(S) /\ SubSeq(q, c + 1, Len(q)) \in Seq(S)
      /\ Len(SubSeq(q, 1, c)) = c /\ Len(SubSeq(q, c + 1, Len(q))) = Len(q) - c
      /\ \A i \in 1 .. c : SubSeq(q, 1, c)[i] = q[i]
      /\ \A i \in 1 .. Len(q) - c : SubSeq(q, c + 1, Len(q))[i] = q[c + i]
  BY <1>2, <1>3, InTwo
<1>5. SubSeq(q, 1, c) = a
  <2>1. \A i \in 1 .. Len(a) : SubSeq(q, 1, c)[i] = a[i]
    BY <1>2, <1>4
  <2> QED
    BY <1>4, <2>1, SeqEqual
<1>6. SubSeq(q, c + 1, Len(q)) = b
  <2>1. \A i \in 1 .. Len(b) : SubSeq(q, c + 1, Len(q))[i] = b[i]
    BY <1>2, <1>3, <1>4
  <2> QED
    BY <1>3, <1>4, <2>1, SeqEqual
<1> QED
  BY <1>1, <1>5, <1>6

LEMMA BeginningOfJoined ==
  ASSUME NEW S, NEW a \in Seq(S), NEW b \in Seq(S)
  PROVE  /\ \A k \in 0 .. Len(a) : SubSeq(a \o b, 1, k) = SubSeq(a, 1, k)
         /\ \A j \in 0 .. Len(b) :
              SubSeq(a \o b, 1, Len(a) + j) = a \o SubSeq(b, 1, j)
<1>1. ASSUME NEW k \in 0 .. Len(a)
      PROVE  SubSeq(a \o b, 1, k) = SubSeq(a, 1, k)
  <2>1. PICK x, y : x = SubSeq(a, 1, k) /\ y = SubSeq(a, k + 1, Len(a))
    OBVIOUS
  <2>2. x \in Seq(S) /\ y \in Seq(S) /\ Len(x) = k /\ x \o y = a
    BY <2>1, InTwo
  <2>6. x \in Seq(S) /\ y \in Seq(S)
    BY <2>2
  <2>3. (x \o y) \o b = x \o (y \o b)
    BY <2>6, ConcatAssociative
  <2>4. y \o b \in Seq(S)
    BY <2>2, Joined
  <2>5. SubSeq(x \o (y \o b), 1, k) = x
    BY <2>2, <2>4, PartsOf
  <2> QED
    BY <2>1, <2>2, <2>3, <2>5, Zenon
<1>2. ASSUME NEW j \in 0 .. Len(b)
      PROVE  SubSeq(a \o b, 1, Len(a) + j) = a \o SubSeq(b, 1, j)
  <2>1. PICK x, y : x = SubSeq(b, 1, j) /\ y = SubSeq(b, j + 1, Len(b))
    OBVIOUS
  <2>2. x \in Seq(S) /\ y \in Seq(S) /\ Len(x) = j /\ x \o y = b
    BY <2>1, InTwo
  <2>6. x \in Seq(S) /\ y \in Seq(S)
    BY <2>2
  <2>3. (a \o x) \o y = a \o (x \o y)
    BY <2>6, ConcatAssociative
  <2>4. a \o x \in Seq(S) /\ Len(a \o x) = Len(a) + Len(x)
    BY <2>2, Joined
  <2>5. SubSeq((a \o x) \o y, 1, Len(a) + Len(x)) = a \o x
    BY <2>2, <2>4, PartsOf
  <2> QED
    BY <2>1, <2>2, <2>3, <2>5, Zenon
<1> QED
  BY <1>1, <1>2

LEMMA CutTwice ==
  ASSUME NEW S, NEW q \in Seq(S), NEW j \in 0 .. Len(q), NEW r \in 0 .. Len(q) - j
  PROVE  \E l \in Seq(S) :
           /\ l = SubSeq(q, j + 1, Len(q))
           /\ r \in 0 .. Len(l)
           /\ SubSeq(q, 1, j) \o SubSeq(l, 1, r) = SubSeq(q, 1, j + r)
           /\ SubSeq(l, r + 1, Len(l)) = SubSeq(q, j + r + 1, Len(q))
<1>1. PICK a, l : a = SubSeq(q, 1, j) /\ l = SubSeq(q, j + 1, Len(q))
  OBVIOUS
<1>2. /\ a \in Seq(S) /\ l \in Seq(S) /\ Len(a) = j /\ a \o l = q
      /\ Len(l) = Len(q) - j
  BY <1>1, InTwo
<1>3. r \in 0 .. Len(l)
  BY <1>2
<1>4. PICK x, y : x = SubSeq(l, 1, r) /\ y = SubSeq(l, r + 1, Len(l))
  OBVIOUS
<1>5. l \in Seq(S)
  BY <1>2
<1>6. x \in Seq(S) /\ y \in Seq(S) /\ Len(x) = r /\ x \o y = l
  BY <1>3, <1>4, <1>5, InTwo
<1>7. a \in Seq(S) /\ Len(a) = j /\ a \o l = q
  BY <1>2
<1>13. a \in Seq(S) /\ x \in Seq(S) /\ y \in Seq(S)
  BY <1>6, <1>7
<1>8. (a \o x) \o y = a \o (x \o y)
  BY <1>13, ConcatAssociative
<1>9. a \o x \in Seq(S) /\ Len(a \o x) = Len(a) + Len(x)
  BY <1>6, <1>7, Joined
<1>10. j + r = Len(a \o x)
  BY <1>6, <1>7, <1>9
<1>11. /\ SubSeq((a \o x) \o y, 1, j + r) = a \o x
       /\ SubSeq((a \o x) \o y, j + r + 1, Len((a \o x) \o y)) = y
  BY <1>6, <1>9, <1>10, PartsOf
<1>12. (a \o x) \o y = q
  BY <1>6, <1>7, <1>8, Zenon
<1> QED
  BY <1>1, <1>3, <1>4, <1>5, <1>11, <1>12, Zenon

(* Packages of the low list get ahead of it, to the end of what goes first. *)
LEMMA Shifted ==
  ASSUME NEW w \in Seq(Packages), NEW low \in Seq(Packages), NEW ps,
         WholeStream(w, low, ps), NEW c \in 0 .. Len(low),
         \A i, n \in DOMAIN low : i <= c /\ c < n => low[i] # low[n]
  PROVE  WholeStream(w \o SubSeq(low, 1, c), SubSeq(low, c + 1, Len(low)), ps)
<1>1. PICK a, b : a = SubSeq(low, 1, c) /\ b = SubSeq(low, c + 1, Len(low))
  OBVIOUS
<1>2. /\ WholeRows(w) /\ WholeRows(low) /\ Range(w) \cap Range(low) = {}
      /\ Range(w) \cup Range(low) = ps /\ InOrder(w) /\ InOrder(low)
      /\ \A q \in Range(low) : q.low /\ \A p \in Range(w) : p.low => p.no <= q.no
  BY DEF WholeStream
<1>3. a \in Seq(Packages) /\ b \in Seq(Packages) /\ a \o b = low
  BY <1>1, InTwo
<1>4. Range(low) = Range(a) \cup Range(b)
  <2>1. a \in Seq(Packages) /\ b \in Seq(Packages)
    BY <1>3
  <2>2. Range(a \o b) = Range(a) \cup Range(b)
    BY <2>1, Joined
  <2> QED
    BY <1>3, <2>2
<1>5. WholeRows(a) /\ WholeRows(b) /\ Range(a) \cap Range(b) = {}
  BY <1>1, <1>2, RowsCut
<1>6. /\ InOrder(a) /\ InOrder(b)
      /\ \A x \in Range(a), y \in Range(b) : x.low = y.low => x.no <= y.no
  BY <1>1, <1>2, OrderCut
<1>7. a \in Seq(Packages) /\ Range(w) \cap Range(a) = {}
  BY <1>2, <1>3, <1>4
<1>8. WholeRows(w \o a) /\ Range(w \o a) = Range(w) \cup Range(a)
  BY <1>2, <1>5, <1>7, RowsJoined, Joined
<1>9. \A p \in Range(w), q \in Range(a) : p.low = q.low => p.no <= q.no
  <2> SUFFICES ASSUME NEW p \in Range(w), NEW q \in Range(a), p.low = q.low
               PROVE  p.no <= q.no
    OBVIOUS
  <2>1. q.low /\ (p.low => p.no <= q.no)
    BY <1>2, <1>4
  <2> QED
    BY <2>1, Zenon
<1>10. InOrder(w \o a)
  BY <1>2, <1>6, <1>7, <1>9, OrderJoined
<1>11. \A q \in Range(b) : q.low /\ \A p \in Range(w \o a) : p.low => p.no <= q.no
  <2> SUFFICES ASSUME NEW q \in Range(b)
               PROVE  q.low /\ \A p \in Range(w \o a) : p.low => p.no <= q.no
    OBVIOUS
  <2>1. q \in Range(low) /\ q.low
    BY <1>2, <1>4
  <2>2. ASSUME NEW p \in Range(w), p.low
        PROVE  p.no <= q.no
    BY <1>2, <2>1, <2>2
  <2>3. ASSUME NEW p \in Range(a), p.low
        PROVE  p.no <= q.no
    <3>1. \E i \in 1 .. Len(a) : p = a[i]
      BY <1>3 DEF Range
    <3>2. \E i \in 1 .. Len(b) : q = b[i]
      BY <1>3 DEF Range
    <3>3. p \in Packages /\ q \in Packages
      BY <1>3, <3>1, <3>2, ElementOfSeq
    <3>4. p.low = TRUE /\ q.low = TRUE
      BY <2>1, <2>3, <3>3 DEF Packages
    <3> QED
      BY <1>6, <3>4
  <2> QED
    BY <1>8, <2>1, <2>2, <2>3
<1>12. /\ Range(w \o a) \cap Range(b) = {}
       /\ Range(w \o a) \cup Range(b) = ps
  BY <1>2, <1>4, <1>5, <1>8
<1>13. WholeStream(w \o a, b, ps)
  BY <1>5, <1>6, <1>8, <1>10, <1>11, <1>12 DEF WholeStream
<1> QED
  BY <1>1, <1>13

Regroup(w, h, a, x) == (w \o h) \o (a \o x) = (w \o (h \o a)) \o x

LEMMA Regrouped ==
  ASSUME NEW w \in Seq(Packages), NEW h \in Seq(Packages),
         NEW a \in Seq(Packages), NEW x \in Seq(Packages)
  PROVE  Regroup(w, h, a, x)
<1>1. w \o h \in Seq(Packages)
  OBVIOUS
<1>2. ((w \o h) \o a) \o x = (w \o h) \o (a \o x)
  BY <1>1, ConcatAssociative
<1>3. (w \o h) \o a = w \o (h \o a)
  BY ConcatAssociative
<1> QED
  BY <1>2, <1>3 DEF Regroup

(* A write, and what AfterWrite leaves of the lists.                        *)
LEMMA AfterWriteWhole ==
  ASSUME NEW s \in Sockets, NEW w \in Seq(Packages), NEW ps,
         WholeStream(w \o s.high, s.low, ps), NEW k \in 0 .. Len(Buffered(s))
  PROVE  /\ AfterWrite(s, k) \in Sockets
         /\ AfterWrite(s, k).type = s.type /\ AfterWrite(s, k).id = s.id
         /\ w \o SubSeq(Buffered(s), 1, k) \in Seq(Packages)
         /\ WholeStream((w \o SubSeq(Buffered(s), 1, k)) \o AfterWrite(s, k).high,
                        AfterWrite(s, k).low, ps)
<1>1. PICK h, low : h = s.high /\ low = s.low
  OBVIOUS
<1>2. h \in Seq(Packages) /\ low \in Seq(Packages)
  BY <1>1 DEF Sockets
<1>3. /\ Len(h) \in Nat /\ Len(low) \in Nat /\ Len(h \o low) = Len(h) + Len(low)
      /\ h \o low \in Seq(Packages)
  BY <1>2, Joined
<1>4. Buffered(s) = h \o low
  BY <1>1 DEF Buffered
<1>5. k \in 0 .. Len(h) + Len(low) /\ k \in Nat
  BY <1>3, <1>4
<1>6. CASE k < Len(h)
  <2>1. PICK a, b : a = SubSeq(h, 1, k) /\ b = SubSeq(h, k + 1, Len(h))
    OBVIOUS
  <2>2. k \in 0 .. Len(h)
    BY <1>3, <1>5, <1>6
  <2>3. a \in Seq(Packages) /\ b \in Seq(Packages) /\ a \o b = h
    BY <1>2, <2>1, <2>2, InTwo
  <2>4. SubSeq(Buffered(s), 1, k) = a
    BY <1>2, <1>4, <2>1, <2>2, BeginningOfJoined
  <2>5. PICK t : t = AfterWrite(s, k)
    OBVIOUS
  <2>6. t = [s EXCEPT !.high = b]
    BY <1>1, <1>6, <2>1, <2>5 DEF AfterWrite
  <2>7. a \in Seq(Packages) /\ b \in Seq(Packages)
    BY <2>3
  <2>8. t \in Sockets /\ t.type = s.type /\ t.id = s.id /\ t.high = b /\ t.low = low
    BY <1>1, <2>6, <2>7 DEF Sockets
  <2>9. (w \o a) \o b = w \o (a \o b) /\ w \o a \in Seq(Packages)
    BY <2>7, ConcatAssociative, Joined
  <2>10. WholeStream((w \o a) \o t.high, t.low, ps)
    BY <1>1, <2>3, <2>8, <2>9
  <2> QED
    BY <2>4, <2>5, <2>8, <2>9, <2>10
<1>7. CASE ~(k < Len(h))
  <2>1. PICK j : j = k - Len(h)
    OBVIOUS
  <2>2. j \in 0 .. Len(low) /\ j \in Nat /\ k = Len(h) + j
    BY <1>3, <1>5, <1>7, <2>1
  <2>3. SubSeq(Buffered(s), 1, k) = h \o SubSeq(low, 1, j)
    BY <1>2, <1>4, <2>2, BeginningOfJoined
  <2>4. WholeRows(low)
    BY <1>1 DEF WholeStream
  <2>5. PICK r \in 0 .. Len(low) - j :
          /\ r = Rest(SubSeq(low, j + 1, Len(low)))
          /\ \A i, n \in DOMAIN low : i <= j + r /\ j + r < n => low[i] # low[n]
    BY <1>2, <2>2, <2>4, RestOfPackage
  <2>6. PICK l \in Seq(Packages) :
          /\ l = SubSeq(low, j + 1, Len(low))
          /\ r \in 0 .. Len(l)
          /\ SubSeq(low, 1, j) \o SubSeq(l, 1, r) = SubSeq(low, 1, j + r)
          /\ SubSeq(l, r + 1, Len(l)) = SubSeq(low, j + r + 1, Len(low))
    <3>1. low \in Seq(Packages) /\ j \in 0 .. Len(low) /\ r \in 0 .. Len(low) - j
      BY <1>2, <2>2, <2>5
    <3> QED
      BY <3>1, CutTwice, ZenonT(60)
  <2>7. PICK a, x, y : a = SubSeq(low, 1, j) /\ x = SubSeq(l, 1, r)
                       /\ y = SubSeq(l, r + 1, Len(l))
    OBVIOUS
  <2>8. r \in 0 .. Len(l)
    BY <2>6
  <2>9. a \in Seq(Packages) /\ x \in Seq(Packages) /\ y \in Seq(Packages)
    BY <1>2, <2>2, <2>7, <2>8, InTwo
  <2>10. PICK t : t = AfterWrite(s, k)
    OBVIOUS
  <2>11. t = [s EXCEPT !.high = x, !.low = y]
    <3>1. l = SubSeq(s.low, k - Len(s.high) + 1, Len(s.low))
      BY <1>1, <2>1, <2>6
    <3>2. r = IF list_uncomplete(l) THEN Count(l, Head(l)) ELSE 0
      BY <2>5, <2>6 DEF Rest
    <3>3. ~(k < Len(s.high))
      BY <1>1, <1>7
    <3> QED
      BY <2>7, <2>10, <3>1, <3>2, <3>3, Zenon DEF AfterWrite
  <2>12. t \in Sockets /\ t.type = s.type /\ t.id = s.id /\ t.high = x /\ t.low = y
    BY <2>9, <2>11 DEF Sockets
  <2>13. j + r \in 0 .. Len(low)
    BY <1>3, <2>2
  <2>14. WholeStream((w \o h) \o SubSeq(low, 1, j + r),
                     SubSeq(low, j + r + 1, Len(low)), ps)
    <3>1. w \o h \in Seq(Packages) /\ WholeStream(w \o h, low, ps)
      BY <1>1, <1>2, Joined
    <3>2. \A i, n \in DOMAIN low : i <= j + r /\ j + r < n => low[i] # low[n]
      BY <2>5
    <3> QED
      BY <1>2, <2>13, <3>1, <3>2, Shifted
  <2>15. (w \o h) \o (a \o x) = (w \o (h \o a)) \o x
    <3>1. h \in Seq(Packages) /\ a \in Seq(Packages) /\ x \in Seq(Packages)
      BY <1>2, <2>9
    <3>2. Regroup(w, h, a, x)
      BY <3>1, Regrouped
    <3> QED
      BY <3>2, Zenon DEF Regroup
  <2>16. w \o (h \o a) \in Seq(Packages)
    BY <1>2, <2>9, Joined
  <2>17. WholeStream((w \o (h \o a)) \o t.high, t.low, ps)
    BY <2>6, <2>7, <2>12, <2>14, <2>15, Zenon
  <2> QED
    BY <2>3, <2>7, <2>10, <2>12, <2>16, <2>17, Zenon
<1> QED
  BY <1>6, <1>7

(* The end of a stream, with everything written or cut.                     *)
LEMMA StreamEnds ==
  ASSUME NEW w \in Seq(Packages), NEW h \in Seq(Packages), NEW low \in Seq(Packages),
         NEW ps, WholeStream(w \o h, low, ps), NEW isCut, isCut \/ h \o low = <<>>
  PROVE  EndedStream(w, ps, isCut)
<1>1. PICK q : q = w \o h
  OBVIOUS
<1>2. /\ WholeRows(q) /\ InOrder(q) /\ Range(q) \cup Range(low) = ps
      /\ q \in Seq(Packages)
  BY <1>1 DEF WholeStream
<1>3. Len(w) \in 0 .. Len(q)
  BY <1>1, Joined
<1>4. SubSeq(q, 1, Len(w)) = w
  BY <1>1, PartsOf
<1>5. Rows(w)
  <2>1. Rows(SubSeq(q, 1, Len(w)))
    BY <1>2, <1>3, RowsBegun, WholeRowsAreRows
  <2> QED
    BY <1>4, <2>1
<1>6. InOrder(w)
  <2>1. InOrder(SubSeq(q, 1, Len(w)))
    BY <1>2, <1>3, OrderCut
  <2> QED
    BY <1>4, <2>1
<1>7. Range(q) = Range(w) \cup Range(h)
  BY <1>1, Joined
<1>8. Range(w) \subseteq ps
  BY <1>2, <1>7
<1>9. ASSUME ~isCut
      PROVE  WholeRows(w) /\ Range(w) = ps
  <2>1. h = <<>> /\ low = <<>>
    BY <1>9, ConcatEqualIffEmpty
  <2>2. Range(<<>>) = {}
    BY DEF Range
  <2>3. q = w
    BY <1>1, <2>1
  <2> QED
    BY <1>2, <2>1, <2>2, <2>3
<1> QED
  BY <1>5, <1>6, <1>8, <1>9 DEF EndedStream

(* One package more.                                                        *)
LEMMA StreamGrows ==
  ASSUME NEW q \in Seq(Packages), NEW low \in Seq(Packages), NEW ps,
         WholeStream(q, low, ps), NEW p \in Packages, p \notin ps,
         \A x \in ps : x.no <= p.no
  PROVE  /\ low = <<>> \/ ~p.low => WholeStream(q \o Units(p), low, ps \cup {p})
         /\ p.low => WholeStream(q, low \o Units(p), ps \cup {p})
<1>1. /\ WholeRows(q) /\ WholeRows(low) /\ InOrder(q) /\ InOrder(low)
      /\ Range(q) \cap Range(low) = {} /\ Range(q) \cup Range(low) = ps
      /\ \A y \in Range(low) : y.low /\ \A x \in Range(q) : x.low => x.no <= y.no
  BY DEF WholeStream
<1>2. PICK u : u = Units(p)
  OBVIOUS
<1>3. u \in Seq(Packages) /\ Range(u) = {p} /\ WholeRows(u) /\ InOrder(u)
  BY <1>2, Unit, UnitRow
<1>4. u \in Seq(Packages)
  BY <1>3
<1>5. /\ Range(q) \cap Range(u) = {} /\ Range(low) \cap Range(u) = {}
      /\ \A x \in Range(q) \cup Range(low) : x.no <= p.no
  BY <1>1, <1>3
<1>6. ASSUME low = <<>> \/ ~p.low
      PROVE  WholeStream(q \o u, low, ps \cup {p})
  <2>1. Range(q \o u) = Range(q) \cup {p} /\ WholeRows(q \o u)
    BY <1>1, <1>3, <1>4, <1>5, Joined, RowsJoined
  <2>2. InOrder(q \o u)
    BY <1>1, <1>3, <1>4, <1>5, OrderJoined
  <2>3. ASSUME NEW y \in Range(low), NEW x \in Range(q \o u), x.low
        PROVE  x.no <= y.no
    <3>1. ~p.low
      BY <1>6 DEF Range
    <3> QED
      BY <1>1, <2>1, <2>3, <3>1
  <2>4. \A y \in Range(low) : y.low
    BY <1>1
  <2> QED
    BY <1>1, <1>5, <1>3, <2>1, <2>2, <2>3, <2>4 DEF WholeStream
<1>7. ASSUME p.low
      PROVE  WholeStream(q, low \o u, ps \cup {p})
  <2>1. Range(low \o u) = Range(low) \cup {p} /\ WholeRows(low \o u)
    BY <1>1, <1>3, <1>4, <1>5, Joined, RowsJoined
  <2>2. InOrder(low \o u)
    BY <1>1, <1>3, <1>4, <1>5, OrderJoined
  <2>3. ASSUME NEW y \in Range(low \o u)
        PROVE  y.low /\ \A x \in Range(q) : x.low => x.no <= y.no
    BY <1>1, <1>5, <1>7, <2>1
  <2> QED
    BY <1>1, <1>5, <1>3, <2>1, <2>2, <2>3 DEF WholeStream
<1> QED
  BY <1>2, <1>6, <1>7

(* The ways in which send_socket takes a package.                           *)
LEMMA TakenWhole ==
  ASSUME NEW w \in Seq(Packages), NEW h \in Seq(Packages), NEW low \in Seq(Packages),
         NEW ps, WholeStream(w \o h, low, ps), NEW p \in Packages, p \notin ps,
         \A x \in ps : x.no <= p.no
  PROVE  /\ h \o low = <<>> =>
              \A k \in 0 .. PackageSize :
                WholeStream((w \o SubSeq(Units(p), 1, k))
                              \o (h \o SubSeq(Units(p), k + 1, PackageSize)),
                            low, ps \cup {p})
         /\ ~p.low => WholeStream(w \o (h \o Units(p)), low, ps \cup {p})
         /\ p.low => WholeStream(w \o h, low \o Units(p), ps \cup {p})
<1>1. PICK u : u = Units(p)
  OBVIOUS
<1>2. u \in Seq(Packages) /\ Len(u) = PackageSize
  BY <1>1, Unit
<1>3. u \in Seq(Packages) /\ w \o h \in Seq(Packages)
  BY <1>2, Joined
<1>4. ASSUME ~p.low
      PROVE  WholeStream(w \o (h \o u), low, ps \cup {p})
  <2>1. WholeStream((w \o h) \o u, low, ps \cup {p})
    BY <1>1, <1>3, <1>4, StreamGrows
  <2>2. (w \o h) \o u = w \o (h \o u)
    BY <1>3, ConcatAssociative
  <2> QED
    BY <2>1, <2>2
<1>5. ASSUME h \o low = <<>>, NEW k \in 0 .. PackageSize
      PROVE  WholeStream((w \o SubSeq(u, 1, k)) \o (h \o SubSeq(u, k + 1, PackageSize)),
                         low, ps \cup {p})
  <2>1. h = <<>> /\ low = <<>>
    BY <1>5, ConcatEqualIffEmpty
  <2>2. WholeStream((w \o h) \o u, low, ps \cup {p})
    BY <1>1, <1>3, <2>1, StreamGrows
  <2>3. PICK a, b : a = SubSeq(u, 1, k) /\ b = SubSeq(u, k + 1, PackageSize)
    OBVIOUS
  <2>4. a \in Seq(Packages) /\ b \in Seq(Packages) /\ a \o b = u
    BY <1>2, <2>3, InTwo
  <2>5. a \in Seq(Packages) /\ b \in Seq(Packages)
    BY <2>4
  <2>6. (w \o a) \o b = w \o (a \o b)
    BY <2>5, ConcatAssociative
  <2>7. w \o h = w /\ h \o b = b
    BY <2>1, <2>5
  <2> QED
    BY <2>2, <2>3, <2>4, <2>6, <2>7, Zenon
<1>6. p.low => WholeStream(w \o h, low \o u, ps \cup {p})
  BY <1>1, <1>3, StreamGrows
<1> QED
  BY <1>1, <1>4, <1>5, <1>6

-----------------------------------------------------------------------------
(* Numbers and types.                                                       *)
LEMMA Numbers ==
  /\ MaxIds \in Nat /\ MaxPackages \in Nat /\ MaxPipe \in Nat
  /\ \A id \in Nat : Hash(id) \in Slots
  /\ SocketIds \subseteq Nat \ {0} /\ SocketIds \subseteq 0 .. MaxIds
<1>1. MaxIds \in Nat /\ MaxPackages \in Nat /\ MaxPipe \in Nat
  BY SocketAssumption
<1>2. MAX_SOCKET \in Nat /\ MAX_SOCKET > 0
  BY SocketAssumption
<1>3. \A id \in Nat : id % MAX_SOCKET \in 0 .. MAX_SOCKET - 1
  BY <1>2
<1>4. \A id \in Nat : Hash(id) \in Slots
  BY <1>3 DEF Hash, Slots
<1>5. SocketIds \subseteq Nat \ {0} /\ SocketIds \subseteq 0 .. MaxIds
  BY <1>1 DEF SocketIds
<1> QED
  BY <1>1, <1>4, <1>5

LEMMA NextIdsFacts ==
  ASSUME Types, NEW id \in NextIds
  PROVE  /\ id \in SocketIds /\ id \in 0 .. MaxIds /\ id > alloc_id
         /\ Hash(id) \in Slots /\ id \notin known
         /\ known \subseteq 1 .. id /\ alloc_id \in Nat
<1>1. alloc_id \in 0 .. MaxIds /\ known \subseteq 1 .. alloc_id /\ MaxIds \in Nat
  BY Numbers DEF Types
<1>2. alloc_id \in Nat /\ id \in Nat /\ id > alloc_id /\ id <= MaxIds
  <2>1. MAX_SOCKET \in Nat
    BY SocketAssumption
  <2> QED
    BY <1>1, <2>1 DEF NextIds
<1>3. id \in SocketIds /\ id \in 0 .. MaxIds
  BY <1>1, <1>2 DEF SocketIds
<1>4. \A x \in known : x \in 1 .. alloc_id
  BY <1>1
<1>5. id \notin known /\ known \subseteq 1 .. id
  BY <1>2, <1>4
<1> QED
  BY <1>2, <1>3, <1>5, Numbers

LEMMA RequestFields ==
  ASSUME NEW m \in Requests
  PROVE  /\ m.id \in SocketIds /\ m.id \in Nat \ {0} /\ Hash(m.id) \in Slots
         /\ m.cmd \in {"O", "L", "S", "K", "D", "P"}
         /\ m.cmd \in {"D", "P"} => m.p \in Packages
<1>1. m.id \in SocketIds /\ m.cmd \in {"O", "L", "S", "K", "D", "P"}
      /\ (m.cmd \in {"D", "P"} => m.p \in Packages)
  BY DEF Requests, Packages
<1> QED
  BY <1>1, Numbers

LEMMA PipeTaken ==
  ASSUME Types, pipe # <<>>
  PROVE  /\ Head(pipe) \in Requests /\ Head(pipe) = pipe[1] /\ 1 \in DOMAIN pipe
         /\ Tail(pipe) \in Seq(Requests) /\ Len(Tail(pipe)) = Len(pipe) - 1
         /\ Len(pipe) \in Nat
         /\ \A i \in DOMAIN Tail(pipe) :
              i \in Nat /\ i + 1 \in DOMAIN pipe /\ Tail(pipe)[i] = pipe[i + 1]
<1>1. pipe \in Seq(Requests)
  BY DEF Types
<1> QED
  BY <1>1

LEMMA PipeSent ==
  ASSUME Types, NEW m \in Requests, pipe' = Append(pipe, m)
  PROVE  /\ pipe' \in Seq(Requests) /\ Len(pipe') = Len(pipe) + 1 /\ Len(pipe) \in Nat
         /\ DOMAIN pipe = 1 .. Len(pipe) /\ DOMAIN pipe' = 1 .. Len(pipe) + 1
         /\ \A i \in DOMAIN pipe : i \in DOMAIN pipe' /\ pipe'[i] = pipe[i]
         /\ pipe'[Len(pipe) + 1] = m
<1>1. pipe \in Seq(Requests)
  BY DEF Types
<1> QED
  BY <1>1

LEMMA SocketFields ==
  ASSUME Types, NEW n \in Slots
  PROVE  /\ slot[n] \in Sockets
         /\ slot[n].type \in SocketTypes /\ slot[n].id \in 0 .. MaxIds
         /\ slot[n].high \in Seq(Packages) /\ slot[n].low \in Seq(Packages)
         /\ Buffered(slot[n]) \in Seq(Packages)
<1>1. slot[n] \in Sockets
  BY DEF Types
<1>2. /\ slot[n].type \in SocketTypes /\ slot[n].id \in 0 .. MaxIds
      /\ slot[n].high \in Seq(Packages) /\ slot[n].low \in Seq(Packages)
  BY <1>1 DEF Sockets
<1>3. Buffered(slot[n]) \in Seq(Packages)
  BY <1>2, Joined DEF Buffered
<1> QED
  BY <1>1, <1>2, <1>3

(* A slot is of one id at a time.                                           *)
LEMMA LiveSlot ==
  ASSUME Types, SlotsInv, NEW n \in Slots, InUse(n)
  PROVE  /\ slot[n].id \in SocketIds /\ Hash(slot[n].id) = n /\ Live(slot[n].id)
         /\ Type(slot[n].id) = slot[n].type
<1>1. slot[n].id \in known /\ Hash(slot[n].id) = n
  BY DEF SlotsInv, UsedByItsId
<1>2. known \subseteq SocketIds
  <2>1. alloc_id \in Nat /\ alloc_id <= MaxIds /\ known \subseteq 1 .. alloc_id /\ MaxIds \in Nat
    BY Numbers DEF Types
  <2>2. 1 .. alloc_id \subseteq 1 .. MaxIds
    BY <2>1
  <2> QED
    BY <2>1, <2>2 DEF SocketIds
<1> QED
  BY <1>1, <1>2 DEF Live, Type

LEMMA NotLive ==
  ASSUME NEW id
  PROVE  /\ Has(id) <=> slot[Hash(id)].type # "INVALID" /\ slot[Hash(id)].id = id
         /\ Live(id) <=> /\ slot[Hash(id)].type \notin {"INVALID", "RESERVE"}
                         /\ slot[Hash(id)].id = id
         /\ Has(id) => Live(id) \/ slot[Hash(id)].type = "RESERVE"
         /\ Type(id) = slot[Hash(id)].type
BY DEF Has, Live, InUse, Type

-----------------------------------------------------------------------------
(* What a step does to one id and its slot: the socket t, the stream w, the *)
(* packages ps, the reports r; c if the id is cut.                          *)
Effect(id, t, w, ps, r, c) ==
  /\ slot' = [slot EXCEPT ![Hash(id)] = t]
  /\ wire' = [wire EXCEPT ![id] = w]
  /\ taken' = [taken EXCEPT ![id] = ps]
  /\ told' = [told EXCEPT ![id] = r]
  /\ cut' = IF c THEN cut \cup {id} ELSE cut

Using(t) == t.type \notin {"INVALID", "RESERVE"}

(* The slot stays with its id, or was free.                                 *)
Owned(id, t) ==
  \/ t = slot[Hash(id)]
  \/ ~Using(t) /\ ~InUse(Hash(id))
  \/ t.id = id /\ (slot[Hash(id)].id = id \/ ~InUse(Hash(id)))

Sound(id, t, w, ps, r, c) ==
  /\ t \in Sockets /\ w \in Seq(Packages) /\ ps \in SUBSET Packages
  /\ r \in SUBSET {"open", "data", "close"} /\ c \in BOOLEAN
  /\ Owned(id, t)
  /\ Using(t) /\ t.id = id =>
       /\ t.type \in {"PLISTEN", "LISTEN", "PACCEPT"} => t.high = <<>> /\ t.low = <<>>
       /\ WholeStream(w \o t.high, t.low, ps)
       /\ "close" \notin r
       /\ t.type = "CONNECTED" => "open" \in r
  /\ ~(Using(t) /\ t.id = id) => EndedStream(w, ps, c \/ id \in cut)
  /\ "data" \in r => "open" \in r

LEMMA EffectThere ==
  ASSUME Types, NEW id \in SocketIds, NEW t, NEW w, NEW ps, NEW r, NEW c,
         Effect(id, t, w, ps, r, c), Sound(id, t, w, ps, r, c)
  PROVE  /\ slot' \in [Slots -> Sockets]
         /\ wire' \in [SocketIds -> Seq(Packages)]
         /\ taken' \in [SocketIds -> SUBSET Packages]
         /\ told' \in [SocketIds -> SUBSET {"open", "data", "close"}]
         /\ cut' \subseteq SocketIds
         /\ slot'[Hash(id)] = t /\ wire'[id] = w /\ taken'[id] = ps /\ told'[id] = r
         /\ (id \in cut') = (c \/ id \in cut)
         /\ \A n \in Slots : n # Hash(id) => slot'[n] = slot[n]
         /\ \A d \in SocketIds : d # id =>
              /\ wire'[d] = wire[d] /\ taken'[d] = taken[d] /\ told'[d] = told[d]
              /\ (d \in cut') = (d \in cut)
<1>1. /\ slot \in [Slots -> Sockets] /\ wire \in [SocketIds -> Seq(Packages)]
      /\ taken \in [SocketIds -> SUBSET Packages] /\ cut \subseteq SocketIds
      /\ told \in [SocketIds -> SUBSET {"open", "data", "close"}]
  BY DEF Types
<1>2. /\ t \in Sockets /\ w \in Seq(Packages) /\ ps \in SUBSET Packages
      /\ r \in SUBSET {"open", "data", "close"} /\ c \in BOOLEAN
  BY DEF Sound
<1>3. Hash(id) \in Slots
  BY Numbers
<1>4. PICK n \in Slots : n = Hash(id)
  BY <1>3
<1>5. /\ slot' = [slot EXCEPT ![n] = t] /\ wire' = [wire EXCEPT ![id] = w]
      /\ taken' = [taken EXCEPT ![id] = ps] /\ told' = [told EXCEPT ![id] = r]
      /\ cut' = IF c THEN cut \cup {id} ELSE cut
  BY <1>4 DEF Effect
<1>6. slot' \in [Slots -> Sockets] /\ slot'[n] = t
      /\ \A i \in Slots : i # n => slot'[i] = slot[i]
  BY <1>1, <1>2, <1>5
<1>7. wire' \in [SocketIds -> Seq(Packages)] /\ wire'[id] = w
      /\ \A d \in SocketIds : d # id => wire'[d] = wire[d]
  BY <1>1, <1>2, <1>5
<1>8. taken' \in [SocketIds -> SUBSET Packages] /\ taken'[id] = ps
      /\ \A d \in SocketIds : d # id => taken'[d] = taken[d]
  BY <1>1, <1>2, <1>5
<1>9. told' \in [SocketIds -> SUBSET {"open", "data", "close"}] /\ told'[id] = r
      /\ \A d \in SocketIds : d # id => told'[d] = told[d]
  BY <1>1, <1>2, <1>5
<1>10. cut' \subseteq SocketIds /\ (id \in cut') = (c \/ id \in cut)
       /\ \A d \in SocketIds : d # id => (d \in cut') = (d \in cut)
  <2>1. CASE c
    BY <1>1, <1>5, <2>1
  <2>2. CASE ~c
    BY <1>1, <1>2, <1>5, <2>2
  <2> QED
    BY <2>1, <2>2
<1> QED
  BY <1>4, <1>6, <1>7, <1>8, <1>9, <1>10

(* The other ids are live or not as before, with their slots.               *)
LEMMA EffectElsewhere ==
  ASSUME Types, NEW id \in SocketIds, NEW t, NEW w, NEW ps, NEW r, NEW c,
         Effect(id, t, w, ps, r, c), Sound(id, t, w, ps, r, c),
         NEW d \in SocketIds, d # id
  PROVE  /\ Live(d)' = Live(d)
         /\ Live(d) => slot'[Hash(d)] = slot[Hash(d)]
<1>1. /\ slot'[Hash(id)] = t
      /\ \A n \in Slots : n # Hash(id) => slot'[n] = slot[n]
  BY EffectThere
<1>2. Hash(d) \in Slots /\ Hash(id) \in Slots
  BY Numbers
<1>3. CASE Hash(d) # Hash(id)
  BY <1>1, <1>2, <1>3 DEF Live, InUse
<1>4. CASE Hash(d) = Hash(id)
  <2>1. CASE t = slot[Hash(id)]
    BY <1>1, <1>4, <2>1 DEF Live, InUse
  <2>2. CASE ~Using(t) /\ ~InUse(Hash(id))
    BY <1>1, <1>4, <2>2 DEF Live, InUse, Using
  <2>3. CASE t.id = id /\ (slot[Hash(id)].id = id \/ ~InUse(Hash(id)))
    BY <1>1, <1>4, <2>3 DEF Live, InUse
  <2> QED
    BY <2>1, <2>2, <2>3 DEF Sound, Owned
<1> QED
  BY <1>3, <1>4

(* What a sound step makes of the invariant, but for requests and events.   *)
LEMMA EffectKeeps ==
  ASSUME Types, SlotsInv, EventsInv, StreamsInv,
         NEW id \in SocketIds, NEW t, NEW w, NEW ps, NEW r, NEW c,
         Effect(id, t, w, ps, r, c), Sound(id, t, w, ps, r, c),
         known \subseteq known',
         Using(t) /\ t.id = id => id \in known',
         \A d \in SocketIds : Unborn(d)' => Unborn(d),
         Unborn(id)' => w = <<>> /\ ps = {} /\ r = {}
  PROVE  UsedByItsId' /\ ConnectedIsOpen' /\ DataAfterOpen'
         /\ \A d \in SocketIds : StreamInv(d)'
<1>1. /\ slot'[Hash(id)] = t /\ wire'[id] = w /\ taken'[id] = ps /\ told'[id] = r
      /\ (id \in cut') = (c \/ id \in cut)
      /\ \A n \in Slots : n # Hash(id) => slot'[n] = slot[n]
      /\ \A d \in SocketIds : d # id =>
           /\ wire'[d] = wire[d] /\ taken'[d] = taken[d] /\ told'[d] = told[d]
           /\ (d \in cut') = (d \in cut)
  BY EffectThere
<1>2. Live(id)' = (Using(t) /\ t.id = id)
  BY <1>1 DEF Live, InUse, Using
<1>3. ASSUME NEW n \in Slots, InUse(n)'
      PROVE  /\ slot'[n].id \in known' /\ Hash(slot'[n].id) = n
             /\ slot'[n].type \in {"PLISTEN", "LISTEN", "PACCEPT"}
                  => slot'[n].high = <<>> /\ slot'[n].low = <<>>
  <2>1. CASE slot'[n] = slot[n]
    <3>1. InUse(n)
      BY <1>3, <2>1 DEF InUse
    <3> QED
      BY <2>1, <3>1 DEF SlotsInv, UsedByItsId
  <2>2. CASE slot'[n] # slot[n]
    <3>1. n = Hash(id) /\ slot'[n] = t /\ t # slot[Hash(id)]
      BY <1>1, <2>2
    <3>2. Using(t)
      BY <1>3, <3>1 DEF InUse, Using
    <3>3. t.id = id
      BY <3>1, <3>2 DEF Sound, Owned
    <3> QED
      BY <3>1, <3>2, <3>3 DEF Sound
  <2> QED
    BY <2>1, <2>2
<1>4. UsedByItsId'
  BY <1>3 DEF UsedByItsId
<1>5. ASSUME NEW d \in SocketIds
      PROVE  /\ Live(d)' /\ Type(d)' = "CONNECTED" => "open" \in told'[d]
             /\ "data" \in told'[d] => "open" \in told'[d]
  <2>1. CASE d = id
    <3>1. Type(d)' = t.type
      BY <1>1, <2>1 DEF Type
    <3> QED
      BY <1>1, <1>2, <2>1, <3>1 DEF Sound
  <2>2. CASE d # id
    <3>1. told'[d] = told[d]
      BY <1>1, <2>2
    <3>2. Live(d)' = Live(d) /\ (Live(d) => slot'[Hash(d)] = slot[Hash(d)])
      BY <2>2, EffectElsewhere
    <3>3. ASSUME Live(d)', Type(d)' = "CONNECTED"
          PROVE  "open" \in told'[d]
      <4>1. Live(d) /\ Type(d) = "CONNECTED"
        BY <3>2, <3>3 DEF Type
      <4> QED
        BY <3>1, <4>1 DEF EventsInv, ConnectedIsOpen
    <3>4. "data" \in told[d] => "open" \in told[d]
      BY DEF EventsInv, DataAfterOpen
    <3> QED
      BY <3>1, <3>3, <3>4
  <2> QED
    BY <2>1, <2>2
<1>6. ConnectedIsOpen' /\ DataAfterOpen'
  BY <1>5 DEF ConnectedIsOpen, DataAfterOpen
<1>7. ASSUME NEW d \in SocketIds
      PROVE  StreamInv(d)'
  <2>1. CASE d = id
    <3>1. ASSUME Live(id)'
          PROVE  WholeStream(Stream(id)', LowList(id)', taken'[id]) /\ "close" \notin told'[id]
      <4>1. Stream(id)' = w \o t.high /\ LowList(id)' = t.low
        BY <1>1 DEF Stream, LowList
      <4> QED
        BY <1>1, <1>2, <3>1, <4>1 DEF Sound
    <3>2. ASSUME ~Live(id)'
          PROVE  EndedStream(wire'[id], taken'[id], (id \in cut)')
      <4>1. EndedStream(w, ps, c \/ id \in cut)
        BY <1>2, <3>2 DEF Sound
      <4> QED
        BY <1>1, <4>1
    <3>3. Unborn(id)' => wire'[id] = <<>> /\ taken'[id] = {} /\ told'[id] = {}
      BY <1>1
    <3>4. StreamInv(id)'
      BY <3>1, <3>2, <3>3 DEF StreamInv
    <3> QED
      BY <2>1, <3>4
  <2>2. CASE d # id
    <3>1. /\ wire'[d] = wire[d] /\ taken'[d] = taken[d] /\ told'[d] = told[d]
          /\ (d \in cut') = (d \in cut)
      BY <1>1, <2>2
    <3>2. Live(d)' = Live(d) /\ (Live(d) => slot'[Hash(d)] = slot[Hash(d)])
      BY <2>2, EffectElsewhere
    <3>3. StreamInv(d) /\ (Unborn(d)' => Unborn(d))
      BY DEF StreamsInv
    <3>4. ASSUME Live(d)'
          PROVE  WholeStream(Stream(d)', LowList(d)', taken'[d]) /\ "close" \notin told'[d]
      <4>1. Stream(d)' = Stream(d) /\ LowList(d)' = LowList(d) /\ Live(d)
        BY <3>1, <3>2, <3>4 DEF Stream, LowList
      <4> QED
        BY <3>1, <3>3, <4>1 DEF StreamInv
    <3>5. ASSUME ~Live(d)'
          PROVE  EndedStream(wire'[d], taken'[d], (d \in cut)')
      <4>1. EndedStream(wire[d], taken[d], d \in cut)
        BY <3>2, <3>3, <3>5 DEF StreamInv
      <4> QED
        BY <3>1, <4>1
    <3>6. Unborn(d)' => wire'[d] = <<>> /\ taken'[d] = {} /\ told'[d] = {}
      BY <3>1, <3>3 DEF StreamInv
    <3> QED
      BY <3>4, <3>5, <3>6 DEF StreamInv
  <2> QED
    BY <2>1, <2>2
<1> QED
  BY <1>4, <1>6, <1>7

-----------------------------------------------------------------------------
(* The kinds of sound steps.                                                *)
LEMMA AtId ==
  ASSUME Types, StreamsInv, EventsInv, SlotsInv, NEW id \in SocketIds
  PROVE  /\ Hash(id) \in Slots /\ slot[Hash(id)] \in Sockets
         /\ wire[id] \in Seq(Packages) /\ taken[id] \in SUBSET Packages
         /\ told[id] \in SUBSET {"open", "data", "close"}
         /\ "data" \in told[id] => "open" \in told[id]
         /\ Live(id) => /\ Using(slot[Hash(id)]) /\ slot[Hash(id)].id = id
                        /\ WholeStream(wire[id] \o slot[Hash(id)].high,
                                       slot[Hash(id)].low, taken[id])
                        /\ "close" \notin told[id]
                        /\ slot[Hash(id)].type = "CONNECTED" => "open" \in told[id]
                        /\ slot[Hash(id)].type \in {"PLISTEN", "LISTEN", "PACCEPT"}
                             => slot[Hash(id)].high = <<>> /\ slot[Hash(id)].low = <<>>
         /\ ~Live(id) => /\ ~(Using(slot[Hash(id)]) /\ slot[Hash(id)].id = id)
                         /\ EndedStream(wire[id], taken[id], id \in cut)
<1>1. Hash(id) \in Slots
  BY Numbers
<1>2. /\ slot[Hash(id)] \in Sockets /\ wire[id] \in Seq(Packages)
      /\ taken[id] \in SUBSET Packages
      /\ told[id] \in SUBSET {"open", "data", "close"}
  BY <1>1 DEF Types
<1>3. "data" \in told[id] => "open" \in told[id]
  BY DEF EventsInv, DataAfterOpen
<1>4. StreamInv(id)
  BY DEF StreamsInv
<1>5. ASSUME Live(id)
      PROVE  /\ Using(slot[Hash(id)]) /\ slot[Hash(id)].id = id
             /\ WholeStream(wire[id] \o slot[Hash(id)].high,
                            slot[Hash(id)].low, taken[id])
             /\ "close" \notin told[id]
             /\ slot[Hash(id)].type = "CONNECTED" => "open" \in told[id]
             /\ slot[Hash(id)].type \in {"PLISTEN", "LISTEN", "PACCEPT"}
                  => slot[Hash(id)].high = <<>> /\ slot[Hash(id)].low = <<>>
  <2>1. Using(slot[Hash(id)]) /\ slot[Hash(id)].id = id /\ InUse(Hash(id))
    BY <1>5 DEF Live, InUse, Using
  <2>2. WholeStream(Stream(id), LowList(id), taken[id]) /\ "close" \notin told[id]
    BY <1>4, <1>5 DEF StreamInv
  <2>3. slot[Hash(id)].type = "CONNECTED" => "open" \in told[id]
    BY <1>5 DEF EventsInv, ConnectedIsOpen, Type
  <2>4. slot[Hash(id)].type \in {"PLISTEN", "LISTEN", "PACCEPT"}
          => slot[Hash(id)].high = <<>> /\ slot[Hash(id)].low = <<>>
    BY <1>1, <2>1 DEF SlotsInv, UsedByItsId
  <2> QED
    BY <2>1, <2>2, <2>3, <2>4 DEF Stream, LowList
<1>6. ASSUME ~Live(id)
      PROVE  /\ ~(Using(slot[Hash(id)]) /\ slot[Hash(id)].id = id)
             /\ EndedStream(wire[id], taken[id], id \in cut)
  BY <1>4, <1>6 DEF StreamInv, Live, InUse, Using
<1> QED
  BY <1>1, <1>2, <1>3, <1>5, <1>6

(* A report, or nothing.                                                    *)
LEMMA ToldSound ==
  ASSUME Types, SlotsInv, EventsInv, StreamsInv, NEW id \in SocketIds,
         NEW x \in SUBSET {"open", "data", "close"},
         "close" \in x => ~Live(id), "data" \in x => "open" \in told[id]
  PROVE  Sound(id, slot[Hash(id)], wire[id], taken[id], told[id] \cup x, FALSE)
<1>1. PICK s : s = slot[Hash(id)]
  OBVIOUS
<1>2. /\ s \in Sockets /\ wire[id] \in Seq(Packages) /\ taken[id] \in SUBSET Packages
      /\ told[id] \cup x \in SUBSET {"open", "data", "close"}
      /\ "data" \in told[id] \cup x => "open" \in told[id] \cup x
  BY <1>1, AtId
<1>3. CASE Live(id)
  <2>1. /\ Using(s) /\ s.id = id
        /\ WholeStream(wire[id] \o s.high, s.low, taken[id])
        /\ "close" \notin told[id] \cup x
        /\ s.type = "CONNECTED" => "open" \in told[id] \cup x
        /\ s.type \in {"PLISTEN", "LISTEN", "PACCEPT"} => s.high = <<>> /\ s.low = <<>>
    BY <1>1, <1>3, AtId
  <2> QED
    BY <1>1, <1>2, <2>1 DEF Sound, Owned
<1>4. CASE ~Live(id)
  <2>1. ~(Using(s) /\ s.id = id) /\ EndedStream(wire[id], taken[id], id \in cut)
    BY <1>1, <1>4, AtId
  <2> QED
    BY <1>1, <1>2, <2>1 DEF Sound, Owned
<1> QED
  BY <1>3, <1>4

(* A socket that is free, or reserved, and stays so.                        *)
LEMMA FreeSound ==
  ASSUME Types, SlotsInv, EventsInv, StreamsInv, NEW id \in SocketIds,
         ~InUse(Hash(id)), NEW t \in Sockets, ~Using(t),
         NEW x \in SUBSET {"close"}
  PROVE  Sound(id, t, wire[id], taken[id], told[id] \cup x, FALSE)
<1>1. ~Live(id)
  BY DEF Live
<1>2. EndedStream(wire[id], taken[id], id \in cut)
  BY <1>1, AtId
<1>3. /\ wire[id] \in Seq(Packages) /\ taken[id] \in SUBSET Packages
      /\ told[id] \cup x \in SUBSET {"open", "data", "close"}
      /\ "data" \in told[id] \cup x => "open" \in told[id] \cup x
  BY AtId
<1> QED
  BY <1>2, <1>3 DEF Sound, Owned

LEMMA EmptyStream ==
  WholeStream(<<>> \o <<>>, <<>>, {}) /\ EndedStream(<<>>, {}, FALSE)
<1>1. <<>> \o <<>> = <<>>
  BY EmptySeq, ConcatEmptySeq
<1>2. Range(<<>>) = {}
  BY DEF Range
<1> QED
  BY <1>1, <1>2, RowsEmpty DEF WholeStream, EndedStream

(* A slot that was free and is an id's that nothing was written to yet.     *)
LEMMA OpenedSound ==
  ASSUME Types, SlotsInv, EventsInv, StreamsInv, NEW id \in SocketIds,
         ~InUse(Hash(id)), Unborn(id), NEW t \in Sockets, Using(t), t.id = id,
         t.high = <<>>, t.low = <<>>, NEW x \in SUBSET {"open"},
         t.type = "CONNECTED" => "open" \in x
  PROVE  Sound(id, t, wire[id], taken[id], told[id] \cup x, FALSE)
<1>1. wire[id] = <<>> /\ taken[id] = {} /\ told[id] = {}
  BY DEF StreamsInv, StreamInv
<1>2. WholeStream(wire[id] \o t.high, t.low, taken[id])
  BY <1>1, EmptyStream
<1>3. /\ wire[id] \in Seq(Packages) /\ taken[id] \in SUBSET Packages
      /\ told[id] \cup x \in SUBSET {"open", "data", "close"}
      /\ "data" \notin told[id] \cup x /\ "close" \notin told[id] \cup x
  BY <1>1, AtId
<1> QED
  BY <1>2, <1>3 DEF Sound, Owned

(* A connection, or a listener, is started.                                 *)
LEMMA StartedSound ==
  ASSUME Types, SlotsInv, EventsInv, StreamsInv, NEW id \in SocketIds, Live(id),
         NEW type \in {"CONNECTED", "LISTEN"},
         type = "LISTEN" => slot[Hash(id)].type = "PLISTEN"
  PROVE  Sound(id, [slot[Hash(id)] EXCEPT !.type = type], wire[id], taken[id],
               told[id] \cup {"open"}, FALSE)
<1>1. PICK s : s = slot[Hash(id)]
  OBVIOUS
<1>2. /\ s \in Sockets /\ wire[id] \in Seq(Packages) /\ taken[id] \in SUBSET Packages
      /\ told[id] \cup {"open"} \in SUBSET {"open", "data", "close"}
      /\ Using(s) /\ s.id = id
      /\ WholeStream(wire[id] \o s.high, s.low, taken[id])
      /\ "close" \notin told[id] \cup {"open"}
      /\ s.type \in {"PLISTEN", "LISTEN", "PACCEPT"} => s.high = <<>> /\ s.low = <<>>
  BY <1>1, AtId
<1>3. PICK t : t = [s EXCEPT !.type = type]
  OBVIOUS
<1>4. /\ t \in Sockets /\ t.type = type /\ t.id = s.id /\ t.high = s.high
      /\ t.low = s.low
  BY <1>2, <1>3 DEF Sockets, SocketTypes
<1>5. /\ Owned(id, t) /\ Using(t)
      /\ t.type \in {"PLISTEN", "LISTEN", "PACCEPT"} => t.high = <<>> /\ t.low = <<>>
  BY <1>1, <1>2, <1>4 DEF Owned, Using
<1>6. Sound(id, t, wire[id], taken[id], told[id] \cup {"open"}, FALSE)
  BY <1>2, <1>4, <1>5 DEF Sound
<1> QED
  BY <1>1, <1>3, <1>6

(* A socket is closed, with the lists of a to write, or cut.                *)
LEMMA ClosedSound ==
  ASSUME Types, SlotsInv, EventsInv, StreamsInv, NEW id \in SocketIds, Live(id),
         NEW w \in Seq(Packages), NEW h \in Seq(Packages), NEW low \in Seq(Packages),
         WholeStream(w \o h, low, taken[id]), NEW c \in BOOLEAN, c \/ h \o low = <<>>
  PROVE  Sound(id, [Free EXCEPT !.id = id], w, taken[id], told[id] \cup {"close"}, c)
<1>1. PICK t : t = [Free EXCEPT !.id = id]
  OBVIOUS
<1>2. t \in Sockets /\ t.type = "INVALID" /\ t.id = id
  <2>1. id \in 0 .. MaxIds
    BY Numbers
  <2>2. t = [type |-> "INVALID", id |-> id, high |-> <<>>, low |-> <<>>]
    BY <1>1 DEF Free
  <2> QED
    BY <2>1, <2>2 DEF Sockets, SocketTypes
<1>3. /\ taken[id] \in SUBSET Packages /\ slot[Hash(id)].id = id
      /\ told[id] \cup {"close"} \in SUBSET {"open", "data", "close"}
      /\ "data" \in told[id] \cup {"close"} => "open" \in told[id] \cup {"close"}
  BY AtId
<1>4. EndedStream(w, taken[id], c \/ id \in cut)
  <2>1. c \/ id \in cut \/ h \o low = <<>>
    OBVIOUS
  <2> QED
    BY <2>1, StreamEnds
<1>5. ~Using(t) /\ Owned(id, t)
  BY <1>2, <1>3 DEF Using, Owned
<1>6. Sound(id, t, w, taken[id], told[id] \cup {"close"}, c)
  BY <1>2, <1>3, <1>4, <1>5 DEF Sound
<1> QED
  BY <1>1, <1>6

(* A socket is written to, or takes a package.                              *)
LEMMA WrittenSound ==
  ASSUME Types, SlotsInv, EventsInv, StreamsInv, NEW id \in SocketIds, Live(id),
         NEW t \in Sockets, Using(t), t.id = id,
         t.type \notin {"PLISTEN", "LISTEN", "PACCEPT"},
         t.type = "CONNECTED" => slot[Hash(id)].type = "CONNECTED",
         NEW w \in Seq(Packages), NEW ps \in SUBSET Packages,
         WholeStream(w \o t.high, t.low, ps)
  PROVE  Sound(id, t, w, ps, told[id], FALSE)
<1>1. /\ slot[Hash(id)].id = id /\ told[id] \in SUBSET {"open", "data", "close"}
      /\ "data" \in told[id] => "open" \in told[id]
      /\ slot[Hash(id)].type = "CONNECTED" => "open" \in told[id]
      /\ "close" \notin told[id]
  BY AtId
<1>2. Owned(id, t)
  BY <1>1 DEF Owned
<1> QED
  BY <1>1, <1>2 DEF Sound

-----------------------------------------------------------------------------
(* The requests.                                                            *)
LEMMA ExceptSame ==
  ASSUME Types, NEW id \in SocketIds
  PROVE  /\ slot = [slot EXCEPT ![Hash(id)] = slot[Hash(id)]]
         /\ wire = [wire EXCEPT ![id] = wire[id]]
         /\ taken = [taken EXCEPT ![id] = taken[id]]
         /\ told = [told EXCEPT ![id] = told[id]]
         /\ told[id] \cup {} = told[id]
<1>1. Hash(id) \in Slots
  BY Numbers
<1> QED
  BY <1>1 DEF Types

(* What the socket thread does for a request.                               *)
ServedAs(m, t, w, ps, r, c) ==
  /\ Effect(m.id, t, w, ps, r, c) /\ Sound(m.id, t, w, ps, r, c)
  /\ slot[Hash(m.id)].type = "RESERVE" =>
       \/ m.cmd \in {"O", "L"}
       \/ t.type = "RESERVE" /\ t.id = slot[Hash(m.id)].id
  /\ t.type = "INVALID" =>
       \/ t = slot[Hash(m.id)]
       \/ clearing' = m.id /\ t.id = m.id
  /\ t.type = "PACCEPT" => slot[Hash(m.id)].type = "PACCEPT"
  /\ \/ ps = taken[m.id]
     \/ m.cmd \in {"D", "P"} /\ ps = taken[m.id] \cup {m.p}
  /\ aborted' \in {"no", "send_buffer", "force_close", "new_fd"}
  /\ clearing' \in 0 .. MaxIds

Served(m) == \E t, w, ps, r, c : ServedAs(m, t, w, ps, r, c)

Ready2Serve(m) ==
  /\ Types /\ SlotsInv /\ EventsInv /\ StreamsInv
  /\ Thread /\ pipe # <<>> /\ m = Head(pipe)

(* Only a report.                                                           *)
LEMMA ReportServed ==
  ASSUME NEW m \in Requests, Ready2Serve(m), NEW x \in SUBSET {"open", "close"},
         "close" \in x => ~Live(m.id),
         slot' = slot, wire' = wire, taken' = taken, cut' = cut,
         told' = [told EXCEPT ![m.id] = told[m.id] \cup x],
         aborted' \in {"no", "send_buffer", "force_close", "new_fd"},
         clearing' \in 0 .. MaxIds
  PROVE  Served(m)
<1>1. PICK id \in SocketIds : id = m.id
  BY RequestFields
<1>2. Types /\ SlotsInv /\ EventsInv /\ StreamsInv
  BY DEF Ready2Serve
<1>3. Sound(id, slot[Hash(id)], wire[id], taken[id], told[id] \cup x, FALSE)
  BY <1>1, <1>2, ToldSound
<1>4. Effect(id, slot[Hash(id)], wire[id], taken[id], told[id] \cup x, FALSE)
  BY <1>1, <1>2, ExceptSame DEF Effect
<1>5. ServedAs(m, slot[Hash(id)], wire[id], taken[id], told[id] \cup x, FALSE)
  BY <1>1, <1>3, <1>4 DEF ServedAs
<1> QED
  BY <1>5 DEF Served

LEMMA NothingServed ==
  ASSUME NEW m \in Requests, Ready2Serve(m), UNCHANGED <<slot, history>>,
         aborted' \in {"no", "send_buffer", "force_close", "new_fd"},
         clearing' \in 0 .. MaxIds
  PROVE  Served(m)
<1>1. m.id \in SocketIds /\ Types
  BY RequestFields DEF Ready2Serve
<1>2. told' = [told EXCEPT ![m.id] = told[m.id] \cup {}]
  BY <1>1, ExceptSame DEF history
<1>3. slot' = slot /\ wire' = wire /\ taken' = taken /\ cut' = cut
  BY DEF history
<1>4. {} \in SUBSET {"open", "close"} /\ ("close" \in {} => ~Live(m.id))
  OBVIOUS
<1> QED
  BY <1>2, <1>3, <1>4, ReportServed

LEMMA AbortServed ==
  ASSUME NEW m \in Requests, Ready2Serve(m),
         NEW where \in {"send_buffer", "force_close", "new_fd"}, Abort(where)
  PROVE  Served(m)
<1>1. UNCHANGED <<slot, history>> /\ aborted' = where /\ clearing' = clearing
  BY DEF Abort
<1>2. clearing' \in 0 .. MaxIds
  BY <1>1 DEF Ready2Serve, Types
<1> QED
  BY <1>1, <1>2, NothingServed

(* A socket is closed with the stream w, its lists cut or empty.            *)
LEMMA ClosedServed ==
  ASSUME NEW m \in Requests, Ready2Serve(m), Live(m.id),
         NEW w \in Seq(Packages), NEW h \in Seq(Packages), NEW low \in Seq(Packages),
         WholeStream(w \o h, low, taken[m.id]),
         NEW c \in BOOLEAN, c \/ h \o low = <<>>,
         Closed(m.id, c), wire' = [wire EXCEPT ![m.id] = w], taken' = taken,
         clearing' = m.id
  PROVE  Served(m)
<1>1. PICK id \in SocketIds : id = m.id /\ id \in 0 .. MaxIds
  BY RequestFields, Numbers
<1>2. Types /\ SlotsInv /\ EventsInv /\ StreamsInv
  BY DEF Ready2Serve
<1>3. PICK t : t = [Free EXCEPT !.id = id]
  OBVIOUS
<1>4. Sound(id, t, w, taken[id], told[id] \cup {"close"}, c)
  BY <1>1, <1>2, <1>3, ClosedSound
<1>5. slot[Hash(id)].id = id /\ slot[Hash(id)].type # "RESERVE"
  BY <1>1 DEF Live, InUse
<1>6. /\ slot' = [slot EXCEPT ![Hash(id)] = [Free EXCEPT !.id = slot[Hash(id)].id]]
      /\ told' = [told EXCEPT ![id] = @ \cup {"close"}]
      /\ cut' = IF c THEN cut \cup {id} ELSE cut
      /\ aborted' = aborted
  BY <1>1 DEF Closed, ForceClose, Report
<1>7. told' = [told EXCEPT ![id] = told[id] \cup {"close"}]
  BY <1>2, <1>6 DEF Types
<1>8. Effect(id, t, w, taken[id], told[id] \cup {"close"}, c)
  BY <1>1, <1>2, <1>3, <1>5, <1>6, <1>7, ExceptSame DEF Effect
<1>9. t.type = "INVALID" /\ t.id = id
  BY <1>3 DEF Free
<1>10. aborted' \in {"no", "send_buffer", "force_close", "new_fd"}
  BY <1>2, <1>6 DEF Types
<1>11. ServedAs(m, t, w, taken[id], told[id] \cup {"close"}, c)
  BY <1>1, <1>4, <1>5, <1>8, <1>9, <1>10 DEF ServedAs
<1> QED
  BY <1>11 DEF Served

LEMMA FailsServed ==
  ASSUME NEW m \in Requests, Ready2Serve(m), Live(m.id), Fails(m.id)
  PROVE  Served(m)
<1>1. m.id \in SocketIds /\ Types /\ SlotsInv /\ EventsInv /\ StreamsInv
  BY RequestFields DEF Ready2Serve
<1>2. Closed(m.id, TRUE) /\ clearing' = m.id /\ wire' = wire /\ taken' = taken
  BY DEF Fails
<1>3. PICK w, h, low : w = wire[m.id] /\ h = slot[Hash(m.id)].high
                       /\ low = slot[Hash(m.id)].low
  OBVIOUS
<1>4. w \in Seq(Packages) /\ h \in Seq(Packages) /\ low \in Seq(Packages)
  BY <1>1, <1>3, AtId DEF Sockets
<1>5. WholeStream(w \o h, low, taken[m.id])
  BY <1>1, <1>3, AtId
<1>6. wire' = [wire EXCEPT ![m.id] = w]
  BY <1>1, <1>2, <1>3, ExceptSame
<1> QED
  BY <1>2, <1>4, <1>5, <1>6, ClosedServed

LEMMA OpeningSlot ==
  ASSUME NEW m \in Requests, Ready2Serve(m), m.cmd \in {"O", "L"}
  PROVE  /\ slot[Hash(m.id)].type = "RESERVE" /\ slot[Hash(m.id)].id = m.id
         /\ Unborn(m.id) /\ ~InUse(Hash(m.id))
<1>1. Types /\ SlotsInv /\ pipe # <<>> /\ m = Head(pipe) /\ m.id \in SocketIds
  BY RequestFields DEF Ready2Serve
<1>2. 1 \in DOMAIN pipe /\ pipe[1] = m
  BY <1>1, PipeTaken
<1>3. Opens(1, m.id)
  BY <1>2 DEF Opens
<1>4. slot[Hash(m.id)].type = "RESERVE" /\ slot[Hash(m.id)].id = m.id
  BY <1>1, <1>3 DEF SlotsInv, ReservedSlots
<1> QED
  BY <1>3, <1>4 DEF Unborn, InUse

(* A socket gets another type, with a report or without.                    *)
LEMMA BecomesServed ==
  ASSUME NEW m \in Requests, Ready2Serve(m), NEW type, NEW x \in SUBSET {"open", "close"},
         type # "PACCEPT",
         slot[Hash(m.id)].type = "RESERVE" => m.cmd \in {"O", "L"},
         slot[Hash(m.id)].id = m.id, type = "INVALID" => clearing' = m.id,
         Sound(m.id, [slot[Hash(m.id)] EXCEPT !.type = type], wire[m.id], taken[m.id],
               told[m.id] \cup x, FALSE),
         slot' = [slot EXCEPT ![Hash(m.id)].type = type],
         wire' = wire, taken' = taken, cut' = cut,
         told' = [told EXCEPT ![m.id] = told[m.id] \cup x],
         aborted' = aborted, clearing' \in 0 .. MaxIds
  PROVE  Served(m)
<1>1. PICK id \in SocketIds : id = m.id
  BY RequestFields
<1>2. Types
  BY DEF Ready2Serve
<1>3. PICK n \in Slots : n = Hash(id)
  BY Numbers
<1>4. slot \in [Slots -> Sockets] /\ aborted' \in {"no", "send_buffer", "force_close", "new_fd"}
  BY <1>2 DEF Types
<1>5. PICK t : t = [slot[n] EXCEPT !.type = type]
  OBVIOUS
<1>6. t.type = type /\ t.id = slot[n].id
  BY <1>4, <1>5 DEF Sockets
<1>7. slot' = [slot EXCEPT ![n].type = type]
  BY <1>1, <1>3
<1>8. slot' = [slot EXCEPT ![n] = t]
  BY <1>5, <1>7
<1>9. Effect(id, t, wire[id], taken[id], told[id] \cup x, FALSE)
  BY <1>1, <1>2, <1>3, <1>8, ExceptSame DEF Effect
<1>10. Sound(id, t, wire[id], taken[id], told[id] \cup x, FALSE)
  BY <1>1, <1>3, <1>5
<1>11. ServedAs(m, t, wire[id], taken[id], told[id] \cup x, FALSE)
  BY <1>1, <1>3, <1>4, <1>6, <1>9, <1>10 DEF ServedAs
<1> QED
  BY <1>11 DEF Served

LEMMA ReportDone ==
  ASSUME Types, NEW id \in SocketIds, NEW kind, Report(id, kind)
  PROVE  told' = [told EXCEPT ![id] = told[id] \cup {kind}]
BY DEF Report, Types

LEMMA ReservedFree ==
  ASSUME NEW m \in Requests, Ready2Serve(m), m.cmd \in {"O", "L"}
  PROVE  Sound(m.id, [slot[Hash(m.id)] EXCEPT !.type = "INVALID"], wire[m.id],
               taken[m.id], told[m.id] \cup {"close"}, FALSE)
<1>1. Types /\ SlotsInv /\ EventsInv /\ StreamsInv /\ m.id \in SocketIds
  BY RequestFields DEF Ready2Serve
<1>2. PICK s \in Sockets : s = slot[Hash(m.id)]
  BY <1>1, AtId
<1>3. PICK t : t = [s EXCEPT !.type = "INVALID"]
  OBVIOUS
<1>4. t \in Sockets /\ ~Using(t)
  BY <1>3 DEF Sockets, SocketTypes, Using
<1>5. ~InUse(Hash(m.id)) /\ {"close"} \in SUBSET {"close"}
  BY OpeningSlot
<1>6. Sound(m.id, t, wire[m.id], taken[m.id], told[m.id] \cup {"close"}, FALSE)
  BY <1>1, <1>4, <1>5, FreeSound
<1> QED
  BY <1>2, <1>3, <1>6

LEMMA ReservedUsed ==
  ASSUME NEW m \in Requests, Ready2Serve(m), m.cmd \in {"O", "L"},
         Buffered(slot[Hash(m.id)]) = <<>>,
         NEW type \in {"CONNECTED", "CONNECTING", "PLISTEN"},
         NEW x \in SUBSET {"open"}, type = "CONNECTED" => "open" \in x
  PROVE  Sound(m.id, [slot[Hash(m.id)] EXCEPT !.type = type], wire[m.id],
               taken[m.id], told[m.id] \cup x, FALSE)
<1>1. Types /\ SlotsInv /\ EventsInv /\ StreamsInv /\ m.id \in SocketIds
  BY RequestFields DEF Ready2Serve
<1>2. PICK s \in Sockets : s = slot[Hash(m.id)]
  BY <1>1, AtId
<1>3. PICK t : t = [s EXCEPT !.type = type]
  OBVIOUS
<1>4. s.high = <<>> /\ s.low = <<>>
  <2>1. s.high \in Seq(Packages) /\ s.low \in Seq(Packages) /\ s.high \o s.low = <<>>
    BY <1>2 DEF Sockets, Buffered
  <2> QED
    BY <2>1, ConcatEqualIffEmpty
<1>5. s.id = m.id /\ ~InUse(Hash(m.id)) /\ Unborn(m.id)
  BY <1>2, OpeningSlot
<1>6. /\ t \in Sockets /\ Using(t) /\ t.id = m.id /\ t.type = type
      /\ t.high = <<>> /\ t.low = <<>>
  BY <1>3, <1>4, <1>5 DEF Sockets, SocketTypes, Using
<1>7. Sound(m.id, t, wire[m.id], taken[m.id], told[m.id] \cup x, FALSE)
  BY <1>1, <1>5, <1>6, OpenedSound
<1> QED
  BY <1>2, <1>3, <1>7

LEMMA OpenServed ==
  ASSUME NEW m \in Requests, Ready2Serve(m), m.cmd \in {"O", "L"},
         open_socket(m) \/ listen_socket(m)
  PROVE  Served(m)
<1>1. Types /\ m.id \in SocketIds /\ m.id \in 0 .. MaxIds
  BY RequestFields, Numbers DEF Ready2Serve
<1>2. PICK b : b = Buffered(slot[Hash(m.id)])
  OBVIOUS
<1>3. slot[Hash(m.id)].id = m.id
  BY OpeningSlot
<1>4. CASE Abort("new_fd")
  BY <1>4, AbortServed
<1>5. CASE slot' = [slot EXCEPT ![Hash(m.id)].type = "INVALID"] /\ ReportOnly(m.id, "close")
  <2>1. /\ Report(m.id, "close") /\ clearing' = m.id /\ aborted' = aborted
        /\ wire' = wire /\ taken' = taken /\ cut' = cut
    BY <1>5 DEF ReportOnly
  <2>2. {"close"} \in SUBSET {"open", "close"}
    OBVIOUS
  <2> QED
    BY <1>1, <1>3, <1>5, <2>1, <2>2, ReservedFree, ReportDone, BecomesServed
<1>6. ASSUME Buffered(slot[Hash(m.id)]) = <<>>, NEW type \in {"CONNECTED", "CONNECTING", "PLISTEN"},
             Becomes(m.id, type), UNCHANGED told, type # "CONNECTED"
      PROVE  Served(m)
  <2>1. /\ slot' = [slot EXCEPT ![Hash(m.id)].type = type]
        /\ clearing' \in 0 .. MaxIds /\ aborted' = aborted
        /\ wire' = wire /\ taken' = taken /\ cut' = cut
    BY <1>6, Numbers DEF Becomes
  <2>2. PICK x \in SUBSET {"open"} : x = {}
    OBVIOUS
  <2>3. told' = [told EXCEPT ![m.id] = told[m.id] \cup x]
    <3>1. told[m.id] \cup x = told[m.id]
      BY <2>2
    <3> QED
      BY <1>1, <1>6, <3>1, ExceptSame
  <2>4. Sound(m.id, [slot[Hash(m.id)] EXCEPT !.type = type], wire[m.id],
              taken[m.id], told[m.id] \cup x, FALSE)
    BY <1>6, ReservedUsed
  <2>5. type # "PACCEPT" /\ type # "INVALID" /\ x \in SUBSET {"open", "close"}
    OBVIOUS
  <2> QED
    BY <1>3, <2>1, <2>3, <2>4, <2>5, BecomesServed
<1>7. CASE /\ Buffered(slot[Hash(m.id)]) = <<>>
           /\ Becomes(m.id, "CONNECTED") /\ Report(m.id, "open")
  <2>1. PICK type \in {"CONNECTED"}, x \in SUBSET {"open"} :
          type = "CONNECTED" /\ x = {"open"}
    OBVIOUS
  <2>2. /\ slot' = [slot EXCEPT ![Hash(m.id)].type = type]
        /\ clearing' \in 0 .. MaxIds /\ aborted' = aborted
        /\ wire' = wire /\ taken' = taken /\ cut' = cut
    BY <1>7, <2>1, Numbers DEF Becomes
  <2>3. told' = [told EXCEPT ![m.id] = told[m.id] \cup x]
    BY <1>1, <1>7, <2>1, ReportDone
  <2>4. Sound(m.id, [slot[Hash(m.id)] EXCEPT !.type = type], wire[m.id],
              taken[m.id], told[m.id] \cup x, FALSE)
    BY <1>7, <2>1, ReservedUsed
  <2>5. type # "PACCEPT" /\ type # "INVALID" /\ x \in SUBSET {"open", "close"}
    BY <2>1
  <2> QED
    BY <1>3, <2>2, <2>3, <2>4, <2>5, BecomesServed
<1>8. CASE open_socket(m)
  BY <1>4, <1>5, <1>6, <1>7, <1>8 DEF open_socket
<1>9. CASE listen_socket(m)
  BY <1>4, <1>6, <1>9 DEF listen_socket
<1> QED
  BY <1>8, <1>9

LEMMA ReportOnlyServed ==
  ASSUME NEW m \in Requests, Ready2Serve(m), NEW kind \in {"open", "close"},
         kind = "close" => ~Live(m.id), ReportOnly(m.id, kind), slot' = slot
  PROVE  Served(m)
<1>1. Types /\ m.id \in SocketIds /\ m.id \in 0 .. MaxIds /\ 0 \in 0 .. MaxIds
  BY RequestFields, Numbers DEF Ready2Serve
<1>2. /\ Report(m.id, kind) /\ clearing' \in 0 .. MaxIds /\ aborted' = aborted
      /\ wire' = wire /\ taken' = taken /\ cut' = cut
  BY <1>1 DEF ReportOnly
<1>3. told' = [told EXCEPT ![m.id] = told[m.id] \cup {kind}]
  BY <1>1, <1>2, ReportDone
<1>4. aborted' \in {"no", "send_buffer", "force_close", "new_fd"}
  BY <1>1, <1>2 DEF Types
<1>5. PICK x \in SUBSET {"open", "close"} : x = {kind}
  OBVIOUS
<1> QED
  BY <1>2, <1>3, <1>4, <1>5, ReportServed

LEMMA IdleServed ==
  ASSUME NEW m \in Requests, Ready2Serve(m), Nothing
  PROVE  Served(m)
<1>1. UNCHANGED <<slot, history>> /\ aborted' = aborted /\ clearing' \in 0 .. MaxIds
  BY Numbers DEF Nothing
<1>2. aborted' \in {"no", "send_buffer", "force_close", "new_fd"}
  BY <1>1 DEF Ready2Serve, Types
<1> QED
  BY <1>1, <1>2, NothingServed

LEMMA StartServed ==
  ASSUME NEW m \in Requests, Ready2Serve(m), start_socket(m)
  PROVE  Served(m)
<1>1. Types /\ SlotsInv /\ EventsInv /\ StreamsInv /\ m.id \in SocketIds
  BY RequestFields DEF Ready2Serve
<1>2. CASE ~Has(m.id)
  <2>1. ~Live(m.id) /\ ReportOnly(m.id, "close") /\ slot' = slot
    BY <1>2, NotLive DEF start_socket
  <2> QED
    BY <2>1, ReportOnlyServed
<1>3. CASE Has(m.id) /\ Type(m.id) \in {"PACCEPT", "PLISTEN"} /\ Fails(m.id)
  BY <1>3, NotLive, FailsServed
<1>4. CASE /\ Has(m.id) /\ Type(m.id) \in {"PACCEPT", "PLISTEN"}
           /\ Becomes(m.id, IF Type(m.id) = "PACCEPT" THEN "CONNECTED" ELSE "LISTEN")
           /\ Report(m.id, "open")
  <2>1. PICK type \in {"CONNECTED", "LISTEN"}, x \in SUBSET {"open", "close"} :
          /\ type = (IF Type(m.id) = "PACCEPT" THEN "CONNECTED" ELSE "LISTEN")
          /\ x = {"open"}
    OBVIOUS
  <2>2. /\ Live(m.id) /\ slot[Hash(m.id)].id = m.id
        /\ slot[Hash(m.id)].type \in {"PACCEPT", "PLISTEN"}
        /\ type = "LISTEN" => slot[Hash(m.id)].type = "PLISTEN"
    BY <1>4, <2>1, NotLive
  <2>3. /\ slot' = [slot EXCEPT ![Hash(m.id)].type = type]
        /\ clearing' \in 0 .. MaxIds /\ aborted' = aborted
        /\ wire' = wire /\ taken' = taken /\ cut' = cut
    BY <1>4, <2>1, Numbers DEF Becomes
  <2>4. told' = [told EXCEPT ![m.id] = told[m.id] \cup x]
    BY <1>1, <1>4, <2>1, ReportDone
  <2>5. Sound(m.id, [slot[Hash(m.id)] EXCEPT !.type = type], wire[m.id],
              taken[m.id], told[m.id] \cup x, FALSE)
    BY <1>1, <2>1, <2>2, StartedSound
  <2>6. type # "PACCEPT" /\ type # "INVALID" /\ slot[Hash(m.id)].type # "RESERVE"
    BY <2>2
  <2> QED
    BY <2>2, <2>3, <2>4, <2>5, <2>6, BecomesServed
<1>5. CASE ReportOnly(m.id, "open") /\ UNCHANGED slot
  BY <1>5, ReportOnlyServed
<1>6. CASE Nothing
  BY <1>6, IdleServed
<1> QED
  BY <1>2, <1>3, <1>4, <1>5, <1>6 DEF start_socket

(* What send_buffer has written goes on the stream.                         *)
Sent(id, k) == wire[id] \o SubSeq(Buffered(slot[Hash(id)]), 1, k)

LEMMA WrittenDone ==
  ASSUME Types, NEW id \in SocketIds, slot[Hash(id)].id = id, NEW k,
         Written(slot[Hash(id)], k)
  PROVE  wire' = [wire EXCEPT ![id] = Sent(id, k)]
BY DEF Written, Types, Sent

LEMMA SentWhole ==
  ASSUME Types, SlotsInv, EventsInv, StreamsInv, NEW id \in SocketIds, Live(id),
         NEW k \in 0 .. Len(Buffered(slot[Hash(id)]))
  PROVE  /\ AfterWrite(slot[Hash(id)], k) \in Sockets
         /\ AfterWrite(slot[Hash(id)], k).type = slot[Hash(id)].type
         /\ AfterWrite(slot[Hash(id)], k).id = id
         /\ Sent(id, k) \in Seq(Packages)
         /\ WholeStream(Sent(id, k) \o AfterWrite(slot[Hash(id)], k).high,
                        AfterWrite(slot[Hash(id)], k).low, taken[id])
<1>1. PICK s \in Sockets : s = slot[Hash(id)]
  BY AtId
<1>2. /\ wire[id] \in Seq(Packages) /\ taken[id] \in SUBSET Packages
      /\ s.id = id /\ WholeStream(wire[id] \o s.high, s.low, taken[id])
  BY <1>1, AtId
<1>3. k \in 0 .. Len(Buffered(s))
  BY <1>1
<1>4. /\ AfterWrite(s, k) \in Sockets
      /\ AfterWrite(s, k).type = s.type /\ AfterWrite(s, k).id = s.id
      /\ wire[id] \o SubSeq(Buffered(s), 1, k) \in Seq(Packages)
      /\ WholeStream((wire[id] \o SubSeq(Buffered(s), 1, k)) \o AfterWrite(s, k).high,
                     AfterWrite(s, k).low, taken[id])
  BY <1>2, <1>3, AfterWriteWhole, Zenon
<1> QED
  BY <1>1, <1>2, <1>4, Zenon DEF Sent

LEMMA FlushedSound ==
  ASSUME Types, SlotsInv, EventsInv, StreamsInv, NEW id \in SocketIds, Live(id),
         NEW k \in 0 .. Len(Buffered(slot[Hash(id)])),
         NEW type \in {slot[Hash(id)].type, "HALFCLOSE"},
         type \notin {"PLISTEN", "LISTEN", "PACCEPT"}
  PROVE  Sound(id, [AfterWrite(slot[Hash(id)], k) EXCEPT !.type = type],
               Sent(id, k), taken[id], told[id], FALSE)
<1>1. PICK s \in Sockets : s = slot[Hash(id)]
  BY AtId
<1>2. taken[id] \in SUBSET Packages /\ Using(s) /\ s.id = id
  BY <1>1, AtId
<1>3. PICK a, w : a = AfterWrite(s, k) /\ w = Sent(id, k)
  OBVIOUS
<1>5. /\ a \in Sockets /\ a.type = s.type /\ a.id = id /\ w \in Seq(Packages)
      /\ WholeStream(w \o a.high, a.low, taken[id])
  BY <1>1, <1>3, SentWhole
<1>6. PICK t : t = [a EXCEPT !.type = type]
  OBVIOUS
<1>7. /\ t \in Sockets /\ t.type = type /\ t.id = id /\ t.high = a.high /\ t.low = a.low
      /\ Using(t)
  BY <1>1, <1>2, <1>5, <1>6 DEF Sockets, SocketTypes, Using
<1>8. WholeStream(w \o t.high, t.low, taken[id])
  BY <1>5, <1>7
<1>9. t.type = "CONNECTED" => slot[Hash(id)].type = "CONNECTED"
  BY <1>7
<1>10. Sound(id, t, w, taken[id], told[id], FALSE)
  BY <1>2, <1>5, <1>7, <1>8, <1>9, WrittenSound
<1> QED
  BY <1>1, <1>3, <1>6, <1>10

(* What the socket thread does to a socket in use.                          *)
UsedAs(id, clear, t, w, ps, r, c) ==
  /\ Effect(id, t, w, ps, r, c) /\ Sound(id, t, w, ps, r, c)
  /\ t.type # "RESERVE"
  /\ t.type = "INVALID" => clearing' = clear /\ t.id = id
  /\ t.type = "PACCEPT" => slot[Hash(id)].type = "PACCEPT"
  /\ ps = taken[id]
  /\ aborted' \in {"no", "send_buffer", "force_close", "new_fd"}
  /\ clearing' \in 0 .. MaxIds

LEMMA FlushUsed ==
  ASSUME Types, SlotsInv, EventsInv, StreamsInv, NEW id \in SocketIds, Live(id),
         NEW s, s = slot[Hash(id)], NEW k \in 0 .. Len(Buffered(s)),
         NEW closing \in BOOLEAN, NEW shutdown \in BOOLEAN, NEW clear \in 0 .. MaxIds,
         closing \/ s.type \notin {"PLISTEN", "LISTEN", "PACCEPT"},
         Flush(s, k, closing, shutdown, clear)
  PROVE  \E t, w, ps, r, c : UsedAs(id, clear, t, w, ps, r, c)
<1>1. /\ s \in Sockets /\ s.id = id /\ Using(s) /\ s.type \in SocketTypes
      /\ wire[id] \in Seq(Packages) /\ taken[id] \in SUBSET Packages
      /\ WholeStream(wire[id] \o s.high, s.low, taken[id])
  BY AtId DEF Sockets
<1>2. aborted \in {"no", "send_buffer", "force_close", "new_fd"} /\ clearing \in 0 .. MaxIds
      /\ 0 \in 0 .. MaxIds
  BY Numbers DEF Types
<1>3. CASE Blocked(s, k)
  <2>1. UNCHANGED <<slot, history>> /\ aborted' = "send_buffer" /\ clearing' = clearing
    BY <1>3 DEF Flush, Abort
  <2>2. PICK x \in SUBSET {"open", "data", "close"} : x = {}
    OBVIOUS
  <2>3. Sound(id, s, wire[id], taken[id], told[id] \cup x, FALSE)
    BY <2>2, ToldSound
  <2>4. told[id] \cup x = told[id]
    BY <2>2
  <2>5. Effect(id, s, wire[id], taken[id], told[id], FALSE)
    BY <2>1, ExceptSame DEF Effect, history
  <2>6. s.type \notin {"INVALID", "RESERVE"}
    BY <1>1 DEF Using
  <2>7. UsedAs(id, clear, s, wire[id], taken[id], told[id], FALSE)
    BY <1>1, <1>2, <2>1, <2>3, <2>4, <2>5, <2>6 DEF UsedAs
  <2> QED
    BY <2>7
<1>4. CASE ~Blocked(s, k)
  <2>1. PICK a, w : a = AfterWrite(s, k) /\ w = Sent(id, k)
    OBVIOUS
  <2>2. /\ a \in Sockets /\ a.type = s.type /\ a.id = s.id /\ w \in Seq(Packages)
        /\ WholeStream(w \o a.high, a.low, taken[id])
    BY <1>1, <2>1, SentWhole
  <2>3. Written(s, k) /\ taken' = taken
    BY <1>4 DEF Flush
  <2>4. wire' = [wire EXCEPT ![id] = w]
    BY <1>1, <2>1, <2>3, WrittenDone
  <2>5. a.high \in Seq(Packages) /\ a.low \in Seq(Packages)
    BY <2>2 DEF Sockets
  <2>6. PICK b \in BOOLEAN : b = (Buffered(a) = <<>>)
    OBVIOUS
  <2>7. CASE closing /\ (b \/ shutdown)
    <3>1. Closed(id, ~b) /\ clearing' = clear
      BY <1>1, <1>4, <2>1, <2>6, <2>7 DEF Flush
    <3>2. PICK t : t = [Free EXCEPT !.id = id]
      OBVIOUS
    <3>3. ~b \/ a.high \o a.low = <<>>
      BY <2>6 DEF Buffered
    <3>4. Sound(id, t, w, taken[id], told[id] \cup {"close"}, ~b)
      BY <2>2, <2>5, <3>2, <3>3, ClosedSound
    <3>5. /\ slot' = [slot EXCEPT ![Hash(id)] = t]
          /\ Report(id, "close") /\ aborted' = aborted
          /\ cut' = IF ~b THEN cut \cup {id} ELSE cut
      BY <1>1, <3>1, <3>2 DEF Closed, ForceClose
    <3>6. told' = [told EXCEPT ![id] = told[id] \cup {"close"}]
      BY <3>5, ReportDone
    <3>7. Effect(id, t, w, taken[id], told[id] \cup {"close"}, ~b)
      BY <2>3, <2>4, <3>5, <3>6, ExceptSame DEF Effect
    <3>8. t.type = "INVALID" /\ t.id = id
      BY <3>2 DEF Free
    <3>9. UsedAs(id, clear, t, w, taken[id], told[id] \cup {"close"}, ~b)
      BY <1>2, <3>1, <3>4, <3>5, <3>7, <3>8 DEF UsedAs
    <3> QED
      BY <3>9
  <2>8. CASE ~(closing /\ (b \/ shutdown))
    <3>1. PICK type \in {s.type, "HALFCLOSE"} :
            type = IF closing THEN "HALFCLOSE" ELSE s.type
      OBVIOUS
    <3>2. PICK t : t = [a EXCEPT !.type = type]
      OBVIOUS
    <3>3. type \notin {"PLISTEN", "LISTEN", "PACCEPT"}
      BY <3>1
    <3>4. Sound(id, t, w, taken[id], told[id], FALSE)
      BY <2>1, <3>2, <3>3, FlushedSound
    <3>5. /\ slot' = [slot EXCEPT ![Hash(id)] = t]
          /\ clearing' = 0 /\ aborted' = aborted /\ told' = told /\ cut' = cut
      <4>1. /\ slot' = [slot EXCEPT ![Hash(id)] =
                          [a EXCEPT !.type = IF closing THEN "HALFCLOSE" ELSE a.type]]
            /\ clearing' = 0 /\ aborted' = aborted /\ told' = told /\ cut' = cut
        BY <1>1, <1>4, <2>1, <2>6, <2>8 DEF Flush
      <4> QED
        BY <2>2, <3>1, <3>2, <4>1
    <3>6. Effect(id, t, w, taken[id], told[id], FALSE)
      BY <2>3, <2>4, <3>5, ExceptSame DEF Effect
    <3>7. t.type = type /\ type \notin {"INVALID", "RESERVE", "PACCEPT"}
      BY <1>1, <2>2, <3>1, <3>2, <3>3 DEF Sockets, Using
    <3>8. UsedAs(id, clear, t, w, taken[id], told[id], FALSE)
      BY <1>2, <3>4, <3>5, <3>6, <3>7 DEF UsedAs
    <3> QED
      BY <3>8
  <2> QED
    BY <2>7, <2>8
<1> QED
  BY <1>3, <1>4

LEMMA UsedServed ==
  ASSUME NEW m \in Requests, Live(m.id),
         \E t, w, ps, r, c : UsedAs(m.id, m.id, t, w, ps, r, c)
  PROVE  Served(m)
<1>1. slot[Hash(m.id)].type # "RESERVE"
  BY DEF Live, InUse
<1>2. PICK t, w, ps, r, c : UsedAs(m.id, m.id, t, w, ps, r, c)
  OBVIOUS
<1>3. ServedAs(m, t, w, ps, r, c)
  BY <1>1, <1>2 DEF UsedAs, ServedAs
<1> QED
  BY <1>3 DEF Served

LEMMA CloseServed ==
  ASSUME NEW m \in Requests, Ready2Serve(m), m.cmd = "K", close_socket(m)
  PROVE  Served(m)
<1>1. /\ Types /\ SlotsInv /\ EventsInv /\ StreamsInv /\ m.id \in SocketIds
      /\ m.id \in 0 .. MaxIds
  BY RequestFields, Numbers DEF Ready2Serve
<1>2. m.shutdown \in BOOLEAN
  BY DEF Requests
<1>3. PICK s : s = slot[Hash(m.id)]
  OBVIOUS
<1>4. CASE ~Has(m.id)
  <2>1. ~Live(m.id) /\ ReportOnly(m.id, "close") /\ slot' = slot
    BY <1>4, NotLive DEF close_socket
  <2> QED
    BY <2>1, ReportOnlyServed
<1>5. CASE Has(m.id) /\ s.type = "RESERVE"
  <2>1. Abort("force_close")
    BY <1>3, <1>5 DEF close_socket
  <2> QED
    BY <2>1, AbortServed
<1>6. CASE Has(m.id) /\ s.type # "RESERVE"
  <2>1. Live(m.id)
    BY <1>3, <1>6, NotLive
  <2>2. CASE Fails(m.id)
    BY <2>1, <2>2, FailsServed
  <2>3. CASE \E k \in 0 .. Len(Buffered(s)) : Flush(s, k, TRUE, m.shutdown, m.id)
    <3>1. PICK k \in 0 .. Len(Buffered(s)) : Flush(s, k, TRUE, m.shutdown, m.id)
      BY <2>3
    <3>2. PICK closing \in BOOLEAN : closing = TRUE
      OBVIOUS
    <3>3. Flush(s, k, closing, m.shutdown, m.id)
      BY <3>1, <3>2
    <3>4. \E t, w, ps, r, c : UsedAs(m.id, m.id, t, w, ps, r, c)
      BY <1>1, <1>2, <1>3, <2>1, <3>2, <3>3, FlushUsed
    <3> QED
      BY <2>1, <3>4, UsedServed
  <2>4. Fails(m.id) \/ \E k \in 0 .. Len(Buffered(s)) : Flush(s, k, TRUE, m.shutdown, m.id)
    BY <1>3, <1>6 DEF close_socket
  <2> QED
    BY <2>2, <2>3, <2>4
<1> QED
  BY <1>4, <1>5, <1>6

LEMMA AppendDone ==
  ASSUME Types, NEW id \in SocketIds, NEW x \in Seq(Packages), NEW y \in Seq(Packages),
         AppendTo(id, x, y)
  PROVE  \E t \in Sockets :
           /\ slot' = [slot EXCEPT ![Hash(id)] = t]
           /\ t.type = slot[Hash(id)].type /\ t.id = slot[Hash(id)].id
           /\ t.high = slot[Hash(id)].high \o x /\ t.low = slot[Hash(id)].low \o y
<1>1. PICK n \in Slots : n = Hash(id)
  BY Numbers
<1>2. slot \in [Slots -> Sockets] /\ slot[n] \in Sockets
  BY DEF Types
<1>3. PICK h, low : h = slot[n].high \o x /\ low = slot[n].low \o y
  OBVIOUS
<1>4. h \in Seq(Packages) /\ low \in Seq(Packages)
  <2>1. slot[n].high \in Seq(Packages) /\ slot[n].low \in Seq(Packages)
    BY <1>2 DEF Sockets
  <2> QED
    BY <1>3, <2>1, Joined
<1>5. PICK t : t = [slot[n] EXCEPT !.high = h, !.low = low]
  OBVIOUS
<1>6. /\ t \in Sockets /\ t.type = slot[n].type /\ t.id = slot[n].id
      /\ t.high = h /\ t.low = low
  BY <1>2, <1>4, <1>5 DEF Sockets
<1>7. slot' = [slot EXCEPT ![n].high = @ \o x, ![n].low = @ \o y]
  BY <1>1 DEF AppendTo
<1>8. slot' = [slot EXCEPT ![n] = t]
  BY <1>2, <1>3, <1>5, <1>7 DEF Sockets
<1> QED
  BY <1>1, <1>3, <1>6, <1>8

(* A package is taken by a connection.                                      *)
LEMMA TakenServed ==
  ASSUME NEW m \in Requests, Ready2Serve(m), m.cmd \in {"D", "P"}, Live(m.id),
         Type(m.id) \in {"CONNECTING", "CONNECTED"},
         NEW x \in Seq(Packages), NEW y \in Seq(Packages), NEW w \in Seq(Packages),
         WholeStream(w \o (slot[Hash(m.id)].high \o x), slot[Hash(m.id)].low \o y,
                     taken[m.id] \cup {m.p}),
         AppendTo(m.id, x, y), Take(m.id, m.p),
         wire' = [wire EXCEPT ![m.id] = w],
         clearing' = 0, aborted' = aborted, cut' = cut, told' = told
  PROVE  Served(m)
<1>1. PICK id \in SocketIds : id = m.id
  BY RequestFields
<1>2. Types /\ SlotsInv /\ EventsInv /\ StreamsInv
  BY DEF Ready2Serve
<1>3. PICK t \in Sockets :
           /\ slot' = [slot EXCEPT ![Hash(id)] = t]
           /\ t.type = slot[Hash(id)].type /\ t.id = slot[Hash(id)].id
           /\ t.high = slot[Hash(id)].high \o x /\ t.low = slot[Hash(id)].low \o y
  BY <1>1, <1>2, AppendDone
<1>4. PICK ps : ps = taken[id] \cup {m.p}
  OBVIOUS
<1>5. ps \in SUBSET Packages
  BY <1>1, <1>2, <1>4, AtId, RequestFields
<1>6. WholeStream(w \o t.high, t.low, ps)
  BY <1>1, <1>3, <1>4
<1>7. t.id = id /\ t.type \in {"CONNECTING", "CONNECTED"}
  BY <1>1, <1>3, NotLive
<1>8. Sound(id, t, w, ps, told[id], FALSE)
  BY <1>1, <1>2, <1>3, <1>5, <1>6, <1>7, WrittenSound DEF Using
<1>9. taken' = [taken EXCEPT ![id] = ps]
  BY <1>1, <1>2, <1>4 DEF Take, Types
<1>10. Effect(id, t, w, ps, told[id], FALSE)
  BY <1>1, <1>2, <1>3, <1>9, ExceptSame DEF Effect
<1>11. aborted' \in {"no", "send_buffer", "force_close", "new_fd"} /\ clearing' \in 0 .. MaxIds
  BY <1>2, Numbers DEF Types
<1>12. slot[Hash(id)].type # "RESERVE"
  BY <1>3, <1>7
<1>13. ServedAs(m, t, w, ps, told[id], FALSE)
  BY <1>1, <1>4, <1>7, <1>8, <1>10, <1>11, <1>12 DEF ServedAs
<1> QED
  BY <1>13 DEF Served

(* A package gets into a slot that is reserved.                             *)
LEMMA LostServed ==
  ASSUME NEW m \in Requests, Ready2Serve(m), Has(m.id), Type(m.id) = "RESERVE",
         NEW x \in Seq(Packages), NEW y \in Seq(Packages),
         AppendTo(m.id, x, y), Take(m.id, m.p), wire' = wire,
         clearing' = 0, aborted' = aborted, cut' = cut, told' = told
  PROVE  Served(m)
<1>1. PICK id \in SocketIds : id = m.id
  BY RequestFields
<1>2. Types /\ SlotsInv /\ EventsInv /\ StreamsInv
  BY DEF Ready2Serve
<1>3. PICK t \in Sockets :
           /\ slot' = [slot EXCEPT ![Hash(id)] = t]
           /\ t.type = slot[Hash(id)].type /\ t.id = slot[Hash(id)].id
  BY <1>1, <1>2, AppendDone
<1>4. slot[Hash(id)].type = "RESERVE"
  BY <1>1 DEF Type
<1>5. ~InUse(Hash(id)) /\ ~Using(t)
  BY <1>3, <1>4 DEF InUse, Using
<1>6. PICK z \in SUBSET {"close"} : z = {}
  OBVIOUS
<1>7. told[id] \cup z = told[id]
  BY <1>6
<1>8. Sound(id, t, wire[id], taken[id], told[id] \cup z, FALSE)
  BY <1>2, <1>5, FreeSound
<1>9. taken' = taken
  BY DEF Take
<1>10. Effect(id, t, wire[id], taken[id], told[id], FALSE)
  BY <1>1, <1>2, <1>3, <1>9, ExceptSame DEF Effect
<1>11. aborted' \in {"no", "send_buffer", "force_close", "new_fd"} /\ clearing' \in 0 .. MaxIds
  BY <1>2, Numbers DEF Types
<1>12. ServedAs(m, t, wire[id], taken[id], told[id], FALSE)
  BY <1>1, <1>3, <1>4, <1>7, <1>8, <1>10, <1>11 DEF ServedAs
<1> QED
  BY <1>12 DEF Served

(* A package in the pipe is younger than all that were taken for its id.    *)
LEMMA Younger ==
  ASSUME NEW m \in Requests, Ready2Serve(m), m.cmd \in {"D", "P"}
  PROVE  /\ m.p \in Packages /\ m.p \notin taken[m.id]
         /\ \A q \in taken[m.id] : q.no <= m.p.no
<1>1. /\ Types /\ StreamsInv /\ pipe # <<>> /\ m = Head(pipe) /\ m.id \in SocketIds
      /\ m.p \in Packages
  BY RequestFields DEF Ready2Serve
<1>2. 1 \in DOMAIN pipe /\ pipe[1] = m
  BY <1>1, PipeTaken
<1>3. Sends(1)
  BY <1>2 DEF Sends
<1>4. \A q \in taken[m.id] : q.no < m.p.no
  BY <1>1, <1>2, <1>3 DEF StreamsInv, Numbered
<1>5. taken[m.id] \subseteq Packages
  BY <1>1 DEF Types
<1>6. m.p.no \in Nat /\ \A q \in taken[m.id] : q.no \in Nat
  BY <1>1, <1>5, Numbers DEF Packages
<1> QED
  BY <1>1, <1>4, <1>6

LEMMA SendServed ==
  ASSUME NEW m \in Requests, Ready2Serve(m), m.cmd \in {"D", "P"}, send_socket(m)
  PROVE  Served(m)
<1>1. Types /\ SlotsInv /\ EventsInv /\ StreamsInv /\ m.id \in SocketIds
  BY RequestFields DEF Ready2Serve
<1>2. PICK s \in Sockets, w \in Seq(Packages), p \in Packages,
                ps \in SUBSET Packages :
           s = slot[Hash(m.id)] /\ w = wire[m.id] /\ p = m.p /\ ps = taken[m.id]
  BY <1>1, AtId, Younger
<1>3. p \notin ps /\ \A q \in ps : q.no <= p.no
  BY <1>2, Younger
<1>4. Units(p) \in Seq(Packages) /\ Len(Units(p)) = PackageSize /\ <<>> \in Seq(Packages)
  BY Unit
<1>5. s.high \in Seq(Packages) /\ s.low \in Seq(Packages) /\ s.type \in SocketTypes
  BY DEF Sockets
<1>6. s.high \o <<>> = s.high /\ s.low \o <<>> = s.low
  BY <1>5, Nil
<1>7. CASE Refused(m.id)
  BY <1>7, IdleServed DEF send_socket
<1>8. ASSUME ~Refused(m.id)
      PROVE  /\ Has(m.id) /\ s.id = m.id /\ Type(m.id) = s.type
             /\ \/ s.type = "RESERVE"
                \/ Live(m.id) /\ s.type \in {"CONNECTING", "CONNECTED"}
  <2>1. Has(m.id) /\ s.type \notin {"HALFCLOSE", "PACCEPT", "PLISTEN", "LISTEN"}
    BY <1>2, <1>8, NotLive DEF Refused
  <2>2. s.type # "INVALID" /\ s.id = m.id /\ Type(m.id) = s.type
        /\ (Live(m.id) \/ s.type = "RESERVE")
    BY <1>2, <2>1, NotLive
  <2>3. s.type \in {"RESERVE", "CONNECTING", "CONNECTED"}
    BY <1>5, <2>1, <2>2 DEF SocketTypes
  <2>4. s.type = "RESERVE" \/ (Live(m.id) /\ s.type \in {"CONNECTING", "CONNECTED"})
    BY <2>2, <2>3
  <2> QED
    BY <2>1, <2>2, <2>4
<1>9. CASE ~Refused(m.id) /\ Buffered(s) = <<>> /\ s.type = "CONNECTED"
  <2>1. Live(m.id) /\ Type(m.id) = "CONNECTED"
    BY <1>8, <1>9
  <2>2. CASE Fails(m.id)
    BY <2>1, <2>2, FailsServed
  <2>3. ASSUME NEW k \in 0 .. PackageSize,
               wire' = [wire EXCEPT ![s.id] = @ \o SubSeq(Units(m.p), 1, k)],
               AppendTo(m.id, SubSeq(Units(m.p), k + 1, PackageSize), <<>>),
               Take(m.id, m.p), clearing' = 0, UNCHANGED <<aborted, cut, told>>
        PROVE  Served(m)
    <3>1. PICK a, x : a = SubSeq(Units(p), 1, k) /\ x = SubSeq(Units(p), k + 1, PackageSize)
      OBVIOUS
    <3>2. a \in Seq(Packages) /\ x \in Seq(Packages)
      <4>1. k \in 0 .. Len(Units(p))
        BY <1>4, <2>3
      <4> QED
        BY <1>4, <3>1, <4>1, InTwo
    <3>3. w \o a \in Seq(Packages)
      BY <3>2, Joined
    <3>4. WholeStream(w \o s.high, s.low, ps)
      BY <1>1, <1>2, <2>1, AtId
    <3>5. WholeStream((w \o a) \o (s.high \o x), s.low, ps \cup {p})
      <4>1. s.high \o s.low = <<>>
        BY <1>9 DEF Buffered
      <4> QED
        BY <1>3, <1>5, <2>3, <3>1, <3>4, <4>1, TakenWhole
    <3>6. wire' = [wire EXCEPT ![m.id] = w \o a]
      <4>1. wire' = [wire EXCEPT ![m.id] = @ \o a]
        BY <1>2, <1>8, <1>9, <2>3, <3>1
      <4>2. wire \in [SocketIds -> Seq(Packages)]
        BY <1>1 DEF Types
      <4> QED
        BY <1>1, <1>2, <4>1, <4>2
    <3>7. AppendTo(m.id, x, <<>>)
      BY <1>2, <2>3, <3>1
    <3>8. WholeStream((w \o a) \o (slot[Hash(m.id)].high \o x),
                      slot[Hash(m.id)].low \o <<>>, taken[m.id] \cup {m.p})
      BY <1>2, <1>6, <3>5, Zenon
    <3>9. Type(m.id) \in {"CONNECTING", "CONNECTED"}
      BY <2>1
    <3> QED
      BY <1>4, <2>1, <2>3, <3>2, <3>3, <3>6, <3>7, <3>8, <3>9, TakenServed
  <2>4. \/ Fails(m.id)
        \/ \E k \in 0 .. PackageSize :
             /\ wire' = [wire EXCEPT ![s.id] = @ \o SubSeq(Units(m.p), 1, k)]
             /\ AppendTo(m.id, SubSeq(Units(m.p), k + 1, PackageSize), <<>>)
             /\ Take(m.id, m.p)
             /\ clearing' = 0
             /\ UNCHANGED <<aborted, cut, told>>
    <3>1. slot[Hash(m.id)] = s
      BY <1>2
    <3> HIDE <1>2
    <3> QED
      BY <1>9, <3>1, Zenon DEF send_socket
  <2> QED
    BY <2>2, <2>3, <2>4
<1>10. CASE ~Refused(m.id) /\ ~(Buffered(s) = <<>> /\ s.type = "CONNECTED")
  <2>1. PICK x \in Seq(Packages), y \in Seq(Packages) :
          /\ x = IF p.low THEN <<>> ELSE Units(p)
          /\ y = IF p.low THEN Units(p) ELSE <<>>
    BY <1>4
  <2>2. /\ AppendTo(m.id, x, y) /\ Take(m.id, m.p)
        /\ clearing' = 0 /\ aborted' = aborted /\ wire' = wire /\ cut' = cut
        /\ told' = told
    BY <1>2, <1>10, <2>1 DEF send_socket
  <2>3. CASE s.type = "RESERVE"
    BY <1>8, <1>10, <2>2, <2>3, LostServed
  <2>4. CASE Live(m.id) /\ s.type \in {"CONNECTING", "CONNECTED"}
    <3>1. WholeStream(w \o s.high, s.low, ps)
      BY <1>1, <1>2, <2>4, AtId
    <3>2. p.low \in BOOLEAN
      BY DEF Packages
    <3>3. WholeStream(w \o (s.high \o x), s.low \o y, ps \cup {p})
      <4>1. CASE p.low
        <5>1. WholeStream(w \o s.high, s.low \o Units(p), ps \cup {p})
          BY <1>3, <1>5, <3>1, <4>1, TakenWhole
        <5> QED
          BY <1>6, <2>1, <4>1, <5>1
      <4>2. CASE ~p.low
        <5>1. WholeStream(w \o (s.high \o Units(p)), s.low, ps \cup {p})
          BY <1>3, <1>5, <3>1, <4>2, TakenWhole
        <5> QED
          BY <1>6, <2>1, <4>2, <5>1
      <4> QED
        BY <4>1, <4>2
    <3>4. WholeStream(w \o (slot[Hash(m.id)].high \o x),
                      slot[Hash(m.id)].low \o y, taken[m.id] \cup {m.p})
      BY <1>2, <3>3, Zenon
    <3>5. wire' = [wire EXCEPT ![m.id] = w]
      BY <1>1, <1>2, <2>2, ExceptSame
    <3>6. Type(m.id) \in {"CONNECTING", "CONNECTED"}
      BY <1>8, <1>10, <2>4
    <3> QED
      BY <2>2, <2>4, <3>4, <3>5, <3>6, TakenServed
  <2> QED
    BY <1>8, <1>10, <2>3, <2>4
<1> QED
  BY <1>7, <1>9, <1>10

LEMMA ServeServed ==
  ASSUME NEW m \in Requests, Ready2Serve(m), Serve(m)
  PROVE  Served(m)
<1>1. m.cmd \in {"O", "L", "S", "K", "D", "P"}
  BY RequestFields
<1>2. CASE m.cmd = "O"
  BY <1>2, OpenServed DEF Serve
<1>3. CASE m.cmd = "L"
  BY <1>3, OpenServed DEF Serve
<1>4. CASE m.cmd = "S"
  BY <1>4, StartServed DEF Serve
<1>5. CASE m.cmd = "K"
  BY <1>5, CloseServed DEF Serve
<1>6. CASE m.cmd \in {"D", "P"}
  BY <1>6, SendServed DEF Serve
<1> QED
  BY <1>1, <1>2, <1>3, <1>4, <1>5, <1>6

-----------------------------------------------------------------------------
(* The inductive invariant.                                                 *)
SocketInv == Types /\ Limits /\ SlotsInv /\ EventsInv /\ StreamsInv

(* Of a step of the socket thread that takes the first request.             *)
LEMMA PipeShifted ==
  ASSUME Types, pipe # <<>>, pipe' = Tail(pipe)
  PROVE  /\ \A i \in Nat : \A d : Opens(i, d)' => Opens(i + 1, d)
         /\ \A i \in Nat : Sends(i)' =>
              i + 1 \in Nat /\ Sends(i + 1) /\ pipe'[i] = pipe[i + 1]
         /\ \A i \in DOMAIN pipe' :
              i \in Nat \ {0} /\ i + 1 \in DOMAIN pipe /\ pipe'[i] = pipe[i + 1]
         /\ pipe' \in Seq(Requests) /\ Len(pipe') = Len(pipe) - 1 /\ Len(pipe) \in Nat
<1>1. \A i \in DOMAIN pipe' :
        i \in Nat \ {0} /\ i + 1 \in DOMAIN pipe /\ pipe'[i] = pipe[i + 1]
  BY DEF Types
<1>2. pipe' \in Seq(Requests) /\ Len(pipe') = Len(pipe) - 1 /\ Len(pipe) \in Nat
  BY PipeTaken
<1>3. ASSUME NEW i \in Nat, NEW d, Opens(i, d)'
      PROVE  Opens(i + 1, d)
  BY <1>1, <1>3 DEF Opens
<1>4. ASSUME NEW i \in Nat, Sends(i)'
      PROVE  i + 1 \in Nat /\ Sends(i + 1) /\ pipe'[i] = pipe[i + 1]
  BY <1>1, <1>4 DEF Sends
<1> QED
  BY <1>1, <1>2, <1>3, <1>4

LEMMA ServedSlots ==
  ASSUME SocketInv, NEW m, pipe # <<>>, m = Head(pipe), NEW t, NEW w, NEW ps, NEW r,
         NEW c, ServedAs(m, t, w, ps, r, c), pipe' = Tail(pipe),
         reserving' = reserving, known' = known, alloc_id' = alloc_id
  PROVE  ReservedOnce' /\ ReservedSlots' /\ OpensFirst'
<1>1. /\ Types /\ ReservedOnce /\ ReservedSlots /\ OpensFirst
  BY DEF SocketInv, SlotsInv
<1>2. /\ \A i \in Nat : \A d : Opens(i, d)' => Opens(i + 1, d)
      /\ \A i \in DOMAIN pipe' :
           i \in Nat \ {0} /\ i + 1 \in DOMAIN pipe /\ pipe'[i] = pipe[i + 1]
  BY <1>1, PipeShifted
<1>3. m \in Requests /\ m = pipe[1] /\ 1 \in DOMAIN pipe
  BY <1>1, PipeTaken
<1>4. PICK id \in SocketIds : id = m.id
  BY <1>3, RequestFields
<1>5. \A u, d : Reserving(u, d)' = Reserving(u, d)
  BY DEF Reserving
<1>6. /\ slot'[Hash(id)] = t
      /\ \A n \in Slots : n # Hash(id) => slot'[n] = slot[n]
  BY <1>1, <1>4, EffectThere DEF ServedAs
<1>7. \A d \in SocketIds : Hash(d) \in Slots
  BY Numbers
<1>8. m.cmd \in {"O", "L"} => Opens(1, id)
  BY <1>3, <1>4 DEF Opens
<1>9. ReservedOnce'
  <2> SUFFICES ASSUME NEW d \in SocketIds, NEW f \in SocketIds, Hash(d) = Hash(f)
               PROVE  /\ \A u, v \in Users : Reserving(u, d)' /\ Reserving(v, f)' => u = v
                      /\ \A u \in Users, i \in Nat : ~(Reserving(u, d)' /\ Opens(i, f)')
                      /\ \A i, j \in Nat : Opens(i, d)' /\ Opens(j, f)' => i = j
    BY DEF ReservedOnce
  <2>1. /\ \A u, v \in Users : Reserving(u, d) /\ Reserving(v, f) => u = v
        /\ \A u \in Users, i \in Nat : ~(Reserving(u, d) /\ Opens(i, f))
        /\ \A i, j \in Nat : Opens(i, d) /\ Opens(j, f) => i = j
    BY <1>1 DEF ReservedOnce
  <2>2. ASSUME NEW u \in Users, NEW i \in Nat, Reserving(u, d)', Opens(i, f)'
        PROVE  FALSE
    <3>1. Opens(i + 1, f) /\ i + 1 \in Nat
      BY <1>2, <2>2
    <3> QED
      BY <1>5, <2>1, <2>2, <3>1
  <2>3. ASSUME NEW i \in Nat, NEW j \in Nat, Opens(i, d)', Opens(j, f)'
        PROVE  i = j
    <3>1. Opens(i + 1, d) /\ Opens(j + 1, f) /\ i + 1 \in Nat /\ j + 1 \in Nat
      BY <1>2, <2>3
    <3>2. i + 1 = j + 1
      BY <2>1, <3>1
    <3> QED
      BY <3>2
  <2> QED
    BY <1>5, <2>1, <2>2, <2>3
<1>10. ReservedSlots'
  <2>1. ASSUME NEW d \in SocketIds, slot[Hash(d)].type = "RESERVE",
               \A i \in Nat, f \in SocketIds : Opens(i, f) /\ Hash(f) = Hash(d) => i # 1
        PROVE  slot'[Hash(d)].type = "RESERVE" /\ slot'[Hash(d)].id = slot[Hash(d)].id
    <3>1. CASE Hash(d) # Hash(id)
      BY <1>6, <1>7, <2>1, <3>1
    <3>2. CASE Hash(d) = Hash(id)
      <4>1. ~Opens(1, id)
        BY <2>1, <3>2
      <4>2. t.type = "RESERVE" /\ t.id = slot[Hash(id)].id
        BY <1>4, <1>8, <2>1, <3>2, <4>1 DEF ServedAs
      <4> QED
        BY <1>6, <3>2, <4>2
    <3> QED
      BY <3>1, <3>2
  <2>2. ASSUME NEW d \in SocketIds, NEW u \in Users, Reserving(u, d)'
        PROVE  slot'[Hash(d)].type = "RESERVE" /\ d <= alloc_id' /\ d \notin known'
    <3>1. Reserving(u, d)
      BY <1>5, <2>2
    <3>2. slot[Hash(d)].type = "RESERVE" /\ d <= alloc_id /\ d \notin known
      BY <1>1, <3>1 DEF ReservedSlots
    <3>3. ASSUME NEW i \in Nat, NEW f \in SocketIds, Opens(i, f), Hash(f) = Hash(d)
          PROVE  FALSE
      BY <1>1, <3>1, <3>3 DEF ReservedOnce
    <3> QED
      BY <2>1, <3>2, <3>3
  <2>3. ASSUME NEW d \in SocketIds, NEW i \in Nat, Opens(i, d)'
        PROVE  slot'[Hash(d)].type = "RESERVE" /\ slot'[Hash(d)].id = d
    <3>1. Opens(i + 1, d) /\ i + 1 \in Nat /\ i \in Nat \ {0}
      BY <1>2, <2>3 DEF Opens
    <3>2. slot[Hash(d)].type = "RESERVE" /\ slot[Hash(d)].id = d
      BY <1>1, <3>1 DEF ReservedSlots
    <3>3. ASSUME NEW j \in Nat, NEW f \in SocketIds, Opens(j, f), Hash(f) = Hash(d), j = 1
          PROVE  FALSE
      <4>1. j = i + 1
        BY <1>1, <3>1, <3>3 DEF ReservedOnce
      <4> QED
        BY <3>1, <3>3, <4>1
    <3> QED
      BY <2>1, <3>2, <3>3
  <2> QED
    BY <2>2, <2>3 DEF ReservedSlots
<1>11. OpensFirst'
  <2>1. \A i \in DOMAIN pipe' : pipe'[i].id \in known'
    BY <1>1, <1>2 DEF OpensFirst
  <2>2. ASSUME NEW i \in DOMAIN pipe', NEW j \in DOMAIN pipe', Opens(i, pipe[j].id)'
        PROVE  i <= j
    <3>1. /\ Opens(i + 1, pipe[j + 1].id) /\ i + 1 \in DOMAIN pipe /\ j + 1 \in DOMAIN pipe
          /\ i \in Nat /\ j \in Nat
      <4>1. /\ i \in Nat /\ j \in Nat /\ i + 1 \in DOMAIN pipe /\ j + 1 \in DOMAIN pipe
            /\ pipe'[i] = pipe[i + 1] /\ pipe'[j] = pipe[j + 1]
        BY <1>2, <2>2
      <4>2. pipe'[i].cmd \in {"O", "L"} /\ pipe'[i].id = pipe'[j].id
        BY <2>2 DEF Opens
      <4>3. Opens(i + 1, pipe[j + 1].id)
        BY <4>1, <4>2 DEF Opens
      <4> QED
        BY <4>1, <4>3
    <3>2. i + 1 <= j + 1
      BY <1>1, <3>1 DEF OpensFirst
    <3> QED
      BY <3>1, <3>2
  <2> QED
    BY <2>1, <2>2 DEF OpensFirst
<1> QED
  BY <1>9, <1>10, <1>11

LEMMA ServedUnborn ==
  ASSUME Types, SlotsInv, pipe # <<>>, pipe' = Tail(pipe), known' = known,
         NEW id, id = Head(pipe).id
  PROVE  /\ id \in known /\ ~Unborn(id)'
         /\ \A d \in SocketIds : Unborn(d)' => Unborn(d)
<1>1. /\ \A i \in Nat : \A d : Opens(i, d)' => Opens(i + 1, d)
      /\ \A i \in Nat : i + 1 \in Nat
  BY PipeShifted
<1>2. id = pipe[1].id /\ 1 \in DOMAIN pipe
  BY PipeTaken
<1>3. id \in known
  BY <1>2 DEF SlotsInv, OpensFirst
<1>4. ASSUME NEW i \in Nat, Opens(i, id)'
      PROVE  FALSE
  <2>1. i \in DOMAIN pipe' /\ i + 1 \in DOMAIN pipe /\ i >= 1 /\ Opens(i + 1, id)
    BY <1>1, <1>4, PipeShifted DEF Opens
  <2>2. Opens(i + 1, pipe[1].id)
    BY <1>2, <2>1
  <2>3. i + 1 <= 1
    BY <1>2, <2>1, <2>2 DEF SlotsInv, OpensFirst
  <2> QED
    BY <2>1, <2>3
<1>5. \A d \in SocketIds : Unborn(d)' => Unborn(d)
  BY <1>1 DEF Unborn
<1> QED
  BY <1>3, <1>4, <1>5 DEF Unborn

LEMMA ServedNumbered ==
  ASSUME SocketInv, NEW m, pipe # <<>>, m = Head(pipe), NEW t, NEW w, NEW ps, NEW r,
         NEW c, ServedAs(m, t, w, ps, r, c), pipe' = Tail(pipe), packages' = packages
  PROVE  Numbered'
<1>1. Types /\ Numbered
  BY DEF SocketInv, StreamsInv
<1>2. m \in Requests /\ m = pipe[1] /\ 1 \in DOMAIN pipe
  BY <1>1, PipeTaken
<1>3. PICK id \in SocketIds : id = m.id
  BY <1>2, RequestFields
<1>4. /\ taken'[id] = ps
      /\ \A d \in SocketIds : d # id => taken'[d] = taken[d]
  BY <1>1, <1>3, EffectThere DEF ServedAs
<1>5. m.cmd \in {"D", "P"} => Sends(1)
  BY <1>2 DEF Sends
<1>6. \A d \in SocketIds : \A p \in taken'[d] :
        p \in taken[d] \/ (Sends(1) /\ d = id /\ p = pipe[1].p)
  BY <1>2, <1>3, <1>4, <1>5 DEF ServedAs
<1>7. \A i \in Nat : Sends(i)' =>
        i + 1 \in Nat /\ Sends(i + 1) /\ pipe'[i] = pipe[i + 1] /\ 1 < i + 1
  <2>1. \A i \in Nat : Sends(i)' => i \in DOMAIN pipe'
    BY DEF Sends
  <2>2. \A i \in Nat : Sends(i)' =>
          i + 1 \in Nat /\ Sends(i + 1) /\ pipe'[i] = pipe[i + 1]
    BY <1>1, PipeShifted
  <2>3. \A i \in DOMAIN pipe' : i \in Nat \ {0}
    BY <1>1, PipeShifted
  <2> QED
    BY <2>1, <2>2, <2>3
<1>8. ASSUME NEW i \in Nat, Sends(i)'
      PROVE  /\ pipe'[i].p.to = pipe'[i].id /\ pipe'[i].p.no <= packages'
             /\ \A j \in Nat : Sends(j)' /\ i < j => pipe'[i].p.no < pipe'[j].p.no
             /\ \A d \in SocketIds : \A p \in taken'[d] : p.no < pipe'[i].p.no
  <2>1. i + 1 \in Nat /\ Sends(i + 1) /\ pipe'[i] = pipe[i + 1] /\ 1 < i + 1
    BY <1>7, <1>8
  <2>2. /\ pipe[i + 1].p.to = pipe[i + 1].id /\ pipe[i + 1].p.no <= packages
        /\ \A j \in Nat : Sends(j) /\ i + 1 < j => pipe[i + 1].p.no < pipe[j].p.no
        /\ \A d \in SocketIds : \A p \in taken[d] : p.no < pipe[i + 1].p.no
    BY <1>1, <2>1 DEF Numbered
  <2>3. ASSUME NEW j \in Nat, Sends(j)', i < j
        PROVE  pipe'[i].p.no < pipe'[j].p.no
    <3>1. j + 1 \in Nat /\ Sends(j + 1) /\ pipe'[j] = pipe[j + 1]
      BY <1>7, <2>3
    <3>2. i + 1 < j + 1
      BY <2>3
    <3>3. pipe[i + 1].p.no < pipe[j + 1].p.no
      BY <2>2, <3>1, <3>2
    <3> QED
      BY <2>1, <3>1, <3>3, Zenon
  <2>4. ASSUME NEW d \in SocketIds, NEW p \in taken'[d]
        PROVE  p.no < pipe'[i].p.no
    <3>1. CASE p \in taken[d]
      BY <2>1, <2>2, <3>1
    <3>2. CASE Sends(1) /\ p = pipe[1].p
      <4>1. pipe[1].p.no < pipe[i + 1].p.no
        BY <1>1, <2>1, <3>2 DEF Numbered
      <4> QED
        BY <2>1, <3>2, <4>1
    <3> QED
      BY <1>6, <2>4, <3>1, <3>2
  <2> QED
    BY <2>1, <2>2, <2>3, <2>4
<1>9. ASSUME NEW d \in SocketIds, NEW p \in taken'[d]
      PROVE  p.to = d /\ p.no <= packages'
  <2>1. CASE p \in taken[d]
    BY <1>1, <2>1 DEF Numbered
  <2>2. CASE Sends(1) /\ d = id /\ p = pipe[1].p
    BY <1>1, <1>2, <1>3, <2>2 DEF Numbered
  <2> QED
    BY <1>6, <1>9, <2>1, <2>2
<1> QED
  BY <1>8, <1>9 DEF Numbered

LEMMA ctrl_cmdStep ==
  ASSUME SocketInv, ctrl_cmd
  PROVE  SocketInv'
<1>1. Types /\ Limits /\ SlotsInv /\ EventsInv /\ StreamsInv
  BY DEF SocketInv
<1>2. PICK m \in Requests : m = Head(pipe) /\ pipe # <<>> /\ Serve(m) /\ Thread
  BY <1>1, PipeTaken DEF ctrl_cmd
<1>3. Ready2Serve(m)
  BY <1>1, <1>2 DEF Ready2Serve
<1>4. PICK t, w, ps, r, c : ServedAs(m, t, w, ps, r, c)
  BY <1>2, <1>3, ServeServed DEF Served
<1>5. /\ pipe' = Tail(pipe) /\ checkctrl' = checkctrl /\ ev' = ev
      /\ alloc_id' = alloc_id /\ reserving' = reserving /\ known' = known
      /\ packages' = packages
  BY DEF ctrl_cmd, userVars
<1>6. PICK id \in SocketIds : id = m.id
  BY <1>2, RequestFields
<1>7. Effect(id, t, w, ps, r, c) /\ Sound(id, t, w, ps, r, c)
  BY <1>4, <1>6 DEF ServedAs
<1>8. /\ slot' \in [Slots -> Sockets]
      /\ wire' \in [SocketIds -> Seq(Packages)]
      /\ taken' \in [SocketIds -> SUBSET Packages]
      /\ told' \in [SocketIds -> SUBSET {"open", "data", "close"}]
      /\ cut' \subseteq SocketIds
      /\ slot'[Hash(id)] = t
      /\ \A n \in Slots : n # Hash(id) => slot'[n] = slot[n]
  BY <1>1, <1>7, EffectThere
<1>9. Types'
  <2>1. pipe' \in Seq(Requests)
    BY <1>1, <1>2, <1>5, PipeTaken
  <2>2. /\ aborted' \in {"no", "send_buffer", "force_close", "new_fd"}
        /\ clearing' \in 0 .. MaxIds
    BY <1>4 DEF ServedAs
  <2> QED
    BY <1>1, <1>5, <1>8, <2>1, <2>2 DEF Types
<1>10. Limits'
  <2>1. Len(pipe') = Len(pipe) - 1 /\ Len(pipe) \in Nat /\ MaxPipe \in Nat
    BY <1>1, <1>2, <1>5, PipeTaken, Numbers
  <2> QED
    BY <1>1, <1>5, <2>1 DEF Limits
<1>11. /\ id \in known /\ ~Unborn(id)'
       /\ \A d \in SocketIds : Unborn(d)' => Unborn(d)
  BY <1>1, <1>2, <1>5, <1>6, ServedUnborn
<1>12. /\ UsedByItsId' /\ ConnectedIsOpen' /\ DataAfterOpen'
       /\ \A d \in SocketIds : StreamInv(d)'
  BY <1>1, <1>5, <1>7, <1>11, EffectKeeps
<1>13. SlotsInv'
  <2>1. ReservedOnce' /\ ReservedSlots' /\ OpensFirst'
    BY <1>2, <1>4, <1>5, ServedSlots
  <2> QED
    BY <1>12, <2>1 DEF SlotsInv
<1>14. EventsInv'
  <2>1. OneEventEach'
    BY <1>1, <1>5 DEF EventsInv, OneEventEach
  <2>2. ASSUME NEW e \in ev
        PROVE  /\ slot'[e.s].type = "INVALID" => clearing' # 0 /\ slot'[e.s].id = clearing'
               /\ slot'[e.s].type # "PACCEPT"
    <3>1. slot[e.s].type # "INVALID" /\ slot[e.s].type # "PACCEPT" /\ e.s \in Slots
      BY <1>1, <1>2 DEF EventsInv, EventsLeft, Thread, Types
    <3>2. CASE e.s # Hash(id)
      BY <1>8, <3>1, <3>2
    <3>3. CASE e.s = Hash(id)
      <4>1. /\ t.type = "INVALID" => clearing' = id /\ t.id = id
            /\ t.type # "PACCEPT"
        BY <1>4, <1>6, <3>1, <3>3 DEF ServedAs
      <4>2. id # 0
        BY Numbers
      <4> QED
        BY <1>8, <3>3, <4>1, <4>2
    <3> QED
      BY <3>2, <3>3
  <2>3. EventsLeft'
    BY <1>5, <2>2 DEF EventsLeft
  <2> QED
    BY <1>12, <2>1, <2>3 DEF EventsInv
<1>15. StreamsInv'
  <2>1. Numbered'
    BY <1>2, <1>4, <1>5, ServedNumbered
  <2> QED
    BY <1>12, <2>1 DEF StreamsInv
<1> QED
  BY <1>9, <1>10, <1>13, <1>14, <1>15 DEF SocketInv

-----------------------------------------------------------------------------
(* Steps that leave the requests alone, or the sockets.                     *)
LEMMA SameRequests ==
  ASSUME SocketInv, pipe' = pipe, reserving' = reserving, packages' = packages,
         taken' = taken, alloc_id' \in Nat, alloc_id <= alloc_id', known \subseteq known',
         \A d \in known' : d \in known \/ d > alloc_id,
         \A n \in Slots : slot[n].type = "RESERVE" =>
           slot'[n].type = "RESERVE" /\ slot'[n].id = slot[n].id
  PROVE  /\ ReservedOnce' /\ ReservedSlots' /\ OpensFirst' /\ Numbered'
         /\ \A d \in SocketIds : Unborn(d)' => Unborn(d)
<1>1. Types /\ ReservedOnce /\ ReservedSlots /\ OpensFirst /\ Numbered
  BY DEF SocketInv, SlotsInv, StreamsInv
<1>2. /\ \A i, d : Opens(i, d)' = Opens(i, d)
      /\ \A u, d : Reserving(u, d)' = Reserving(u, d)
      /\ \A i : Sends(i)' = Sends(i)
  BY DEF Opens, Reserving, Sends
<1>3. ReservedOnce'
  BY <1>1, <1>2 DEF ReservedOnce
<1>4. ReservedSlots'
  <2>1. \A d \in SocketIds : Hash(d) \in Slots /\ d \in Nat
    BY Numbers
  <2>2. alloc_id \in Nat
    BY <1>1, Numbers DEF Types
  <2>3. ASSUME NEW d \in SocketIds, NEW u \in Users, Reserving(u, d)
        PROVE  slot'[Hash(d)].type = "RESERVE" /\ d <= alloc_id' /\ d \notin known'
    <3>1. slot[Hash(d)].type = "RESERVE" /\ d <= alloc_id /\ d \notin known
      BY <1>1, <2>3 DEF ReservedSlots
    <3> QED
      BY <2>1, <2>2, <3>1
  <2>4. ASSUME NEW d \in SocketIds, NEW i \in Nat, Opens(i, d)
        PROVE  slot'[Hash(d)].type = "RESERVE" /\ slot'[Hash(d)].id = d
    <3>1. slot[Hash(d)].type = "RESERVE" /\ slot[Hash(d)].id = d
      BY <1>1, <2>4 DEF ReservedSlots
    <3> QED
      BY <2>1, <3>1
  <2> QED
    BY <1>2, <2>3, <2>4 DEF ReservedSlots
<1>5. OpensFirst'
  <2>1. \A i \in DOMAIN pipe' : pipe'[i].id \in known'
    BY <1>1 DEF OpensFirst
  <2>2. \A i, j \in DOMAIN pipe : Opens(i, pipe[j].id) => i <= j
    BY <1>1 DEF OpensFirst
  <2>3. \A i, j \in DOMAIN pipe' : Opens(i, pipe[j].id)' => i <= j
    BY <2>2 DEF Opens
  <2> QED
    BY <2>1, <2>3 DEF OpensFirst
<1>6. Numbered'
  BY <1>1, <1>2 DEF Numbered
<1>7. \A d \in SocketIds : Unborn(d)' => Unborn(d)
  BY <1>2 DEF Unborn
<1> QED
  BY <1>3, <1>4, <1>5, <1>6, <1>7

LEMMA UnchangedKeeps ==
  ASSUME SocketInv, slot' = slot, UNCHANGED history, known \subseteq known',
         \A d \in SocketIds : Unborn(d)' => Unborn(d)
  PROVE  UsedByItsId' /\ ConnectedIsOpen' /\ DataAfterOpen'
         /\ \A d \in SocketIds : StreamInv(d)'
<1>1. wire' = wire /\ taken' = taken /\ cut' = cut /\ told' = told
  BY DEF history
<1>2. /\ UsedByItsId /\ ConnectedIsOpen /\ DataAfterOpen
      /\ \A d \in SocketIds : StreamInv(d)
  BY DEF SocketInv, SlotsInv, EventsInv, StreamsInv
<1>3. UsedByItsId'
  <2>1. \A n \in Slots : InUse(n)' = InUse(n)
    BY DEF InUse
  <2> QED
    BY <1>2, <2>1 DEF UsedByItsId
<1>4. \A d : Live(d)' = Live(d) /\ Type(d)' = Type(d)
  BY DEF Live, InUse, Type
<1>5. ConnectedIsOpen' /\ DataAfterOpen'
  BY <1>1, <1>2, <1>4 DEF ConnectedIsOpen, DataAfterOpen
<1>6. \A d : Stream(d)' = Stream(d) /\ LowList(d)' = LowList(d)
  BY <1>1 DEF Stream, LowList
<1>7. ASSUME NEW d \in SocketIds
      PROVE  StreamInv(d)'
  <2>1. StreamInv(d) /\ (Unborn(d)' => Unborn(d))
    BY <1>2
  <2> QED
    BY <1>1, <1>4, <1>6, <2>1 DEF StreamInv
<1> QED
  BY <1>3, <1>5, <1>7

LEMMA HistoryTyped ==
  ASSUME Types, UNCHANGED history
  PROVE  /\ wire' \in [SocketIds -> Seq(Packages)]
         /\ taken' \in [SocketIds -> SUBSET Packages]
         /\ cut' \subseteq SocketIds
         /\ told' \in [SocketIds -> SUBSET {"open", "data", "close"}]
BY DEF Types, history

LEMMA NoCommandStep ==
  ASSUME SocketInv, NoCommand \/ clear_closed_event \/ \E b \in Batches : Wait(b)
  PROVE  SocketInv'
<1>1. Types /\ Limits /\ SlotsInv /\ EventsInv /\ StreamsInv
  BY DEF SocketInv
<1>2. /\ slot' = slot /\ pipe' = pipe /\ alloc_id' = alloc_id /\ known' = known
      /\ reserving' = reserving /\ packages' = packages /\ UNCHANGED history
      /\ aborted' = aborted
  BY DEF NoCommand, clear_closed_event, Wait, userVars
<1>3. /\ wire' = wire /\ taken' = taken /\ cut' = cut /\ told' = told
      /\ alloc_id \in Nat /\ alloc_id <= alloc_id
  BY <1>1, <1>2, Numbers DEF history, Types
<1>4. /\ ReservedOnce' /\ ReservedSlots' /\ OpensFirst' /\ Numbered'
      /\ \A d \in SocketIds : Unborn(d)' => Unborn(d)
  BY <1>2, <1>3, SameRequests
<1>5. /\ UsedByItsId' /\ ConnectedIsOpen' /\ DataAfterOpen'
      /\ \A d \in SocketIds : StreamInv(d)'
  BY <1>2, <1>4, UnchangedKeeps
<1>6. /\ ev' \subseteq [s : Slots, read : BOOLEAN, write : BOOLEAN]
      /\ checkctrl' \in BOOLEAN /\ clearing' \in 0 .. MaxIds
      /\ OneEventEach' /\ EventsLeft'
  <2>1. /\ ev \subseteq [s : Slots, read : BOOLEAN, write : BOOLEAN]
        /\ checkctrl \in BOOLEAN /\ clearing \in 0 .. MaxIds /\ 0 \in 0 .. MaxIds
        /\ OneEventEach /\ EventsLeft
    BY <1>1, Numbers DEF Types, EventsInv
  <2>2. CASE NoCommand
    <3>1. ev' = ev /\ clearing' = clearing /\ checkctrl' = FALSE
      BY <2>2 DEF NoCommand
    <3> QED
      BY <1>2, <2>1, <3>1 DEF OneEventEach, EventsLeft
  <2>3. CASE clear_closed_event
    <3>1. /\ ev' = {e \in ev : ~(/\ slot[e.s].type = "INVALID"
                                 /\ slot[e.s].id = clearing)}
          /\ clearing' = 0 /\ checkctrl' = checkctrl
      BY <2>3 DEF clear_closed_event
    <3>2. ev' \subseteq ev
      BY <3>1
    <3>3. \A e \in ev' : slot'[e.s].type # "INVALID" /\ slot'[e.s].type # "PACCEPT"
      BY <1>2, <2>1, <3>1 DEF EventsLeft
    <3> QED
      BY <2>1, <3>1, <3>2, <3>3 DEF OneEventEach, EventsLeft
  <2>4. ASSUME NEW b \in Batches, Wait(b)
        PROVE  /\ ev' \subseteq [s : Slots, read : BOOLEAN, write : BOOLEAN]
               /\ checkctrl' \in BOOLEAN /\ clearing' \in 0 .. MaxIds
               /\ OneEventEach' /\ EventsLeft'
    <3>1. ev' = b /\ clearing' = clearing /\ checkctrl' = TRUE
      BY <2>4 DEF Wait
    <3>2. b \subseteq Ready /\ \A e, f \in b : e.s = f.s => e = f
      BY DEF Batches
    <3>3. \A e \in Ready : /\ e \in [s : Slots, read : BOOLEAN, write : BOOLEAN]
                           /\ slot[e.s].type \in {"LISTEN", "CONNECTING", "CONNECTED",
                                                  "HALFCLOSE"}
      BY DEF Ready
    <3>4. ev' \subseteq [s : Slots, read : BOOLEAN, write : BOOLEAN]
      BY <3>1, <3>2, <3>3
    <3>5. EventsLeft'
      BY <1>2, <3>1, <3>2, <3>3 DEF EventsLeft
    <3>6. OneEventEach'
      BY <3>1, <3>2 DEF OneEventEach
    <3> QED
      BY <2>1, <3>1, <3>4, <3>5, <3>6
  <2> QED
    BY <2>2, <2>3, <2>4
<1>7. Types' /\ Limits'
  BY <1>1, <1>2, <1>3, <1>6 DEF Types, Limits
<1> QED
  BY <1>4, <1>5, <1>6, <1>7 DEF SocketInv, SlotsInv, EventsInv, StreamsInv

-----------------------------------------------------------------------------
(* Events.                                                                  *)
EventRest(e) ==
  /\ Thread /\ clearing' = 0 /\ checkctrl' = checkctrl /\ pipe' = pipe
  /\ reserving' = reserving /\ packages' = packages
  /\ aborted' \in {"no", "send_buffer", "force_close", "new_fd"}
  /\ \A f \in ev' : \/ f \in ev /\ f # e
                    \/ f = [e EXCEPT !.read = FALSE]

LEMMA EventKeeps ==
  ASSUME SocketInv, NEW e \in ev, EventRest(e), taken' = taken,
         alloc_id' \in 0 .. MaxIds, alloc_id <= alloc_id', known \subseteq known',
         known' \subseteq 1 .. alloc_id', \A d \in known' : d \in known \/ d > alloc_id,
         slot' \in [Slots -> Sockets], wire' \in [SocketIds -> Seq(Packages)],
         cut' \subseteq SocketIds, told' \in [SocketIds -> SUBSET {"open", "data", "close"}],
         \A n \in Slots : slot[n].type = "RESERVE" =>
           slot'[n].type = "RESERVE" /\ slot'[n].id = slot[n].id,
         \A f \in ev' : slot'[f.s].type # "INVALID" /\ slot'[f.s].type # "PACCEPT",
         UsedByItsId' /\ ConnectedIsOpen' /\ DataAfterOpen',
         \A d \in SocketIds : StreamInv(d)'
  PROVE  SocketInv'
<1>1. Types /\ Limits /\ SlotsInv /\ EventsInv /\ StreamsInv
  BY DEF SocketInv
<1>2. /\ clearing' = 0 /\ checkctrl' = checkctrl /\ pipe' = pipe
      /\ reserving' = reserving /\ packages' = packages
      /\ aborted' \in {"no", "send_buffer", "force_close", "new_fd"}
      /\ \A f \in ev' : \/ f \in ev /\ f # e
                        \/ f = [e EXCEPT !.read = FALSE]
  BY DEF EventRest
<1>3. alloc_id' \in Nat /\ 0 \in 0 .. MaxIds
  BY Numbers
<1>4. ReservedOnce' /\ ReservedSlots' /\ OpensFirst' /\ Numbered'
  BY <1>2, <1>3, SameRequests
<1>5. /\ ev \subseteq [s : Slots, read : BOOLEAN, write : BOOLEAN]
      /\ \A f, g \in ev : f.s = g.s => f = g
  BY <1>1 DEF Types, EventsInv, OneEventEach
<1>6. PICK g : g = [e EXCEPT !.read = FALSE]
  OBVIOUS
<1>7. g \in [s : Slots, read : BOOLEAN, write : BOOLEAN] /\ g.s = e.s
  BY <1>5, <1>6
<1>8. ev' \subseteq [s : Slots, read : BOOLEAN, write : BOOLEAN]
  BY <1>2, <1>5, <1>6, <1>7
<1>9. OneEventEach'
  <2> SUFFICES ASSUME NEW a \in ev', NEW b \in ev', a.s = b.s
               PROVE  a = b
    BY DEF OneEventEach
  <2>1. ((a \in ev /\ a # e) \/ a = g) /\ ((b \in ev /\ b # e) \/ b = g)
    BY <1>2, <1>6
  <2>2. CASE a = g \/ b = g
    BY <1>5, <1>7, <2>1, <2>2
  <2>3. CASE a # g /\ b # g
    BY <1>5, <2>1, <2>3
  <2> QED
    BY <2>2, <2>3
<1>10. EventsLeft'
  BY DEF EventsLeft
<1>11. Types'
  BY <1>1, <1>2, <1>3, <1>8 DEF Types
<1>12. Limits'
  BY <1>1, <1>2 DEF Limits
<1> QED
  BY <1>4, <1>9, <1>10, <1>11, <1>12 DEF SocketInv, SlotsInv, EventsInv, StreamsInv

LEMMA EventSlot ==
  ASSUME SocketInv, NEW e \in ev, Thread
  PROVE  /\ e.s \in Slots /\ slot[e.s].type \notin {"INVALID", "PACCEPT"}
         /\ \A f \in ev : f.s \in Slots /\ slot[f.s].type \notin {"INVALID", "PACCEPT"}
         /\ \A f \in ev : f.s = e.s => f = e
         /\ slot[e.s].type # "RESERVE" =>
              /\ slot[e.s].id \in SocketIds /\ Hash(slot[e.s].id) = e.s
              /\ Live(slot[e.s].id)
<1>1. Types /\ SlotsInv /\ EventsInv
  BY DEF SocketInv
<1>2. /\ \A f \in ev : f.s \in Slots /\ slot[f.s].type \notin {"INVALID", "PACCEPT"}
      /\ \A f \in ev : f.s = e.s => f = e
  BY <1>1 DEF EventsInv, EventsLeft, OneEventEach, Thread, Types
<1>3. slot[e.s].type # "RESERVE" => InUse(e.s)
  BY <1>2 DEF InUse
<1> QED
  BY <1>1, <1>2, <1>3, LiveSlot

(* Nothing happens but that the event is gone.                              *)
LEMMA EventIdle ==
  ASSUME SocketInv, NEW e \in ev, EventRest(e), slot' = slot, UNCHANGED history,
         alloc_id' = alloc_id, known' = known
  PROVE  SocketInv'
<1>1. Types /\ Thread
  BY DEF SocketInv, EventRest
<1>2. /\ wire' \in [SocketIds -> Seq(Packages)] /\ taken' = taken
      /\ cut' \subseteq SocketIds /\ told' \in [SocketIds -> SUBSET {"open", "data", "close"}]
  BY <1>1, HistoryTyped DEF history
<1>3. /\ alloc_id' \in 0 .. MaxIds /\ alloc_id' \in Nat /\ alloc_id <= alloc_id'
      /\ known' \subseteq 1 .. alloc_id' /\ slot' \in [Slots -> Sockets]
  BY <1>1, Numbers DEF Types
<1>4. \A d \in SocketIds : Unborn(d)' => Unborn(d)
  BY <1>2, <1>3, SameRequests DEF EventRest
<1>5. UsedByItsId' /\ ConnectedIsOpen' /\ DataAfterOpen'
      /\ \A d \in SocketIds : StreamInv(d)'
  BY <1>4, UnchangedKeeps
<1>6. \A f \in ev' : slot'[f.s].type # "INVALID" /\ slot'[f.s].type # "PACCEPT"
  <2> SUFFICES ASSUME NEW f \in ev'
               PROVE  slot[f.s].type # "INVALID" /\ slot[f.s].type # "PACCEPT"
    OBVIOUS
  <2>1. f \in ev \/ f = [e EXCEPT !.read = FALSE]
    BY DEF EventRest
  <2>2. f \in ev \/ f.s = e.s
    BY <1>1, <2>1 DEF Types
  <2> QED
    BY <1>1, <2>2, EventSlot
<1> QED
  BY <1>2, <1>3, <1>5, <1>6, EventKeeps

(* Something happens to its socket.                                         *)
LEMMA EventUsed ==
  ASSUME SocketInv, NEW e \in ev, EventRest(e), NEW id \in SocketIds, Live(id),
         Hash(id) = e.s, NEW t, NEW w, NEW ps, NEW r, NEW c,
         UsedAs(id, 0, t, w, ps, r, c),
         alloc_id' = alloc_id, known' = known, t.type = "INVALID" => e \notin ev' /\ ev' \subseteq ev
  PROVE  SocketInv'
<1>1. Types /\ SlotsInv /\ EventsInv /\ StreamsInv /\ Thread
  BY DEF SocketInv, EventRest
<1>2. Effect(id, t, w, ps, r, c) /\ Sound(id, t, w, ps, r, c)
  BY DEF UsedAs
<1>3. /\ t.type # "RESERVE" /\ ps = taken[id]
      /\ t.type = "PACCEPT" => slot[e.s].type = "PACCEPT"
  BY DEF UsedAs
<1>4. /\ slot' \in [Slots -> Sockets]
      /\ wire' \in [SocketIds -> Seq(Packages)]
      /\ told' \in [SocketIds -> SUBSET {"open", "data", "close"}]
      /\ cut' \subseteq SocketIds
      /\ slot'[e.s] = t
      /\ \A n \in Slots : n # e.s => slot'[n] = slot[n]
  BY <1>1, <1>2, EffectThere
<1>5. taken' = taken
  BY <1>1, <1>2, <1>3, ExceptSame DEF Effect
<1>6. slot[e.s].type # "RESERVE" /\ slot[e.s].id = id /\ InUse(e.s)
  BY DEF Live, InUse
<1>7. \A n \in Slots : slot[n].type = "RESERVE" =>
        slot'[n].type = "RESERVE" /\ slot'[n].id = slot[n].id
  BY <1>4, <1>6
<1>8. /\ alloc_id' \in 0 .. MaxIds /\ alloc_id' \in Nat /\ alloc_id <= alloc_id'
      /\ known' \subseteq 1 .. alloc_id'
  BY <1>1, Numbers DEF Types
<1>9. \A d \in SocketIds : Unborn(d)' => Unborn(d)
  BY <1>5, <1>7, <1>8, SameRequests DEF EventRest
<1>10. id \in known /\ ~Unborn(id)
  <2>1. id \in known
    BY <1>1, <1>6, EventSlot DEF SlotsInv, UsedByItsId
  <2>2. \A i \in Nat : ~Opens(i, id)
    BY <1>1, <1>6 DEF SlotsInv, ReservedSlots
  <2> QED
    BY <2>1, <2>2 DEF Unborn
<1>11. UsedByItsId' /\ ConnectedIsOpen' /\ DataAfterOpen'
       /\ \A d \in SocketIds : StreamInv(d)'
  BY <1>1, <1>2, <1>9, <1>10, EffectKeeps
<1>12. \A f \in ev' : slot'[f.s].type # "INVALID" /\ slot'[f.s].type # "PACCEPT"
  <2> SUFFICES ASSUME NEW f \in ev'
               PROVE  slot'[f.s].type # "INVALID" /\ slot'[f.s].type # "PACCEPT"
    OBVIOUS
  <2>1. (f \in ev /\ f # e) \/ f = [e EXCEPT !.read = FALSE]
    BY DEF EventRest
  <2>2. CASE f \in ev /\ f # e
    <3>1. f.s \in Slots /\ f.s # e.s /\ slot[f.s].type \notin {"INVALID", "PACCEPT"}
      BY <1>1, <2>2, EventSlot
    <3> QED
      BY <1>4, <3>1
  <2>3. CASE ~(f \in ev /\ f # e)
    <3>1. f = [e EXCEPT !.read = FALSE] /\ (f \notin ev \/ f = e)
      BY <2>1, <2>3
    <3>2. f.s = e.s
      BY <1>1, <3>1 DEF Types
    <3>3. t.type # "INVALID" /\ t.type # "PACCEPT"
      BY <1>1, <1>3, <3>1, EventSlot
    <3> QED
      BY <1>4, <3>2, <3>3
  <2> QED
    BY <2>2, <2>3
<1> QED
  BY <1>4, <1>5, <1>7, <1>8, <1>11, <1>12, EventKeeps

(* An error or a hangup closes the socket.                                  *)
LEMMA EventCloses ==
  ASSUME SocketInv, NEW e \in ev, EventRest(e), slot[e.s].type # "RESERVE",
         Closed(slot[e.s].id, TRUE), wire' = wire, taken' = taken, ev' = ev \ {e},
         alloc_id' = alloc_id, known' = known
  PROVE  SocketInv'
<1>1. Types /\ SlotsInv /\ EventsInv /\ StreamsInv /\ Thread
  BY DEF SocketInv, EventRest
<1>2. PICK id \in SocketIds : id = slot[e.s].id /\ Hash(id) = e.s /\ Live(id)
  BY <1>1, EventSlot
<1>3. PICK t : t = [Free EXCEPT !.id = id]
  OBVIOUS
<1>4. PICK w, h, low : w = wire[id] /\ h = slot[Hash(id)].high /\ low = slot[Hash(id)].low
  OBVIOUS
<1>5. /\ w \in Seq(Packages) /\ h \in Seq(Packages) /\ low \in Seq(Packages)
      /\ WholeStream(w \o h, low, taken[id])
  BY <1>1, <1>2, <1>4, AtId DEF Sockets
<1>6. Sound(id, t, w, taken[id], told[id] \cup {"close"}, TRUE)
  BY <1>1, <1>2, <1>3, <1>5, ClosedSound
<1>7. /\ slot' = [slot EXCEPT ![Hash(id)] = t]
      /\ Report(id, "close") /\ aborted' = aborted /\ cut' = cut \cup {id}
  BY <1>2, <1>3 DEF Closed, ForceClose
<1>8. told' = [told EXCEPT ![id] = told[id] \cup {"close"}]
  BY <1>1, <1>7, ReportDone
<1>9. Effect(id, t, w, taken[id], told[id] \cup {"close"}, TRUE)
  BY <1>1, <1>4, <1>7, <1>8, ExceptSame DEF Effect
<1>10. t.type = "INVALID" /\ t.id = id
  BY <1>3 DEF Free
<1>11. /\ aborted' \in {"no", "send_buffer", "force_close", "new_fd"}
       /\ clearing' = 0 /\ clearing' \in 0 .. MaxIds
  BY Numbers DEF EventRest
<1>12. UsedAs(id, 0, t, w, taken[id], told[id] \cup {"close"}, TRUE)
  BY <1>6, <1>9, <1>10, <1>11 DEF UsedAs
<1>13. e \notin ev' /\ ev' \subseteq ev
  OBVIOUS
<1> QED
  BY <1>2, <1>12, <1>13, EventUsed

(* A report, the slot having this type.                                     *)
LEMMA EventReports ==
  ASSUME SocketInv, NEW e \in ev, EventRest(e), slot[e.s].type # "RESERVE",
         NEW kind \in {"open", "data"}, kind = "data" => slot[e.s].type = "CONNECTED",
         slot' = [slot EXCEPT ![e.s].type = IF kind = "open" THEN "CONNECTED" ELSE @],
         Report(slot[e.s].id, kind), cut' = cut, wire' = wire, taken' = taken,
         alloc_id' = alloc_id, known' = known
  PROVE  SocketInv'
<1>1. Types /\ SlotsInv /\ EventsInv /\ StreamsInv /\ Thread
  BY DEF SocketInv, EventRest
<1>2. PICK id \in SocketIds : id = slot[e.s].id /\ Hash(id) = e.s /\ Live(id)
  BY <1>1, EventSlot
<1>3. PICK s \in Sockets : s = slot[e.s]
  BY <1>1, <1>2, AtId
<1>4. told' = [told EXCEPT ![id] = told[id] \cup {kind}]
  BY <1>1, <1>2, ReportDone
<1>5. /\ aborted' \in {"no", "send_buffer", "force_close", "new_fd"}
      /\ clearing' = 0 /\ clearing' \in 0 .. MaxIds
  BY Numbers DEF EventRest
<1>6. s.id = id /\ s.type \notin {"INVALID", "RESERVE", "PACCEPT"}
  BY <1>1, <1>2, <1>3, EventSlot
<1>7. slot \in [Slots -> Sockets] /\ e.s \in Slots
  BY <1>1 DEF Types
<1>8. CASE kind = "data"
  <2>1. "open" \in told[id]
    BY <1>1, <1>2, <1>8, AtId
  <2>2. PICK x \in SUBSET {"open", "data", "close"} : x = {"data"}
    OBVIOUS
  <2>3. Sound(id, s, wire[id], taken[id], told[id] \cup x, FALSE)
    BY <1>1, <1>2, <1>3, <2>1, <2>2, ToldSound
  <2>4. slot' = [slot EXCEPT ![e.s] = s]
    <3>1. slot' = [slot EXCEPT ![e.s].type = s.type]
      BY <1>3, <1>8
    <3> QED
      BY <1>3, <1>7, <3>1 DEF Sockets
  <2>5. Effect(id, s, wire[id], taken[id], told[id] \cup x, FALSE)
    BY <1>1, <1>2, <1>4, <1>8, <2>2, <2>4, ExceptSame DEF Effect
  <2>6. UsedAs(id, 0, s, wire[id], taken[id], told[id] \cup x, FALSE)
    BY <1>5, <1>6, <2>3, <2>5 DEF UsedAs
  <2> QED
    BY <1>2, <1>6, <2>6, EventUsed
<1>9. CASE kind = "open"
  <2>1. PICK type \in {"CONNECTED", "LISTEN"}, x \in SUBSET {"open"} :
          type = "CONNECTED" /\ x = {"open"}
    OBVIOUS
  <2>2. PICK t : t = [s EXCEPT !.type = type]
    OBVIOUS
  <2>3. Sound(id, [s EXCEPT !.type = type], wire[id], taken[id], told[id] \cup {"open"}, FALSE)
    BY <1>1, <1>2, <1>3, <2>1, StartedSound
  <2>4. Sound(id, t, wire[id], taken[id], told[id] \cup x, FALSE)
    BY <2>1, <2>2, <2>3
  <2>5. slot' = [slot EXCEPT ![e.s] = t]
    <3>1. slot' = [slot EXCEPT ![e.s].type = type]
      BY <1>9, <2>1
    <3> QED
      BY <1>3, <2>2, <3>1
  <2>6. Effect(id, t, wire[id], taken[id], told[id] \cup x, FALSE)
    BY <1>1, <1>2, <1>4, <1>9, <2>1, <2>5, ExceptSame DEF Effect
  <2>7. t.type = "CONNECTED"
    BY <2>1, <2>2 DEF Sockets
  <2>8. UsedAs(id, 0, t, wire[id], taken[id], told[id] \cup x, FALSE)
    BY <1>5, <2>4, <2>6, <2>7 DEF UsedAs
  <2> QED
    BY <1>2, <2>7, <2>8, EventUsed
<1> QED
  BY <1>8, <1>9

(* A connection is accepted.                                                *)
Accepted(id) == [Free EXCEPT !.type = "PACCEPT", !.id = id]

LEMMA EventAccepts ==
  ASSUME SocketInv, NEW e \in ev, EventRest(e), NEW id \in NextIds, Takes(id),
         alloc_id' = id, known' = known \cup {id},
         slot' = [slot EXCEPT ![Hash(id)] = Accepted(id)],
         wire' = wire, taken' = taken, cut' = cut, told' = told, ev' = ev \ {e}
  PROVE  SocketInv'
<1>1. Types /\ SlotsInv /\ EventsInv /\ StreamsInv /\ Thread
  BY DEF SocketInv, EventRest
<1>2. /\ id \in SocketIds /\ id \in 0 .. MaxIds /\ id > alloc_id
      /\ Hash(id) \in Slots /\ id \notin known
      /\ known \subseteq 1 .. id /\ alloc_id \in Nat
  BY <1>1, NextIdsFacts
<1>3. PICK t : t = Accepted(id)
  OBVIOUS
<1>4. /\ t \in Sockets /\ t.type = "PACCEPT" /\ t.id = id
      /\ t.high = <<>> /\ t.low = <<>>
  <2>1. t = [type |-> "PACCEPT", id |-> id, high |-> <<>>, low |-> <<>>]
    BY <1>3 DEF Free, Accepted
  <2> QED
    BY <1>2, <2>1 DEF Sockets, SocketTypes
<1>5. slot[Hash(id)].type = "INVALID" /\ ~InUse(Hash(id))
  BY DEF Takes, InUse
<1>6. Unborn(id)
  BY <1>2 DEF Unborn
<1>7. PICK x \in SUBSET {"open"} : x = {}
  OBVIOUS
<1>8. Sound(id, t, wire[id], taken[id], told[id] \cup x, FALSE)
  BY <1>1, <1>2, <1>4, <1>5, <1>6, <1>7, OpenedSound DEF Using
<1>9. Effect(id, t, wire[id], taken[id], told[id] \cup x, FALSE)
  BY <1>1, <1>2, <1>3, <1>7, ExceptSame DEF Effect
<1>10. /\ slot' \in [Slots -> Sockets] /\ wire' \in [SocketIds -> Seq(Packages)]
       /\ told' \in [SocketIds -> SUBSET {"open", "data", "close"}]
       /\ cut' \subseteq SocketIds
       /\ slot'[Hash(id)] = t
       /\ \A n \in Slots : n # Hash(id) => slot'[n] = slot[n]
  BY <1>1, <1>2, <1>8, <1>9, EffectThere
<1>11. \A n \in Slots : slot[n].type = "RESERVE" =>
         slot'[n].type = "RESERVE" /\ slot'[n].id = slot[n].id
  BY <1>5, <1>10
<1>12. /\ alloc_id' \in 0 .. MaxIds /\ alloc_id' \in Nat /\ alloc_id <= alloc_id'
       /\ known \subseteq known' /\ known' \subseteq 1 .. alloc_id'
       /\ \A d \in known' : d \in known \/ d > alloc_id
  <2>1. id \in 1 .. id
    BY <1>2, Numbers
  <2>2. id \in Nat /\ alloc_id <= id
    BY <1>2, Numbers
  <2> QED
    BY <1>2, <2>1, <2>2
<1>13. \A d \in SocketIds : Unborn(d)' => Unborn(d)
  BY <1>11, <1>12, SameRequests DEF EventRest
<1>14. wire[id] = <<>> /\ taken[id] = {} /\ told[id] \cup x = {}
  BY <1>1, <1>2, <1>6, <1>7 DEF StreamsInv, StreamInv
<1>15. UsedByItsId' /\ ConnectedIsOpen' /\ DataAfterOpen'
       /\ \A d \in SocketIds : StreamInv(d)'
  <2>1. id \in known'
    OBVIOUS
  <2> QED
    BY <1>1, <1>2, <1>8, <1>9, <1>12, <1>13, <1>14, <2>1, EffectKeeps
<1>16. \A f \in ev' : slot'[f.s].type # "INVALID" /\ slot'[f.s].type # "PACCEPT"
  <2> SUFFICES ASSUME NEW f \in ev'
               PROVE  slot'[f.s].type # "INVALID" /\ slot'[f.s].type # "PACCEPT"
    OBVIOUS
  <2>1. f.s \in Slots /\ slot[f.s].type \notin {"INVALID", "PACCEPT"}
    BY <1>1, EventSlot
  <2>2. f.s # Hash(id)
    BY <1>5, <2>1
  <2> QED
    BY <1>10, <2>1, <2>2
<1> QED
  BY <1>10, <1>11, <1>12, <1>15, <1>16, EventKeeps

LEMMA EventStep ==
  ASSUME SocketInv, NEW e \in ev, Event(e)
  PROVE  SocketInv'
<1>1. Types /\ SlotsInv /\ EventsInv /\ StreamsInv
  BY DEF SocketInv
<1>2. /\ Thread /\ clearing' = 0 /\ checkctrl' = checkctrl /\ pipe' = pipe
      /\ reserving' = reserving /\ packages' = packages
  BY DEF Event
<1>3. /\ e.s \in Slots /\ slot[e.s].type \notin {"INVALID", "PACCEPT"}
      /\ slot[e.s].type # "RESERVE" =>
           /\ slot[e.s].id \in SocketIds /\ Hash(slot[e.s].id) = e.s
           /\ Live(slot[e.s].id)
      /\ slot[e.s].type \in SocketTypes
  <2>1. slot[e.s].type \in SocketTypes
    BY <1>1, <1>2, EventSlot, SocketFields
  <2> QED
    BY <1>2, <2>1, EventSlot
<1>4. ASSUME Consume(e)
      PROVE  /\ ev' = ev \ {e}
             /\ \A f \in ev' : (f \in ev /\ f # e) \/ f = [e EXCEPT !.read = FALSE]
  BY <1>4 DEF Consume
<1>5. ASSUME AfterRead(e)
      PROVE  \A f \in ev' : (f \in ev /\ f # e) \/ f = [e EXCEPT !.read = FALSE]
  BY <1>5 DEF AfterRead
<1>6. aborted \in {"no", "send_buffer", "force_close", "new_fd"}
  BY <1>1 DEF Types
<1>7. CASE slot[e.s].type = "CONNECTING"
  <2>1. report_connect(e)
    BY <1>7 DEF Event
  <2>2. Consume(e) /\ alloc_id' = alloc_id /\ known' = known /\ wire' = wire /\ taken' = taken
    BY <2>1 DEF report_connect
  <2>3. CASE Closed(slot[e.s].id, TRUE)
    <3>1. EventRest(e)
      BY <1>2, <1>4, <1>6, <2>2, <2>3 DEF EventRest, Closed
    <3> QED
      BY <1>4, <1>7, <2>2, <2>3, <3>1, EventCloses
  <2>4. CASE /\ slot' = [slot EXCEPT ![e.s].type = "CONNECTED"]
             /\ Report(slot[e.s].id, "open") /\ UNCHANGED <<aborted, cut>>
    <3>1. EventRest(e)
      BY <1>2, <1>4, <1>6, <2>2, <2>4 DEF EventRest
    <3>2. PICK kind \in {"open", "data"} : kind = "open"
      OBVIOUS
    <3>3. slot' = [slot EXCEPT ![e.s].type = IF kind = "open" THEN "CONNECTED" ELSE @]
          /\ Report(slot[e.s].id, kind) /\ cut' = cut /\ kind # "data"
      BY <2>4, <3>2
    <3> QED
      BY <1>7, <2>2, <3>1, <3>3, EventReports
  <2> QED
    BY <2>1, <2>3, <2>4 DEF report_connect
<1>8. CASE slot[e.s].type = "LISTEN"
  <2>1. report_accept(e)
    BY <1>8 DEF Event
  <2>2. Consume(e) /\ wire' = wire /\ taken' = taken /\ cut' = cut /\ told' = told
    BY <2>1, Zenon DEF report_accept
  <2>3. CASE UNCHANGED <<slot, aborted, alloc_id, known>>
    <3>1. EventRest(e)
      BY <1>2, <1>4, <1>6, <2>2, <2>3 DEF EventRest
    <3> QED
      BY <2>2, <2>3, <3>1, EventIdle DEF history
  <2>4. ASSUME NEW id \in NextIds, Takes(id), alloc_id' = id, known' = known \cup {id},
               slot' = [slot EXCEPT ![Hash(id)] = Accepted(id)],
               UNCHANGED aborted
        PROVE  SocketInv'
    <3>1. EventRest(e)
      BY <1>2, <1>4, <1>6, <2>2, <2>4 DEF EventRest
    <3> QED
      BY <1>4, <2>2, <2>4, <3>1, EventAccepts
  <2>5. CASE /\ aborted' = "new_fd"
             /\ UNCHANGED <<slot, alloc_id, known>>
    <3>1. EventRest(e)
      BY <1>2, <1>4, <2>2, <2>5 DEF EventRest
    <3> QED
      BY <2>2, <2>5, <3>1, EventIdle DEF history
  <2>6. \/ UNCHANGED <<slot, aborted, alloc_id, known>>
        \/ /\ aborted' = "new_fd"
           /\ UNCHANGED <<slot, alloc_id, known>>
        \/ \E id \in NextIds :
             /\ Takes(id) /\ alloc_id' = id /\ known' = known \cup {id}
             /\ slot' = [slot EXCEPT ![Hash(id)] = Accepted(id)]
             /\ UNCHANGED aborted
    BY <2>1, Zenon DEF report_accept, Accepted
  <2> QED
    BY <2>3, <2>4, <2>5, <2>6
<1>9. CASE slot[e.s].type \notin {"CONNECTING", "LISTEN"} /\ e.read
  <2>1. forward_message_tcp(e)
    BY <1>3, <1>9 DEF Event
  <2>2. alloc_id' = alloc_id /\ known' = known /\ wire' = wire /\ taken' = taken
    BY <2>1 DEF forward_message_tcp
  <2>3. CASE slot[e.s].type = "RESERVE"
    <3>1. /\ aborted' = "force_close" /\ Consume(e) /\ slot' = slot /\ told' = told
          /\ cut' = cut
      BY <2>1, <2>3 DEF forward_message_tcp
    <3>2. EventRest(e)
      BY <1>2, <1>4, <3>1 DEF EventRest
    <3> QED
      BY <2>2, <3>1, <3>2, EventIdle DEF history
  <2>4. CASE slot[e.s].type # "RESERVE" /\ Closed(slot[e.s].id, TRUE) /\ Consume(e)
    <3>1. EventRest(e)
      BY <1>2, <1>4, <1>6, <2>4 DEF EventRest, Closed
    <3> QED
      BY <1>4, <2>2, <2>4, <3>1, EventCloses
  <2>5. CASE UNCHANGED told /\ AfterRead(e) /\ UNCHANGED <<slot, aborted, cut>>
    <3>1. EventRest(e)
      BY <1>2, <1>5, <1>6, <2>5 DEF EventRest
    <3> QED
      BY <2>2, <2>5, <3>1, EventIdle DEF history
  <2>6. CASE /\ slot[e.s].type \in {"CONNECTED", "PACCEPT"} /\ Report(slot[e.s].id, "data")
             /\ AfterRead(e) /\ UNCHANGED <<slot, aborted, cut>>
    <3>1. EventRest(e)
      BY <1>2, <1>5, <1>6, <2>6 DEF EventRest
    <3>2. PICK kind \in {"open", "data"} : kind = "data"
      OBVIOUS
    <3>3. slot[e.s].type = "CONNECTED"
      BY <1>3, <2>6
    <3>4. slot' = [slot EXCEPT ![e.s].type = IF kind = "open" THEN "CONNECTED" ELSE @]
      <4>1. slot \in [Slots -> Sockets] /\ slot[e.s] \in Sockets
        BY <1>1, <1>3 DEF Types
      <4>2. slot = [slot EXCEPT ![e.s].type = @]
        BY <1>3, <4>1 DEF Sockets
      <4> QED
        BY <2>6, <3>2, <4>2
    <3>5. Report(slot[e.s].id, kind) /\ cut' = cut
      BY <2>6, <3>2
    <3> QED
      BY <2>2, <3>1, <3>3, <3>4, <3>5, EventReports
  <2> QED
    BY <2>1, <2>3, <2>4, <2>5, <2>6 DEF forward_message_tcp
<1>10. CASE slot[e.s].type \notin {"CONNECTING", "LISTEN"} /\ ~e.read
  <2>1. WriteEvent(e)
    BY <1>3, <1>10 DEF Event
  <2>2. Consume(e) /\ alloc_id' = alloc_id /\ known' = known
    BY <2>1 DEF WriteEvent
  <2>3. PICK s : s = slot[e.s]
    OBVIOUS
  <2>4. CASE s.type \notin {"CONNECTED", "HALFCLOSE"} \/ Buffered(s) = <<>>
    <3>1. slot' = slot /\ aborted' = aborted /\ UNCHANGED history
      BY <2>1, <2>3, <2>4 DEF WriteEvent
    <3>2. EventRest(e)
      BY <1>2, <1>4, <1>6, <2>2, <3>1 DEF EventRest
    <3> QED
      BY <2>2, <3>1, <3>2, EventIdle
  <2>5. CASE /\ s.type \in {"CONNECTED", "HALFCLOSE"}
             /\ Closed(s.id, TRUE) /\ UNCHANGED <<wire, taken>>
    <3>1. EventRest(e)
      BY <1>2, <1>4, <1>6, <2>2, <2>5 DEF EventRest, Closed
    <3> QED
      BY <1>4, <2>2, <2>3, <2>5, <3>1, EventCloses
  <2>6. ASSUME s.type \in {"CONNECTED", "HALFCLOSE"}, NEW k \in 1 .. Len(Buffered(s)),
               Flush(s, k, s.type = "HALFCLOSE", FALSE, 0)
        PROVE  SocketInv'
    <3>1. PICK id \in SocketIds : id = s.id /\ Hash(id) = e.s /\ Live(id)
      BY <1>3, <2>3, <2>6
    <3>2. PICK closing \in BOOLEAN, shutdown \in BOOLEAN :
            closing = (s.type = "HALFCLOSE") /\ shutdown = FALSE
      OBVIOUS
    <3>3. Flush(s, k, closing, shutdown, 0)
      BY <2>6, <3>2
    <3>4. k \in 0 .. Len(Buffered(s)) /\ 0 \in 0 .. MaxIds
      BY <2>6, Numbers
    <3>5. s = slot[Hash(id)] /\ s.type \notin {"PLISTEN", "LISTEN", "PACCEPT"}
      BY <2>3, <2>6, <3>1
    <3>6. \E t, w, ps, r, c : UsedAs(id, 0, t, w, ps, r, c)
      BY <1>1, <3>1, <3>3, <3>4, <3>5, FlushUsed
    <3>7. PICK t, w, ps, r, c : UsedAs(id, 0, t, w, ps, r, c)
      BY <3>6
    <3>8. aborted' \in {"no", "send_buffer", "force_close", "new_fd"}
      BY <3>7 DEF UsedAs
    <3>9. EventRest(e)
      BY <1>2, <1>4, <2>2, <3>8 DEF EventRest
    <3>10. e \notin ev' /\ ev' \subseteq ev
      BY <1>4, <2>2
    <3> QED
      BY <2>2, <3>1, <3>7, <3>9, <3>10, EventUsed
  <2>7. \/ s.type \notin {"CONNECTED", "HALFCLOSE"} \/ Buffered(s) = <<>>
        \/ /\ s.type \in {"CONNECTED", "HALFCLOSE"}
           /\ Closed(s.id, TRUE) /\ UNCHANGED <<wire, taken>>
        \/ /\ s.type \in {"CONNECTED", "HALFCLOSE"}
           /\ \E k \in 1 .. Len(Buffered(s)) : Flush(s, k, s.type = "HALFCLOSE", FALSE, 0)
    BY <2>1, <2>3, Zenon DEF WriteEvent
  <2> QED
    BY <2>4, <2>5, <2>6, <2>7
<1> QED
  BY <1>7, <1>8, <1>9, <1>10

-----------------------------------------------------------------------------
(* The services.                                                            *)
LEMMA PipeGrown ==
  ASSUME Types, NEW m \in Requests, pipe' = Append(pipe, m)
  PROVE  /\ Len(pipe) \in Nat /\ Len(pipe') = Len(pipe) + 1 /\ pipe' \in Seq(Requests)
         /\ \A i \in Nat : \A d : Opens(i, d)' =>
              \/ Opens(i, d)
              \/ i = Len(pipe) + 1 /\ m.cmd \in {"O", "L"} /\ m.id = d
         /\ \A i \in Nat : \A d : Opens(i, d) => i <= Len(pipe)
         /\ \A i \in Nat : Sends(i)' =>
              \/ Sends(i) /\ pipe'[i] = pipe[i] /\ i <= Len(pipe)
              \/ i = Len(pipe) + 1 /\ m.cmd \in {"D", "P"} /\ pipe'[i] = m
         /\ \A i \in DOMAIN pipe' :
              \/ i \in DOMAIN pipe /\ pipe'[i] = pipe[i] /\ i <= Len(pipe)
              \/ i = Len(pipe) + 1 /\ pipe'[i] = m
<1>1. /\ pipe' \in Seq(Requests) /\ Len(pipe') = Len(pipe) + 1 /\ Len(pipe) \in Nat
      /\ DOMAIN pipe = 1 .. Len(pipe) /\ DOMAIN pipe' = 1 .. Len(pipe) + 1
      /\ \A i \in DOMAIN pipe : i \in DOMAIN pipe' /\ pipe'[i] = pipe[i]
      /\ pipe'[Len(pipe) + 1] = m
  BY PipeSent
<1>2. \A i \in DOMAIN pipe' :
        \/ i \in DOMAIN pipe /\ pipe'[i] = pipe[i] /\ i <= Len(pipe)
        \/ i = Len(pipe) + 1 /\ pipe'[i] = m
  BY <1>1
<1>3. ASSUME NEW i \in Nat, NEW d, Opens(i, d)'
      PROVE  \/ Opens(i, d)
             \/ i = Len(pipe) + 1 /\ m.cmd \in {"O", "L"} /\ m.id = d
  BY <1>2, <1>3 DEF Opens
<1>4. \A i \in Nat : \A d : Opens(i, d) => i <= Len(pipe)
  BY <1>1 DEF Opens
<1>5. ASSUME NEW i \in Nat, Sends(i)'
      PROVE  \/ Sends(i) /\ pipe'[i] = pipe[i] /\ i <= Len(pipe)
             \/ i = Len(pipe) + 1 /\ m.cmd \in {"D", "P"} /\ pipe'[i] = m
  BY <1>2, <1>5 DEF Sends
<1> QED
  BY <1>1, <1>2, <1>3, <1>4, <1>5

(* What a service does leaves the socket thread alone.                      *)
LEMMA EventsStay ==
  ASSUME SocketInv, ev' = ev, clearing' = clearing,
         \A n \in Slots : \/ slot'[n].type = "RESERVE"
                          \/ slot'[n] = slot[n]
  PROVE  OneEventEach' /\ EventsLeft'
<1>1. Types /\ OneEventEach /\ EventsLeft
  BY DEF SocketInv, EventsInv
<1>2. OneEventEach'
  BY <1>1 DEF OneEventEach
<1>3. ASSUME NEW e \in ev
      PROVE  /\ slot'[e.s].type = "INVALID" => clearing # 0 /\ slot'[e.s].id = clearing
             /\ slot'[e.s].type # "PACCEPT"
  <2>1. e.s \in Slots
    BY <1>1 DEF Types
  <2>2. CASE slot'[e.s].type = "RESERVE"
    BY <2>2
  <2>3. CASE slot'[e.s] = slot[e.s]
    BY <1>1, <2>3 DEF EventsLeft
  <2> QED
    BY <2>1, <2>2, <2>3
<1>4. EventsLeft'
  BY <1>3 DEF EventsLeft
<1> QED
  BY <1>2, <1>4

(* A request that opens nothing is sent.                                    *)
LEMMA AskStep ==
  ASSUME SocketInv, NEW m \in Requests, m.cmd \notin {"O", "L"}, m.id \in known,
         Len(pipe) < MaxPipe, pipe' = Append(pipe, m),
         slot' = slot, UNCHANGED serverVars, alloc_id' = alloc_id,
         reserving' = reserving, known' = known, UNCHANGED history,
         packages' \in 0 .. MaxPackages, packages <= packages',
         m.cmd \in {"D", "P"} =>
           m.p.to = m.id /\ packages < m.p.no /\ m.p.no <= packages'
  PROVE  SocketInv'
<1>1. Types /\ Limits /\ SlotsInv /\ EventsInv /\ StreamsInv
  BY DEF SocketInv
<1>2. /\ checkctrl' = checkctrl /\ ev' = ev /\ clearing' = clearing /\ aborted' = aborted
      /\ wire' = wire /\ taken' = taken /\ cut' = cut /\ told' = told
  BY DEF serverVars, history
<1>3. /\ Len(pipe) \in Nat /\ Len(pipe') = Len(pipe) + 1 /\ pipe' \in Seq(Requests)
      /\ \A i \in Nat : \A d : Opens(i, d)' => Opens(i, d)
      /\ \A i \in Nat : \A d : Opens(i, d) => i <= Len(pipe)
      /\ \A i \in Nat : Sends(i)' =>
           \/ Sends(i) /\ pipe'[i] = pipe[i] /\ i <= Len(pipe)
           \/ i = Len(pipe) + 1 /\ m.cmd \in {"D", "P"} /\ pipe'[i] = m
      /\ \A i \in DOMAIN pipe' :
           \/ i \in DOMAIN pipe /\ pipe'[i] = pipe[i] /\ i <= Len(pipe)
           \/ i = Len(pipe) + 1 /\ pipe'[i] = m
  BY <1>1, PipeGrown
<1>4. \A d \in SocketIds : Unborn(d)' => Unborn(d)
  BY <1>3 DEF Unborn
<1>5. UsedByItsId' /\ ConnectedIsOpen' /\ DataAfterOpen'
      /\ \A d \in SocketIds : StreamInv(d)'
  BY <1>4, UnchangedKeeps
<1>6. OneEventEach' /\ EventsLeft'
  BY <1>2, EventsStay
<1>7. \A u, d : Reserving(u, d)' = Reserving(u, d)
  BY DEF Reserving
<1>8. ReservedOnce'
  BY <1>1, <1>3, <1>7 DEF SlotsInv, ReservedOnce
<1>9. ReservedSlots'
  BY <1>1, <1>3, <1>7 DEF SlotsInv, ReservedSlots
<1>10. OpensFirst'
  <2>1. \A i \in DOMAIN pipe' : pipe'[i].id \in known'
    BY <1>1, <1>3 DEF SlotsInv, OpensFirst
  <2>2. ASSUME NEW i \in DOMAIN pipe', NEW j \in DOMAIN pipe', Opens(i, pipe[j].id)'
        PROVE  i <= j
    <3>1. pipe' \in Seq(Requests)
      BY <1>3
    <3>2. i \in Nat /\ j \in Nat
      BY <3>1
    <3>3. PICK d : d = pipe'[j].id
      OBVIOUS
    <3>4. Opens(i, d)'
      BY <2>2, <3>3 DEF Opens
    <3>5. Opens(i, d) /\ i <= Len(pipe)
      BY <1>3, <3>2, <3>4
    <3>6. CASE j \in DOMAIN pipe /\ pipe'[j] = pipe[j]
      <4>1. i \in DOMAIN pipe /\ Opens(i, pipe[j].id)
        BY <3>3, <3>5, <3>6 DEF Opens
      <4> QED
        BY <1>1, <3>6, <4>1 DEF SlotsInv, OpensFirst
    <3>7. CASE j = Len(pipe) + 1
      BY <1>3, <3>2, <3>5, <3>7
    <3> QED
      BY <1>3, <3>6, <3>7
  <2> QED
    BY <2>1, <2>2 DEF OpensFirst
<1>11. Numbered'
  <2>1. Numbered /\ packages \in Nat /\ packages' \in Nat
    BY <1>1, Numbers DEF StreamsInv, Types
  <2>2. \A i \in Nat : Sends(i) => pipe[i].p.no \in Nat
    <3>1. ASSUME NEW i \in Nat, Sends(i)
          PROVE  pipe[i].p.no \in Nat
      <4>1. pipe[i] \in Requests /\ pipe[i].cmd \in {"D", "P"}
        BY <1>1, <3>1 DEF Sends, Types
      <4>2. pipe[i].p \in Packages
        BY <4>1, RequestFields
      <4> QED
        BY <4>2, Numbers DEF Packages
    <3> QED
      BY <3>1
  <2>3. m.cmd \in {"D", "P"} => m.p.no \in Nat
    BY RequestFields, Numbers DEF Packages
  <2>4. \A d \in SocketIds : \A p \in taken[d] : p.no \in Nat /\ p.to = d /\ p.no <= packages
    <3>1. ASSUME NEW d \in SocketIds, NEW p \in taken[d]
          PROVE  p.no \in Nat /\ p.to = d /\ p.no <= packages
      <4>1. p \in Packages
        BY <1>1 DEF Types
      <4> QED
        BY <2>1, <4>1, Numbers DEF Packages, Numbered
    <3> QED
      BY <3>1
  <2>5. ASSUME NEW i \in Nat, Sends(i)'
        PROVE  /\ pipe'[i].p.to = pipe'[i].id /\ pipe'[i].p.no <= packages'
               /\ \A j \in Nat : Sends(j)' /\ i < j => pipe'[i].p.no < pipe'[j].p.no
               /\ \A d \in SocketIds : \A p \in taken'[d] : p.no < pipe'[i].p.no
    <3>1. CASE Sends(i) /\ pipe'[i] = pipe[i]
      <4>1. /\ pipe[i].p.to = pipe[i].id /\ pipe[i].p.no <= packages
            /\ \A j \in Nat : Sends(j) /\ i < j => pipe[i].p.no < pipe[j].p.no
            /\ \A d \in SocketIds : \A p \in taken[d] : p.no < pipe[i].p.no
            /\ pipe[i].p.no \in Nat
        BY <2>1, <2>2, <3>1 DEF Numbered
      <4>2. ASSUME NEW j \in Nat, Sends(j)', i < j
            PROVE  pipe[i].p.no < pipe'[j].p.no
        <5>1. CASE Sends(j) /\ pipe'[j] = pipe[j]
          BY <4>1, <4>2, <5>1
        <5>2. CASE m.cmd \in {"D", "P"} /\ pipe'[j] = m
          BY <2>1, <2>3, <4>1, <5>2
        <5> QED
          BY <1>3, <4>2, <5>1, <5>2
      <4>3. pipe[i].p.no <= packages'
        BY <2>1, <4>1
      <4> QED
        BY <1>2, <3>1, <4>1, <4>2, <4>3
    <3>2. CASE i = Len(pipe) + 1 /\ m.cmd \in {"D", "P"} /\ pipe'[i] = m
      <4>1. \A j \in Nat : Sends(j)' => j <= i
        BY <1>3, <3>2
      <4>2. \A j \in Nat : ~(Sends(j)' /\ i < j)
        BY <4>1
      <4>3. \A d \in SocketIds : \A p \in taken'[d] : p.no < m.p.no
        BY <1>2, <2>1, <2>3, <2>4, <3>2
      <4> QED
        BY <3>2, <4>2, <4>3
    <3> QED
      BY <1>3, <2>5, <3>1, <3>2
  <2>6. \A d \in SocketIds : \A p \in taken'[d] : p.to = d /\ p.no <= packages'
    BY <1>2, <2>1, <2>4
  <2> QED
    BY <2>5, <2>6 DEF Numbered
<1>12. Types'
  BY <1>1, <1>2, <1>3 DEF Types
<1>13. Limits'
  <2>1. Len(pipe') <= MaxPipe
    BY <1>3, Numbers
  <2> QED
    BY <1>1, <2>1 DEF Limits
<1> QED
  BY <1>5, <1>6, <1>8, <1>9, <1>10, <1>11, <1>12, <1>13
     DEF SocketInv, SlotsInv, EventsInv, StreamsInv

LEMMA OneReservation ==
  ASSUME NEW cmd \in {"O", "L"}, NEW id \in SocketIds
  PROVE  \E q \in Seq(Reservations) :
           /\ q = <<[cmd |-> cmd, id |-> id]>>
           /\ Len(q) = 1 /\ Head(q).id = id /\ q # <<>>
<1>1. PICK m \in Reservations : m = [cmd |-> cmd, id |-> id]
  BY DEF Reservations
<1>2. m.id = id
  BY <1>1
<1>3. <<m>> \in Seq(Reservations)
  OBVIOUS
<1>4. Len(<<m>>) = 1
  OBVIOUS
<1>5. Head(<<m>>) = m
  OBVIOUS
<1>6. <<m>> # <<>>
  BY <1>4
<1> QED
  BY <1>1, <1>2, <1>3, <1>4, <1>5, <1>6

LEMMA ReserveStep ==
  ASSUME SocketInv, NEW u \in Users, NEW cmd \in {"O", "L"}, Reserve(u, cmd)
  PROVE  SocketInv'
<1>1. Types /\ Limits /\ SlotsInv /\ EventsInv /\ StreamsInv
  BY DEF SocketInv
<1>2. PICK id \in NextIds :
        /\ Takes(id) /\ alloc_id' = id
        /\ slot' = [slot EXCEPT ![Hash(id)].type = "RESERVE"]
        /\ reserving' = [reserving EXCEPT ![u] = <<[cmd |-> cmd, id |-> id]>>]
  BY DEF Reserve
<1>3. /\ reserving[u] = <<>> /\ pipe' = pipe /\ known' = known /\ packages' = packages
      /\ checkctrl' = checkctrl /\ ev' = ev /\ clearing' = clearing /\ aborted' = aborted
      /\ wire' = wire /\ taken' = taken /\ cut' = cut /\ told' = told
  BY DEF Reserve, serverVars, history
<1>4. /\ id \in SocketIds /\ id \in 0 .. MaxIds /\ id > alloc_id /\ id \in Nat
      /\ Hash(id) \in Slots /\ id \notin known
      /\ known \subseteq 1 .. id /\ alloc_id \in Nat
  BY <1>1, NextIdsFacts, Numbers
<1>5. slot[Hash(id)].type = "INVALID" /\ ~InUse(Hash(id)) /\ slot[Hash(id)] \in Sockets
  BY <1>1, <1>2, <1>4 DEF Takes, InUse, Types
<1>6. PICK t : t = [slot[Hash(id)] EXCEPT !.type = "RESERVE"]
  OBVIOUS
<1>7. t \in Sockets /\ ~Using(t) /\ t.type = "RESERVE"
  BY <1>5, <1>6 DEF Sockets, SocketTypes, Using
<1>8. PICK x \in SUBSET {"close"} : x = {}
  OBVIOUS
<1>9. Sound(id, t, wire[id], taken[id], told[id] \cup x, FALSE)
  BY <1>1, <1>4, <1>5, <1>7, FreeSound
<1>10. Effect(id, t, wire[id], taken[id], told[id] \cup x, FALSE)
  <2>1. slot' = [slot EXCEPT ![Hash(id)] = t]
    BY <1>2, <1>6
  <2> QED
    BY <1>1, <1>3, <1>4, <1>8, <2>1, ExceptSame DEF Effect
<1>11. /\ slot' \in [Slots -> Sockets]
       /\ slot'[Hash(id)] = t
       /\ \A n \in Slots : n # Hash(id) => slot'[n] = slot[n]
  BY <1>1, <1>4, <1>9, <1>10, EffectThere
<1>12. /\ \A i, d : Opens(i, d)' = Opens(i, d)
       /\ \A i : Sends(i)' = Sends(i)
       /\ \A d \in SocketIds : Unborn(d)' => Unborn(d)
  BY <1>3 DEF Opens, Sends, Unborn
<1>13. Unborn(id)
  BY <1>4 DEF Unborn
<1>14. wire[id] = <<>> /\ taken[id] = {} /\ told[id] \cup x = {}
  BY <1>1, <1>4, <1>8, <1>13 DEF StreamsInv, StreamInv
<1>15. UsedByItsId' /\ ConnectedIsOpen' /\ DataAfterOpen'
       /\ \A d \in SocketIds : StreamInv(d)'
  BY <1>1, <1>3, <1>4, <1>7, <1>9, <1>10, <1>12, <1>14, EffectKeeps
<1>16. OneEventEach' /\ EventsLeft'
  BY <1>3, <1>7, <1>11, EventsStay
<1>17. \E q \in Seq(Reservations) :
         /\ q = <<[cmd |-> cmd, id |-> id]>> /\ Len(q) = 1 /\ Head(q).id = id /\ q # <<>>
  BY <1>4, OneReservation
<1>18. PICK q \in Seq(Reservations) :
         /\ reserving' \in [Users -> Seq(Reservations)]
         /\ reserving'[u] = q /\ \A v \in Users : v # u => reserving'[v] = reserving[v]
         /\ Len(q) = 1 /\ Head(q).id = id /\ q # <<>>
  BY <1>1, <1>2, <1>17 DEF Types
<1>19. \A v \in Users : \A d : Reserving(v, d)' =>
         \/ v # u /\ Reserving(v, d)
         \/ v = u /\ d = id
  BY <1>18 DEF Reserving
<1>20. /\ \A v \in Users, d \in SocketIds : Reserving(v, d) => Hash(d) # Hash(id)
       /\ \A i \in Nat, d \in SocketIds : Opens(i, d) => Hash(d) # Hash(id)
  BY <1>1, <1>5 DEF SlotsInv, ReservedSlots
<1>21. ReservedOnce'
  <2> SUFFICES ASSUME NEW d \in SocketIds, NEW f \in SocketIds, Hash(d) = Hash(f)
               PROVE  /\ \A a, b \in Users : Reserving(a, d)' /\ Reserving(b, f)' => a = b
                      /\ \A a \in Users, i \in Nat : ~(Reserving(a, d)' /\ Opens(i, f)')
                      /\ \A i, j \in Nat : Opens(i, d)' /\ Opens(j, f)' => i = j
    BY DEF ReservedOnce
  <2>1. /\ \A a, b \in Users : Reserving(a, d) /\ Reserving(b, f) => a = b
        /\ \A a \in Users, i \in Nat : ~(Reserving(a, d) /\ Opens(i, f))
        /\ \A i, j \in Nat : Opens(i, d) /\ Opens(j, f) => i = j
    BY <1>1 DEF SlotsInv, ReservedOnce
  <2> QED
    BY <1>12, <1>19, <1>20, <2>1
<1>22. ReservedSlots'
  <2>1. \A d \in SocketIds : Hash(d) \in Slots /\ d \in Nat
    BY Numbers
  <2>2. ASSUME NEW d \in SocketIds, NEW v \in Users, Reserving(v, d)'
        PROVE  slot'[Hash(d)].type = "RESERVE" /\ d <= alloc_id' /\ d \notin known'
    <3>1. CASE v # u /\ Reserving(v, d)
      <4>1. /\ slot[Hash(d)].type = "RESERVE" /\ d <= alloc_id /\ d \notin known
            /\ Hash(d) # Hash(id)
        BY <1>1, <1>20, <3>1 DEF SlotsInv, ReservedSlots
      <4> QED
        BY <1>2, <1>3, <1>4, <1>11, <2>1, <4>1
    <3>2. CASE d = id
      BY <1>2, <1>3, <1>4, <1>7, <1>11, <3>2
    <3> QED
      BY <1>19, <2>2, <3>1, <3>2
  <2>3. ASSUME NEW d \in SocketIds, NEW i \in Nat, Opens(i, d)
        PROVE  slot'[Hash(d)].type = "RESERVE" /\ slot'[Hash(d)].id = d
    <3>1. /\ slot[Hash(d)].type = "RESERVE" /\ slot[Hash(d)].id = d
          /\ Hash(d) # Hash(id)
      BY <1>1, <1>20, <2>3 DEF SlotsInv, ReservedSlots
    <3> QED
      BY <1>11, <2>1, <3>1
  <2> QED
    BY <1>12, <2>2, <2>3 DEF ReservedSlots
<1>23. OpensFirst'
  <2>1. \A i, j \in DOMAIN pipe : Opens(i, pipe[j].id) => i <= j
    BY <1>1 DEF SlotsInv, OpensFirst
  <2>2. \A i, j \in DOMAIN pipe' : Opens(i, pipe[j].id)' => i <= j
    BY <1>3, <2>1 DEF Opens
  <2>3. \A i \in DOMAIN pipe' : pipe'[i].id \in known'
    BY <1>1, <1>3 DEF SlotsInv, OpensFirst
  <2> QED
    BY <2>2, <2>3 DEF OpensFirst
<1>24. Numbered'
  BY <1>1, <1>3, <1>12 DEF StreamsInv, Numbered
<1>25. Types'
  BY <1>1, <1>2, <1>3, <1>4, <1>11, <1>18 DEF Types
<1>26. Limits'
  <2>1. ASSUME NEW v \in Users
        PROVE  Len(reserving'[v]) <= 1
    <3>1. CASE v = u
      <4>1. reserving'[v] = q
        BY <1>18, <3>1
      <4>2. Len(q) <= 1
        BY <1>18
      <4> QED
        BY <4>1, <4>2, Zenon
    <3>2. CASE v # u
      BY <1>1, <1>18, <3>2 DEF Limits
    <3> QED
      BY <3>1, <3>2
  <2>2. Len(pipe') <= MaxPipe
    BY <1>1, <1>3 DEF Limits
  <2> QED
    BY <2>1, <2>2 DEF Limits
<1> QED
  BY <1>15, <1>16, <1>21, <1>22, <1>23, <1>24, <1>25, <1>26
     DEF SocketInv, SlotsInv, EventsInv, StreamsInv

LEMMA RequestStep ==
  ASSUME SocketInv, NEW u \in Users, Request(u)
  PROVE  SocketInv'
<1>1. Types /\ Limits /\ SlotsInv /\ EventsInv /\ StreamsInv
  BY DEF SocketInv
<1>2. PICK m : m = Head(reserving[u])
  OBVIOUS
<1>3. /\ reserving[u] # <<>> /\ Len(pipe) < MaxPipe
      /\ slot' = [slot EXCEPT ![Hash(m.id)].id = m.id]
      /\ pipe' = Append(pipe, m) /\ known' = known \cup {m.id}
      /\ reserving' = [reserving EXCEPT ![u] = <<>>]
      /\ alloc_id' = alloc_id /\ packages' = packages
      /\ checkctrl' = checkctrl /\ ev' = ev /\ clearing' = clearing /\ aborted' = aborted
      /\ wire' = wire /\ taken' = taken /\ cut' = cut /\ told' = told
  BY <1>2 DEF Request, serverVars, history
<1>4. m \in Reservations
  BY <1>1, <1>2, <1>3 DEF Types
<1>5. m \in Requests /\ m.cmd \in {"O", "L"}
  BY <1>4 DEF Reservations, Requests
<1>6. PICK id \in SocketIds : id = m.id /\ id \in Nat \ {0} /\ Hash(id) \in Slots
                              /\ id \in 0 .. MaxIds
  BY <1>5, RequestFields, Numbers
<1>7. Reserving(u, id)
  BY <1>2, <1>3, <1>6 DEF Reserving
<1>8. slot[Hash(id)].type = "RESERVE" /\ id <= alloc_id /\ id \notin known
  BY <1>1, <1>7 DEF SlotsInv, ReservedSlots
<1>9. ~InUse(Hash(id)) /\ slot[Hash(id)] \in Sockets
  BY <1>1, <1>6, <1>8 DEF InUse, Types
<1>10. PICK t : t = [slot[Hash(id)] EXCEPT !.id = id]
  OBVIOUS
<1>11. t \in Sockets /\ ~Using(t) /\ t.type = "RESERVE" /\ t.id = id
  BY <1>6, <1>8, <1>9, <1>10 DEF Sockets, SocketTypes, Using
<1>12. PICK x \in SUBSET {"close"} : x = {}
  OBVIOUS
<1>13. Sound(id, t, wire[id], taken[id], told[id] \cup x, FALSE)
  BY <1>1, <1>9, <1>11, FreeSound
<1>14. Effect(id, t, wire[id], taken[id], told[id] \cup x, FALSE)
  <2>1. slot' = [slot EXCEPT ![Hash(id)] = t]
    BY <1>3, <1>6, <1>10
  <2> QED
    BY <1>1, <1>3, <1>12, <2>1, ExceptSame DEF Effect
<1>15. /\ slot' \in [Slots -> Sockets]
       /\ slot'[Hash(id)] = t
       /\ \A n \in Slots : n # Hash(id) => slot'[n] = slot[n]
  BY <1>1, <1>13, <1>14, EffectThere
<1>16. /\ Len(pipe) \in Nat /\ Len(pipe') = Len(pipe) + 1 /\ pipe' \in Seq(Requests)
       /\ \A i \in Nat : \A d : Opens(i, d)' =>
            \/ Opens(i, d)
            \/ i = Len(pipe) + 1 /\ d = id
       /\ \A i \in Nat : \A d : Opens(i, d) => i <= Len(pipe)
       /\ \A i \in Nat : Sends(i)' => Sends(i) /\ pipe'[i] = pipe[i]
       /\ \A i \in DOMAIN pipe' :
            \/ i \in DOMAIN pipe /\ pipe'[i] = pipe[i] /\ i <= Len(pipe)
            \/ i = Len(pipe) + 1 /\ pipe'[i].id = id
  BY <1>1, <1>3, <1>5, <1>6, PipeGrown
<1>17. /\ Unborn(id)
       /\ \A d \in SocketIds : Unborn(d)' => Unborn(d)
  <2>1. Unborn(id)
    BY <1>8 DEF Unborn
  <2>2. ASSUME NEW d \in SocketIds, Unborn(d)'
        PROVE  Unborn(d)
    BY <1>3, <1>16, <2>1, <2>2 DEF Unborn
  <2> QED
    BY <2>1, <2>2
<1>18. wire[id] = <<>> /\ taken[id] = {} /\ told[id] \cup x = {}
  BY <1>1, <1>12, <1>17 DEF StreamsInv, StreamInv
<1>19. UsedByItsId' /\ ConnectedIsOpen' /\ DataAfterOpen'
       /\ \A d \in SocketIds : StreamInv(d)'
  BY <1>1, <1>3, <1>11, <1>13, <1>14, <1>17, <1>18, EffectKeeps
<1>20. OneEventEach' /\ EventsLeft'
  BY <1>3, <1>11, <1>15, EventsStay
<1>21. /\ reserving' \in [Users -> Seq(Reservations)]
       /\ reserving'[u] = <<>> /\ \A v \in Users : v # u => reserving'[v] = reserving[v]
  BY <1>1, <1>3 DEF Types
<1>22. \A v \in Users : \A d : Reserving(v, d)' => v # u /\ Reserving(v, d)
  BY <1>21 DEF Reserving
<1>23. /\ \A v \in Users, d \in SocketIds :
            v # u /\ Reserving(v, d) => Hash(d) # Hash(id)
       /\ \A i \in Nat, d \in SocketIds : Opens(i, d) => Hash(d) # Hash(id)
  BY <1>1, <1>7 DEF SlotsInv, ReservedOnce
<1>24. ReservedOnce'
  <2> SUFFICES ASSUME NEW d \in SocketIds, NEW f \in SocketIds, Hash(d) = Hash(f)
               PROVE  /\ \A a, b \in Users : Reserving(a, d)' /\ Reserving(b, f)' => a = b
                      /\ \A a \in Users, i \in Nat : ~(Reserving(a, d)' /\ Opens(i, f)')
                      /\ \A i, j \in Nat : Opens(i, d)' /\ Opens(j, f)' => i = j
    BY DEF ReservedOnce
  <2>1. /\ \A a, b \in Users : Reserving(a, d) /\ Reserving(b, f) => a = b
        /\ \A a \in Users, i \in Nat : ~(Reserving(a, d) /\ Opens(i, f))
        /\ \A i, j \in Nat : Opens(i, d) /\ Opens(j, f) => i = j
    BY <1>1 DEF SlotsInv, ReservedOnce
  <2> QED
    BY <1>16, <1>22, <1>23, <2>1
<1>25. ReservedSlots'
  <2>1. \A d \in SocketIds : Hash(d) \in Slots
    BY Numbers
  <2>2. ASSUME NEW d \in SocketIds, NEW v \in Users, Reserving(v, d)'
        PROVE  slot'[Hash(d)].type = "RESERVE" /\ d <= alloc_id' /\ d \notin known'
    <3>1. /\ slot[Hash(d)].type = "RESERVE" /\ d <= alloc_id /\ d \notin known
          /\ Hash(d) # Hash(id)
      BY <1>1, <1>22, <1>23, <2>2 DEF SlotsInv, ReservedSlots
    <3> QED
      BY <1>3, <1>6, <1>15, <2>1, <3>1
  <2>3. ASSUME NEW d \in SocketIds, NEW i \in Nat, Opens(i, d)'
        PROVE  slot'[Hash(d)].type = "RESERVE" /\ slot'[Hash(d)].id = d
    <3>1. CASE Opens(i, d)
      <4>1. /\ slot[Hash(d)].type = "RESERVE" /\ slot[Hash(d)].id = d
            /\ Hash(d) # Hash(id)
        BY <1>1, <1>23, <3>1 DEF SlotsInv, ReservedSlots
      <4> QED
        BY <1>15, <2>1, <4>1
    <3>2. CASE d = id
      BY <1>11, <1>15, <3>2
    <3> QED
      BY <1>16, <2>3, <3>1, <3>2
  <2> QED
    BY <2>2, <2>3 DEF ReservedSlots
<1>26. OpensFirst'
  <2>1. \A i \in DOMAIN pipe' : pipe'[i].id \in known'
    BY <1>1, <1>3, <1>6, <1>16 DEF SlotsInv, OpensFirst
  <2>2. ASSUME NEW i \in DOMAIN pipe', NEW j \in DOMAIN pipe', Opens(i, pipe[j].id)'
        PROVE  i <= j
    <3>1. pipe' \in Seq(Requests)
      BY <1>16
    <3>2. i \in Nat /\ j \in Nat
      BY <3>1
    <3>3. PICK d : d = pipe'[j].id
      OBVIOUS
    <3>4. Opens(i, d)'
      BY <2>2, <3>3 DEF Opens
    <3>5. CASE Opens(i, d)
      <4>1. i <= Len(pipe)
        BY <1>16, <3>2, <3>5
      <4>2. CASE j \in DOMAIN pipe /\ pipe'[j] = pipe[j]
        <5>1. i \in DOMAIN pipe /\ Opens(i, pipe[j].id)
          BY <3>3, <3>5, <4>2 DEF Opens
        <5> QED
          BY <1>1, <4>2, <5>1 DEF SlotsInv, OpensFirst
      <4>3. CASE j = Len(pipe) + 1
        BY <1>16, <3>2, <4>1, <4>3
      <4> QED
        BY <1>16, <4>2, <4>3
    <3>6. CASE i = Len(pipe) + 1 /\ d = id
      <4>1. CASE j \in DOMAIN pipe /\ pipe'[j] = pipe[j]
        <5>1. pipe[j].id \in known
          BY <1>1, <4>1 DEF SlotsInv, OpensFirst
        <5> QED
          BY <1>8, <3>3, <3>6, <4>1, <5>1
      <4>2. CASE j = Len(pipe) + 1
        BY <1>16, <3>2, <3>6, <4>2
      <4> QED
        BY <1>16, <4>1, <4>2
    <3> QED
      BY <1>16, <3>2, <3>4, <3>5, <3>6
  <2> QED
    BY <2>1, <2>2 DEF OpensFirst
<1>27. Numbered'
  BY <1>1, <1>3, <1>16 DEF StreamsInv, Numbered
<1>28. Types'
  <2>1. known' \subseteq 1 .. alloc_id'
    <3>1. alloc_id \in Nat /\ known \subseteq 1 .. alloc_id
      BY <1>1, Numbers DEF Types
    <3>2. id \in 1 .. alloc_id
      BY <1>6, <1>8, <3>1
    <3> QED
      BY <1>3, <1>6, <3>1, <3>2
  <2> QED
    BY <1>1, <1>3, <1>15, <1>16, <1>21, <2>1 DEF Types
<1>29. Limits'
  <2>1. Len(pipe') <= MaxPipe
    BY <1>3, <1>16, Numbers
  <2>2. Len(<<>>) <= 1
    OBVIOUS
  <2> QED
    BY <1>1, <1>21, <2>1, <2>2 DEF Limits
<1> QED
  BY <1>19, <1>20, <1>24, <1>25, <1>26, <1>27, <1>28, <1>29
     DEF SocketInv, SlotsInv, EventsInv, StreamsInv

LEMMA UserStep ==
  ASSUME SocketInv, User
  PROVE  SocketInv'
<1>1. Types
  BY DEF SocketInv
<1>2. ASSUME NEW u \in Users, Reserve(u, "O") \/ Reserve(u, "L") \/ Request(u)
      PROVE  SocketInv'
  <2>1. CASE Request(u)
    BY <2>1, RequestStep
  <2>2. CASE Reserve(u, "O")
    BY <2>2, ReserveStep
  <2>3. CASE Reserve(u, "L")
    BY <2>3, ReserveStep
  <2> QED
    BY <1>2, <2>1, <2>2, <2>3
<1>3. ASSUME NEW id \in known
      PROVE  id \in SocketIds
  <2>1. alloc_id \in 0 .. MaxIds /\ MaxIds \in Nat /\ id \in 1 .. alloc_id
    BY <1>1, Numbers DEF Types
  <2> QED
    BY <2>1 DEF SocketIds
<1>4. packages \in 0 .. MaxPackages /\ MaxPackages \in Nat
  BY <1>1, Numbers DEF Types
<1>5. ASSUME NEW id \in known, NEW low \in BOOLEAN, SendPackage(id, low)
      PROVE  SocketInv'
  <2>1. PICK p : p = [no |-> packages + 1, low |-> low, to |-> id]
    OBVIOUS
  <2>2. packages < MaxPackages /\ packages' = packages + 1
    BY <1>5 DEF SendPackage
  <2>3. packages + 1 \in 1 .. MaxPackages /\ packages < packages + 1
    BY <1>4, <2>2
  <2>4. p \in Packages /\ p.no = packages + 1 /\ p.to = id
    BY <1>3, <2>1, <2>3 DEF Packages
  <2>5. PICK cmd \in {"D", "P"} : cmd = IF low THEN "P" ELSE "D"
    OBVIOUS
  <2>6. PICK m : m = [cmd |-> cmd, id |-> id, p |-> p]
    OBVIOUS
  <2>7. m \in Requests /\ m.cmd = cmd /\ m.id = id /\ m.p = p
    BY <1>3, <2>4, <2>6 DEF Requests, Packages
  <2>8. /\ Len(pipe) < MaxPipe /\ pipe' = Append(pipe, m)
        /\ slot' = slot /\ UNCHANGED serverVars /\ alloc_id' = alloc_id
        /\ reserving' = reserving /\ known' = known /\ UNCHANGED history
    BY <1>5, <2>1, <2>5, <2>6 DEF SendPackage
  <2>9. packages' \in 0 .. MaxPackages /\ packages <= packages' /\ p.no <= packages'
        /\ packages < p.no
    BY <1>4, <2>2, <2>3, <2>4
  <2> QED
    BY <2>4, <2>7, <2>8, <2>9, AskStep
<1>6. ASSUME NEW m \in Requests, m.cmd \in {"S", "K"}, m.id \in known, Ask(m)
      PROVE  SocketInv'
  <2>1. /\ Len(pipe) < MaxPipe /\ pipe' = Append(pipe, m)
        /\ slot' = slot /\ UNCHANGED serverVars /\ alloc_id' = alloc_id
        /\ reserving' = reserving /\ known' = known /\ UNCHANGED history
        /\ packages' = packages
    BY <1>6 DEF Ask
  <2>2. packages' \in 0 .. MaxPackages /\ packages <= packages'
    BY <1>4, <2>1
  <2> QED
    BY <1>6, <2>1, <2>2, AskStep
<1>7. ASSUME NEW id \in known, Start(id)
      PROVE  SocketInv'
  <2>1. PICK m : m = [cmd |-> "S", id |-> id]
    OBVIOUS
  <2>2. m \in Requests /\ m.cmd = "S" /\ m.id = id
    BY <1>3, <2>1 DEF Requests
  <2> QED
    BY <1>6, <1>7, <2>1, <2>2 DEF Start
<1>8. ASSUME NEW id \in known, NEW shutdown \in BOOLEAN, Close(id, shutdown)
      PROVE  SocketInv'
  <2>1. PICK m : m = [cmd |-> "K", id |-> id, shutdown |-> shutdown]
    OBVIOUS
  <2>2. m \in Requests /\ m.cmd = "K" /\ m.id = id
    BY <1>3, <2>1 DEF Requests
  <2> QED
    BY <1>6, <1>8, <2>1, <2>2 DEF Close
<1> QED
  BY <1>2, <1>5, <1>7, <1>8 DEF User

LEMMA SocketInit ==
  ASSUME Init
  PROVE  SocketInv
<1>1. /\ alloc_id = 0 /\ slot = [n \in Slots |-> Free]
      /\ reserving = [u \in Users |-> <<>>] /\ known = {} /\ pipe = <<>>
      /\ checkctrl = TRUE /\ ev = {} /\ clearing = 0 /\ aborted = "no" /\ packages = 0
      /\ wire = [id \in SocketIds |-> <<>>] /\ taken = [id \in SocketIds |-> {}]
      /\ cut = {} /\ told = [id \in SocketIds |-> {}]
  BY DEF Init
<1>2. 0 \in 0 .. MaxIds /\ 0 \in 0 .. MaxPackages /\ MaxPipe \in Nat
  BY Numbers
<1>3. Free \in Sockets /\ Free.type = "INVALID"
  BY <1>2 DEF Free, Sockets, SocketTypes
<1>4. \A n \in Slots : ~InUse(n)
  BY <1>1, <1>3 DEF InUse
<1>5. \A id \in SocketIds : ~Live(id)
  BY <1>4, Numbers DEF Live
<1>6. /\ \A i \in Nat : \A d : ~Opens(i, d)
      /\ \A i \in Nat : ~Sends(i)
      /\ \A u \in Users : \A d : ~Reserving(u, d)
  BY <1>1 DEF Opens, Sends, Reserving
<1>7. Types
  <2>1. <<>> \in Seq(Packages) /\ <<>> \in Seq(Requests) /\ <<>> \in Seq(Reservations)
    OBVIOUS
  <2>2. /\ slot \in [Slots -> Sockets] /\ reserving \in [Users -> Seq(Reservations)]
        /\ wire \in [SocketIds -> Seq(Packages)]
        /\ taken \in [SocketIds -> SUBSET Packages]
        /\ told \in [SocketIds -> SUBSET {"open", "data", "close"}]
    BY <1>1, <1>3, <2>1
  <2> QED
    BY <1>1, <1>2, <2>1, <2>2 DEF Types
<1>8. Limits
  BY <1>1, <1>2 DEF Limits
<1>9. SlotsInv
  <2>1. OpensFirst
    BY <1>1 DEF OpensFirst
  <2> QED
    BY <1>4, <1>6, <2>1 DEF SlotsInv, UsedByItsId, ReservedOnce, ReservedSlots
<1>10. EventsInv
  BY <1>1, <1>5 DEF EventsInv, OneEventEach, EventsLeft, ConnectedIsOpen, DataAfterOpen
<1>11. StreamsInv
  <2>1. Numbered
    BY <1>1, <1>6 DEF Numbered
  <2>2. ASSUME NEW id \in SocketIds
        PROVE  StreamInv(id)
    <3>1. wire[id] = <<>> /\ taken[id] = {} /\ told[id] = {}
      BY <1>1
    <3>2. EndedStream(<<>>, {}, id \in cut)
      BY EmptyStream DEF EndedStream
    <3> QED
      BY <1>5, <3>1, <3>2 DEF StreamInv
  <2> QED
    BY <2>1, <2>2 DEF StreamsInv
<1> QED
  BY <1>7, <1>8, <1>9, <1>10, <1>11 DEF SocketInv

(* SocketInv is kept by every step, of a service and of the socket thread.  *)
THEOREM SocketInvariant == Spec => []SocketInv
<1>1. Init => SocketInv
  BY SocketInit
<1>2. SocketInv /\ [Next]_vars => SocketInv'
  <2> SUFFICES ASSUME SocketInv, [Next]_vars
               PROVE  SocketInv'
    OBVIOUS
  <2>1. CASE User
    BY <2>1, UserStep
  <2>2. CASE ctrl_cmd
    BY <2>2, ctrl_cmdStep
  <2>3. CASE NoCommand \/ clear_closed_event \/ \E b \in Batches : Wait(b)
    BY <2>3, NoCommandStep
  <2>4. CASE \E e \in ev : Event(e)
    BY <2>4, EventStep
  <2>5. CASE UNCHANGED vars
    <3>1. /\ slot' = slot /\ pipe' = pipe /\ UNCHANGED serverVars
          /\ UNCHANGED userVars /\ UNCHANGED history
      BY <2>5 DEF vars
    <3> QED
      BY <3>1
         DEF serverVars, userVars, history, SocketInv, Types, Limits, SlotsInv,
             EventsInv, StreamsInv, UsedByItsId, InUse, ReservedOnce, ReservedSlots,
             Reserving, Opens, OpensFirst, OneEventEach, EventsLeft, ConnectedIsOpen,
             DataAfterOpen, Live, Type, Numbered, Sends, StreamInv, Stream, LowList,
             Unborn
  <2> QED
    BY <2>1, <2>2, <2>3, <2>4, <2>5 DEF Next, SocketThread
<1> QED
  BY <1>1, <1>2, PTL DEF Spec

-----------------------------------------------------------------------------
(* The properties.                                                          *)
LEMMA TypesFit ==
  ASSUME SocketInv
  PROVE  TypeOK
<1>1. Types /\ Limits /\ UsedByItsId
  BY DEF SocketInv, SlotsInv
<1>2. ASSUME NEW n \in Slots
      PROVE  /\ slot[n].type \in {"INVALID", "RESERVE", "PLISTEN", "LISTEN",
                                  "CONNECTING", "CONNECTED", "HALFCLOSE", "PACCEPT"}
             /\ slot[n].id \in 0 .. MaxIds
             /\ {slot[n].high, slot[n].low} \subseteq Seq(Packages)
             /\ slot[n].type \notin {"INVALID", "RESERVE"} => Hash(slot[n].id) = n
             /\ slot[n].type \in {"PLISTEN", "LISTEN", "PACCEPT"}
                  => Buffered(slot[n]) = <<>>
  <2>1. /\ slot[n].type \in SocketTypes /\ slot[n].id \in 0 .. MaxIds
        /\ slot[n].high \in Seq(Packages) /\ slot[n].low \in Seq(Packages)
    BY <1>1, SocketFields
  <2>2. slot[n].type \notin {"INVALID", "RESERVE"} => Hash(slot[n].id) = n
    BY <1>1 DEF UsedByItsId, InUse
  <2>3. ASSUME slot[n].type \in {"PLISTEN", "LISTEN", "PACCEPT"}
        PROVE  Buffered(slot[n]) = <<>>
    <3>1. slot[n].high = <<>> /\ slot[n].low = <<>>
      BY <1>1, <2>3 DEF UsedByItsId, InUse
    <3>2. <<>> \o <<>> = <<>>
      BY EmptySeq, ConcatEmptySeq
    <3> QED
      BY <3>1, <3>2 DEF Buffered
  <2> QED
    BY <2>1, <2>2, <2>3 DEF SocketTypes
<1>3. ASSUME NEW u \in Users
      PROVE  reserving[u] \in Seq(Requests) /\ Len(reserving[u]) <= 1
  <2>1. Reservations \subseteq Requests
    BY DEF Reservations, Requests
  <2>2. reserving[u] \in Seq(Reservations)
    BY <1>1 DEF Types
  <2>3. reserving[u] \in Seq(Requests)
    BY <2>1, <2>2
  <2> QED
    BY <1>1, <2>3 DEF Limits
<1>4. known \subseteq SocketIds
  <2>1. alloc_id \in 0 .. MaxIds /\ MaxIds \in Nat /\ known \subseteq 1 .. alloc_id
    BY <1>1, Numbers DEF Types
  <2>2. 1 .. alloc_id \subseteq 1 .. MaxIds
    BY <2>1
  <2> QED
    BY <2>1, <2>2 DEF SocketIds
<1>5. Len(pipe) <= MaxPipe
  BY <1>1 DEF Limits
<1> QED
  BY <1>1, <1>2, <1>3, <1>4, <1>5 DEF TypeOK, Types

(* What was written to an id, and what is to be written first.              *)
LEMMA WireOf ==
  ASSUME SocketInv, NEW id \in SocketIds
  PROVE  /\ wire[id] \in Seq(Packages) /\ Rows(wire[id]) /\ InOrder(wire[id])
         /\ Range(wire[id]) \subseteq taken[id]
         /\ Live(id) => /\ "close" \notin told[id]
                        /\ wire[id] \o slot[Hash(id)].high \in Seq(Packages)
                        /\ WholeRows(wire[id] \o slot[Hash(id)].high)
                        /\ slot[Hash(id)].low \in Seq(Packages)
                        /\ WholeRows(slot[Hash(id)].low)
         /\ ~Live(id) => EndedStream(wire[id], taken[id], id \in cut)
<1>1. Types /\ SlotsInv /\ EventsInv /\ StreamsInv
  BY DEF SocketInv
<1>2. wire[id] \in Seq(Packages) /\ slot[Hash(id)] \in Sockets
  BY <1>1, AtId
<1>3. CASE ~Live(id)
  BY <1>1, <1>2, <1>3, AtId DEF EndedStream
<1>4. CASE Live(id)
  <2>1. PICK w, h, low : w = wire[id] /\ h = slot[Hash(id)].high /\ low = slot[Hash(id)].low
    OBVIOUS
  <2>2. /\ w \in Seq(Packages) /\ h \in Seq(Packages) /\ low \in Seq(Packages)
        /\ WholeStream(w \o h, low, taken[id]) /\ "close" \notin told[id]
    BY <1>1, <1>2, <1>4, <2>1, AtId DEF Sockets
  <2>3. /\ WholeRows(w \o h) /\ WholeRows(low)
        /\ Range(w \o h) \cup Range(low) = taken[id]
    BY <2>2 DEF WholeStream
  <2>4. EndedStream(w, taken[id], TRUE)
    BY <2>2, StreamEnds
  <2>5. w \o h \in Seq(Packages)
    BY <2>2, Joined
  <2> QED
    BY <1>4, <2>1, <2>2, <2>3, <2>4, <2>5 DEF EndedStream
<1> QED
  BY <1>3, <1>4

LEMMA WholePackages ==
  ASSUME SocketInv
  PROVE  PackagesWhole
<1>1. ASSUME NEW id \in SocketIds
      PROVE  PackagesInOrder(id)
  <2>1. InOrder(wire[id])
    BY WireOf
  <2> QED
    BY <2>1 DEF InOrder, PackagesInOrder
<1>2. ASSUME NEW id \in SocketIds, Has(id), Type(id) # "RESERVE"
      PROVE  /\ Gapless(wire[id] \o slot[Hash(id)].high)
             /\ \A p \in taken[id] :
                  Count(wire[id] \o slot[Hash(id)].high, p) \in {0, PackageSize}
             /\ Gapless(slot[Hash(id)].low) /\ ~list_uncomplete(slot[Hash(id)].low)
  <2>1. Live(id)
    BY <1>2, NotLive
  <2>2. PICK q, low : q = wire[id] \o slot[Hash(id)].high /\ low = slot[Hash(id)].low
    OBVIOUS
  <2>3. q \in Seq(Packages) /\ WholeRows(q) /\ low \in Seq(Packages) /\ WholeRows(low)
    BY <2>1, <2>2, WireOf
  <2>4. Gapless(q) /\ Gapless(low)
    BY <2>3, WholeRowsAreRows, RowsGapless
  <2>5. \A p : Count(q, p) = IF p \in Range(q) THEN PackageSize ELSE 0
    BY <2>3, RowsCounted
  <2>6. \A p : Count(q, p) \in {0, PackageSize}
    BY <2>5
  <2>7. ~list_uncomplete(low)
    BY <2>3, RowsCounted
  <2> QED
    BY <2>2, <2>4, <2>6, <2>7, Zenon
<1>3. ASSUME NEW id \in SocketIds
      PROVE  Gapless(wire[id])
  BY WireOf, RowsGapless
<1> QED
  BY <1>1, <1>2, <1>3 DEF PackagesWhole

LEMMA NoneLost ==
  ASSUME SocketInv
  PROVE  NothingLostByClose
<1> SUFFICES ASSUME NEW id \in SocketIds, "close" \in told[id], id \notin cut,
                    NEW p \in taken[id]
             PROVE  Count(wire[id], p) = PackageSize
  BY DEF NothingLostByClose
<1>1. wire[id] \in Seq(Packages) /\ EndedStream(wire[id], taken[id], id \in cut)
  BY WireOf
<1>2. WholeRows(wire[id]) /\ Range(wire[id]) = taken[id]
  BY <1>1 DEF EndedStream
<1>3. Count(wire[id], p) = IF p \in Range(wire[id]) THEN PackageSize ELSE 0
  BY <1>1, <1>2, RowsCounted
<1> QED
  BY <1>2, <1>3

LEMMA NoneStrays ==
  ASSUME SocketInv
  PROVE  StaleIdHarmless
<1> SUFFICES ASSUME NEW id \in SocketIds, NEW i \in DOMAIN wire[id]
             PROVE  wire[id][i].to = id
  BY DEF StaleIdHarmless
<1>1. Range(wire[id]) \subseteq taken[id]
  BY WireOf
<1>2. wire[id][i] \in taken[id]
  BY <1>1 DEF Range
<1> QED
  BY <1>2 DEF SocketInv, StreamsInv, Numbered

(* The states are well-formed: a slot in use is that of its id, the pipe    *)
(* and the batch hold what they should.                                     *)
THEOREM SocketsTyped == Spec => []TypeOK
BY SocketInvariant, TypesFit, PTL

(* Nothing that a service sends to an id gets to the connection that has    *)
(* the slot of that id since: send_socket compares the id, and no two ids   *)
(* are in a slot at once.                                                   *)
THEOREM StalePackagesRefused == Spec => []StaleIdHarmless
BY SocketInvariant, NoneStrays, PTL

(* forward_message_tcp reports data only of sockets whose open was          *)
(* reported, although the events of a batch outlive their sockets:          *)
(* clear_closed_event takes them away before a slot is used again.          *)
THEOREM OpenBeforeData == Spec => []DataAfterOpen
<1>1. SocketInv => DataAfterOpen
  BY DEF SocketInv, EventsInv
<1> QED
  BY <1>1, SocketInvariant, PTL

(* send_buffer, with the package of the low list that was begun moved to    *)
(* the high list, never cuts a package in two by another, and keeps those   *)
(* of a priority in order.                                                  *)
THEOREM PackagesStayWhole == Spec => []PackagesWhole
BY SocketInvariant, WholePackages, PTL

(* close_socket ends a connection only once its lists are empty, or cuts it *)
(* for an error or a shutdown: what it had taken is all written.            *)
THEOREM CloseLosesNothing == Spec => []NothingLostByClose
BY SocketInvariant, NoneLost, PTL

=============================================================================
