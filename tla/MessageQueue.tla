---------------------------- MODULE MessageQueue -----------------------------
(***************************************************************************)
(* The ring buffer of a message queue (skynet-src/skynet_mq.c): the        *)
(* messages are in the cells from head up to tail, round the end.  It is   *)
(* never full: a push that fills the last cell doubles the ring.           *)
(*                                                                         *)
(* A cell between tail and head is not read before it is written; here it  *)
(* holds 0, so that rings with the same messages in the same cells are     *)
(* equal.  The overload warnings are left out.                             *)
(***************************************************************************)
EXTENDS Integers, Sequences

CONSTANT DEFAULT_QUEUE_SIZE  \* the cells of a new ring (64)

ASSUME QueueSizeAssumption == DEFAULT_QUEUE_SIZE \in Nat \ {0, 1}

IsRing(r, M) ==
  /\ r = [cap |-> r.cap, head |-> r.head, tail |-> r.tail, cell |-> r.cell]
  /\ r.cap \in Nat \ {0, 1}
  /\ r.head \in 0 .. r.cap - 1
  /\ r.tail \in 0 .. r.cap - 1
  /\ r.cell \in [0 .. r.cap - 1 -> M]

NewRing ==
  [cap |-> DEFAULT_QUEUE_SIZE, head |-> 0, tail |-> 0,
   cell |-> [i \in 0 .. DEFAULT_QUEUE_SIZE - 1 |-> 0]]

IsEmpty(r) == r.head = r.tail

mq_length(r) == IF r.head <= r.tail THEN r.tail - r.head
                ELSE r.tail + r.cap - r.head

(* Cell i of the ring, counted from 0 on past its end.                      *)
Wrap(r, i) == IF i >= r.cap THEN i - r.cap ELSE i

(* The messages, oldest first: what the ring stands for.                    *)
Contents(r) ==
  [i \in 1 .. mq_length(r) |-> r.cell[Wrap(r, r.head + i - 1)]]

mq_first(r) == r.cell[r.head]

(* The first message is taken, and head comes round to the start.           *)
mq_pop(r) ==
  [cap |-> r.cap, head |-> Wrap(r, r.head + 1), tail |-> r.tail,
   cell |-> [r.cell EXCEPT ![r.head] = 0]]

(* Fault: the cells are copied as they lie.                                 *)
expand_queue_NoTurn(r) ==
  [cap |-> 2 * r.cap, head |-> 0, tail |-> r.cap,
   cell |-> [i \in 0 .. 2 * r.cap - 1 |-> IF i < r.cap THEN r.cell[i] ELSE 0]]

(* The ring is full: the messages are copied to the front of one of twice   *)
(* the size.                                                                *)
expand_queue(r) ==
  [cap |-> 2 * r.cap, head |-> 0, tail |-> r.cap,
   cell |-> [i \in 0 .. 2 * r.cap - 1 |->
               IF i < r.cap THEN r.cell[Wrap(r, r.head + i)] ELSE 0]]

mq_push(r, m) ==
  LET s == [cap |-> r.cap, head |-> r.head, tail |-> Wrap(r, r.tail + 1),
            cell |-> [r.cell EXCEPT ![r.tail] = m]]
  IN  IF s.head = s.tail THEN expand_queue(s) ELSE s
=============================================================================
