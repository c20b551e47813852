---------------------------- MODULE HandleStorage ----------------------------
(***************************************************************************)
(* The handle storage of a skynet node (skynet-src/skynet_handle.c): an    *)
(* array of slots, in which a context is under the low bits of its handle. *)
(* Its size is a power of two and doubles when it is full.  Handles count  *)
(* up; one is left out when the slot for its low bits is taken.            *)
(*                                                                         *)
(* Contexts are numbers, 0 is none.  What the storage asks of a context is *)
(* its handle, a field of the context and not of the storage: so the       *)
(* operators have it as the parameter handle.  The harbor bits, which are  *)
(* the same in every handle, and the names of services are left out.       *)
(***************************************************************************)
EXTENDS Integers, FiniteSets, FiniteSetsExt

CONSTANTS
  DEFAULT_SLOT_SIZE,  \* the slots at the start (4)
  HANDLE_MASK         \* the largest handle (2^24 - 1)

(* HANDLE_MASK + 1 is a power of two: its divisors are even, but for one.    *)
ASSUME HandleAssumption ==
  /\ DEFAULT_SLOT_SIZE \in Nat \ {0}
  /\ HANDLE_MASK \in Nat \ {0}
  /\ (HANDLE_MASK + 1) % DEFAULT_SLOT_SIZE = 0
  /\ \A d \in 2 .. HANDLE_MASK + 1 : (HANDLE_MASK + 1) % d = 0 => d % 2 = 0

NewStorage ==
  [slot_size |-> DEFAULT_SLOT_SIZE, handle_index |-> 1,
   slot |-> [i \in 0 .. DEFAULT_SLOT_SIZE - 1 |-> 0]]

IsStorage(H, Contexts) ==
  /\ H = [slot_size |-> H.slot_size, handle_index |-> H.handle_index,
          slot |-> H.slot]
  /\ H.slot_size \in Nat \ {0}
  /\ H.handle_index \in 1 .. HANDLE_MASK + 1
  /\ H.slot \in [0 .. H.slot_size - 1 -> Contexts \cup {0}]

InStorage(H, c) == \E i \in DOMAIN H.slot : H.slot[i] = c

(* The i for which the slot of the i-th handle from handle_index on is      *)
(* free.                                                                    *)
Candidate(H, i) == (i + H.handle_index) % (HANDLE_MASK + 1)
FreeSteps(H) ==
  {i \in 0 .. H.slot_size - 1 : H.slot[Candidate(H, i) % H.slot_size] = 0}

(* Fault: the contexts stay under the bits they were under.                 *)
double_slots_OldHash(H, handle) ==
  LET size == 2 * H.slot_size
  IN  [H EXCEPT !.slot_size = size,
                !.slot = [j \in 0 .. size - 1 |->
                            IF j < H.slot_size THEN H.slot[j] ELSE 0]]

(* Each context goes to the slot that one bit more of its handle says.      *)
(* assert(new_slot[hash] == NULL) is NoCollision.                           *)
double_slots(H, handle) ==
  LET size == 2 * H.slot_size
      under(j) == {c \in Range(H.slot) \ {0} : handle[c] % size = j}
  IN  [H EXCEPT !.slot_size = size,
                !.slot = [j \in 0 .. size - 1 |->
                            IF under(j) = {} THEN 0
                            ELSE CHOOSE c \in under(j) : TRUE]]

NoCollision(H, handle) ==
  \A c, d \in Range(H.slot) \ {0} :
    handle[c] % (2 * H.slot_size) = handle[d] % (2 * H.slot_size) => c = d

(* The storage with context c in it, and the handle c is given.  A storage  *)
(* that was doubled has room.                                               *)
skynet_handle_register(H, handle, c) ==
  LET S == IF FreeSteps(H) = {} THEN double_slots(H, handle) ELSE H
      new == Candidate(S, Min(FreeSteps(S)))
  IN  [storage |-> [S EXCEPT !.slot[new % S.slot_size] = c,
                             !.handle_index = new + 1],
       handle |-> new]

(* The context with handle h, or 0.                                         *)
skynet_handle_grab(H, handle, h) ==
  LET c == H.slot[h % H.slot_size]
  IN  IF c # 0 /\ handle[c] = h THEN c ELSE 0

(* The slot of a context that was found.                                    *)
skynet_handle_retire(H, handle, h) ==
  IF skynet_handle_grab(H, handle, h) = 0 THEN H
  ELSE [H EXCEPT !.slot[h % H.slot_size] = 0]
=============================================================================
