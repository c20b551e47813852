----------------------------- MODULE TimerWheel ------------------------------
(***************************************************************************)
(* The timer of a skynet node (skynet-src/skynet_timer.c): a wheel of five *)
(* levels.  A node that is due before the lowest digit of the time wraps   *)
(* is in near, under that digit of its expire time; any other is on the    *)
(* level of the highest digit in which expire and time differ.  When a     *)
(* digit changes, the nodes under it move down.                            *)
(*                                                                         *)
(* The digits have TIME_NEAR_SHIFT and TIME_LEVEL_SHIFT bits, as in the    *)
(* code, where they are 8 and 6 and the time has 32; masks and shifts are  *)
(* written as remainders and quotients.                                    *)
(***************************************************************************)
EXTENDS Integers, Sequences, SequencesExt

CONSTANTS TIME_NEAR_SHIFT, TIME_LEVEL_SHIFT

ASSUME WheelAssumption ==
  /\ TIME_NEAR_SHIFT \in Nat \ {0}
  /\ TIME_LEVEL_SHIFT \in Nat \ {0}

TIME_NEAR == 2 ^ TIME_NEAR_SHIFT
TIME_LEVEL == 2 ^ TIME_LEVEL_SHIFT

(* What one step of the digit of level i is worth.                          *)
Span(i) == TIME_NEAR * TIME_LEVEL ^ i

(* The time counts modulo this (2^32).                                      *)
Word == Span(4)

Digit(time, i) == (time \div Span(i)) % TIME_LEVEL

(* A wheel has the time and, under level and digit, the lists that are not  *)
(* empty; near counts as level -1.                                          *)
NewWheel == [time |-> 0, list |-> <<>>]

ListAt(T, slot) == IF slot \in DOMAIN T.list THEN T.list[slot] ELSE <<>>

link(T, slot, n) ==
  [T EXCEPT !.list = [s \in DOMAIN @ \cup {slot} |->
                        IF s = slot THEN Append(ListAt(T, s), n) ELSE @[s]]]

link_clear(T, slot) ==
  [T EXCEPT !.list = [s \in DOMAIN @ \ {slot} |-> @[s]]]

(* The lowest level on which the times differ by that digit alone, or 3.    *)
LevelOf(expire, time) ==
  CHOOSE i \in 0 .. 3 :
    /\ i = 3 \/ expire \div Span(i + 1) = time \div Span(i + 1)
    /\ \A k \in 1 .. i : expire \div Span(k) # time \div Span(k)

Near(time) == <<-1, time % TIME_NEAR>>

add_node(T, n) ==
  IF n.expire \div TIME_NEAR = T.time \div TIME_NEAR
  THEN link(T, Near(n.expire), n)
  ELSE LET i == LevelOf(n.expire, T.time)
       IN  link(T, <<i, Digit(n.expire, i)>>, n)

timer_add(T, id, time) ==
  add_node(T, [id |-> id, expire |-> (T.time + time) % Word])

(* Fault: the list is not emptied.                                          *)
move_list_NoClear(T, slot) == FoldLeft(add_node, T, ListAt(T, slot))

(* Fault: the nodes are added last to first.                                *)
move_list_Reversed(T, slot) ==
  FoldRight(LAMBDA n, S : add_node(S, n), ListAt(T, slot), link_clear(T, slot))

(* The nodes of a list are added anew, first to last.                       *)
move_list(T, slot) ==
  FoldLeft(add_node, link_clear(T, slot), ListAt(T, slot))

(* The time goes on by one.  The list that moves down is that of the        *)
(* highest digit that has changed.                                          *)
timer_shift(T) ==
  LET ct == (T.time + 1) % Word
      S == [T EXCEPT !.time = ct]
      turned == {i \in 0 .. 3 : ct % Span(i) = 0 /\ Digit(ct, i) # 0}
  IN  IF ct = 0 THEN move_list(S, <<3, 0>>)
      ELSE IF turned # {}
      THEN LET i == CHOOSE i \in turned : TRUE
           IN  move_list(S, <<i, Digit(ct, i)>>)
      ELSE S

(* What timer_execute takes out, and what it leaves.                        *)
Expired(T) == ListAt(T, Near(T.time))
timer_execute(T) == link_clear(T, Near(T.time))

(* The nodes in the wheel, and the places nodes are in.                     *)
Nodes(T) == UNION {ToSet(T.list[slot]) : slot \in DOMAIN T.list}
Cells(T) == UNION {{slot} \X DOMAIN T.list[slot] : slot \in DOMAIN T.list}
=============================================================================
