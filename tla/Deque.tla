------------------------------- MODULE Deque --------------------------------
(***************************************************************************)
(* What the lists of lluv promise (lluv_list.h, List in lluv/utils.lua): a *)
(* sequence that grows and shrinks at both ends.  op is the operation      *)
(* called last, out the value it returned, Nil if there was none.          *)
(***************************************************************************)
EXTENDS Integers, Sequences

CONSTANTS Values, Nil

VARIABLES q, op, out

Init == q = << >> /\ op = "new" /\ out = Nil

PushFront(v) == op' = "push_front" /\ q' = <<v>> \o q /\ out' = Nil
PushBack(v)  == op' = "push_back" /\ q' = Append(q, v) /\ out' = Nil

PopFront ==
  /\ op' = "pop_front"
  /\ \/ q = << >> /\ q' = q /\ out' = Nil
     \/ q # << >> /\ q' = Tail(q) /\ out' = Head(q)

PopBack ==
  /\ op' = "pop_back"
  /\ \/ q = << >> /\ q' = q /\ out' = Nil
     \/ q # << >> /\ q' = SubSeq(q, 1, Len(q) - 1) /\ out' = q[Len(q)]

Clear == op' = "clear" /\ q' = << >> /\ out' = Nil

(* Only the Lua list inserts and removes in the middle.                    *)
Insert(i, v) ==
  /\ i \in 1..(Len(q) + 1)
  /\ q' = SubSeq(q, 1, i - 1) \o <<v>> \o SubSeq(q, i, Len(q))
  /\ out' = Nil
  /\ op' = "insert"

Remove(i) ==
  /\ i \in 1..Len(q)
  /\ q' = SubSeq(q, 1, i - 1) \o SubSeq(q, i + 1, Len(q))
  /\ out' = q[i]
  /\ op' = "remove"

Ends == \/ \E v \in Values : PushFront(v) \/ PushBack(v)
        \/ PopFront
        \/ PopBack
        \/ Clear

Middle == \E i \in 1..(Len(q) + 1) : Remove(i) \/ \E v \in Values : Insert(i, v)

Spec     == Init /\ [][Ends]_<<q, op, out>>
FullSpec == Init /\ [][Ends \/ Middle]_<<q, op, out>>
=============================================================================
