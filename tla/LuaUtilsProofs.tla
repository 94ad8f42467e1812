---------------------------- MODULE LuaUtilsProofs --------------------------
(***************************************************************************)
(* Proofs about the data structures that others build upon.  LluvList and  *)
(* LuaList: the representation invariant, and that both lists implement    *)
(* Deque, the Lua list with insertion and removal anywhere, for any values *)
(* and any range of indices.  LuaBuffer: the number of bytes, and that the *)
(* list of chunks implements ByteStream, for any strings and any bounds.   *)
(***************************************************************************)
EXTENDS LuaList, LuaBuffer, LuaStringProofs

(***************************************************************************)
(* The lists.                                                              *)
(***************************************************************************)

(* Dense, slot by slot; first..last lies within the table.                 *)
SlotInv ==
  /\ TypeOK
  /\ first <= last + 1
  /\ \A i \in Idx : t[i] # Nil <=> (first <= i /\ i <= last)

(* Every operation keeps the occupied slots between first and last.        *)
LEMMA NextKeepsSlots ==
  ASSUME SlotInv, [Next]_vars
  PROVE  SlotInv'
  <1>. USE NilAssumption, IndexAssumption
  <1>1. ASSUME NEW v \in Values, lluv_list_push_front(v)
        PROVE  SlotInv'
    BY <1>1 DEF SlotInv, TypeOK, Ops, Idx, lluv_list_push_front
  <1>2. ASSUME NEW v \in Values, lluv_list_push_back(v)
        PROVE  SlotInv'
    BY <1>2 DEF SlotInv, TypeOK, Ops, Idx, lluv_list_push_back
  <1>3. CASE lluv_list_pop_front
    BY <1>3 DEF SlotInv, TypeOK, Ops, Idx, lluv_list_pop_front, lluv_list_pop_,
                lluv_list_empty
  <1>4. CASE lluv_list_pop_back
    BY <1>4 DEF SlotInv, TypeOK, Ops, Idx, lluv_list_pop_back, lluv_list_pop_,
                lluv_list_empty
  <1>5. CASE lluv_list_close
    <2>1. /\ first' = 0 /\ last' = -1 /\ ref' = FALSE /\ op' = "clear" /\ out' = Nil
          /\ t' \in [Idx -> Values \cup {Nil}]
          /\ \A i \in Idx : t'[i] = Nil
      BY <1>5 DEF lluv_list_close, EmptyTable
    <2>2. TypeOK'
      <3>1. 0 \in -Below..(Above + 1) /\ -1 \in (-Below - 1)..Above
        OBVIOUS
      <3>2. ref' \in BOOLEAN /\ op' \in Ops /\ out' \in Values \cup {Nil}
        BY <2>1 DEF Ops
      <3>. QED  BY <2>1, <3>1, <3>2 DEF TypeOK
    <2>3. \A i \in Idx : ~(0 <= i /\ i <= -1)
      BY DEF Idx
    <2>. QED  BY <2>1, <2>2, <2>3 DEF SlotInv
  <1>6. CASE UNCHANGED vars
    BY <1>6 DEF SlotInv, TypeOK, vars
  <1>. QED  BY <1>1, <1>2, <1>3, <1>4, <1>5, <1>6 DEF Next, Ends

(* The invariant of lluv_list.c.                                           *)
THEOREM SlotInvariance == Spec => []SlotInv
  <1>1. Init => SlotInv
    BY NilAssumption, IndexAssumption DEF Init, SlotInv, TypeOK, Ops, Idx, EmptyTable
  <1>. QED  BY <1>1, NextKeepsSlots, PTL DEF Spec

(* The asserts of lluv_list_pop_ and the cast of lluv_list_size hold, and  *)
(* no popped value stays in the table.                                     *)
THEOREM ListIsDense == Spec => []Dense
  <1>1. SlotInv => Dense
    BY IndexAssumption DEF SlotInv, TypeOK, Dense, lluv_list_size, Idx
  <1>. QED  BY <1>1, SlotInvariance, PTL

(* The slots f..l of a table, as a sequence.                               *)
Slice(tab, f, l) == [i \in 1..(l - f + 1) |-> tab[f + i - 1]]

(* A range of occupied slots is a sequence of values.                      *)
LEMMA SliceIsSeq ==
  ASSUME NEW tab, NEW f \in Int, NEW l \in Int, f <= l + 1,
         \A i \in f..l : tab[i] \in Values
  PROVE  /\ Slice(tab, f, l) \in Seq(Values)
         /\ Len(Slice(tab, f, l)) = l - f + 1
         /\ \A i \in 1..(l - f + 1) : Slice(tab, f, l)[i] = tab[f + i - 1]
  <1>1. l - f + 1 \in Nat
    OBVIOUS
  <1>2. \A i \in 1..(l - f + 1) : tab[f + i - 1] \in Values
    OBVIOUS
  <1>3. Slice(tab, f, l) \in [1..(l - f + 1) -> Values]
    BY <1>2 DEF Slice
  <1>4. Slice(tab, f, l) \in Seq(Values)
    BY <1>1, <1>3, SeqDef
  <1>5. Len(Slice(tab, f, l)) = l - f + 1
    BY <1>1, <1>3, <1>4, LenProperties
  <1>. QED  BY <1>4, <1>5 DEF Slice

(* The slots of an empty list.                                             *)
LEMMA EmptySlots ==
  ASSUME NEW tab
  PROVE  Slice(tab, 0, -1) = << >>
  <1>1. /\ Slice(tab, 0, -1) \in Seq(Values)
        /\ Len(Slice(tab, 0, -1)) = -1 - 0 + 1
    <2>1. /\ 0 \in Int /\ -1 \in Int /\ 0 <= -1 + 1
          /\ \A i \in 0..(-1) : tab[i] \in Values
      OBVIOUS
    <2>. QED  BY <2>1, SliceIsSeq
  <1>. QED  BY <1>1, EmptySeq

(* What the refinement needs of one state.                                 *)
LEMMA SlotsAreValues ==
  ASSUME SlotInv
  PROVE  /\ first \in Int /\ last \in Int /\ first <= last + 1
         /\ \A i \in first..last : i \in Idx /\ t[i] \in Values
         /\ Contents = Slice(t, first, last)
  BY IndexAssumption
  DEF SlotInv, TypeOK, Ops, Idx, Contents, Slice, lluv_list_size

(***************************************************************************)
(* Each operation on slots is the operation on sequences.                  *)
(***************************************************************************)

(* lluv_list_push_back appends.                                            *)
LEMMA PushBackSlice ==
  ASSUME NEW tab, NEW new, NEW f \in Int, NEW l \in Int, f <= l + 1,
         \A i \in f..l : tab[i] \in Values,
         NEW v \in Values, new[l + 1] = v,
         \A i \in f..l : new[i] = tab[i]
  PROVE  Slice(new, f, l + 1) = Append(Slice(tab, f, l), v)
  <1>. DEFINE a == Slice(tab, f, l)
              b == Slice(new, f, l + 1)
  <1>1. /\ a \in Seq(Values) /\ Len(a) = l - f + 1
        /\ \A i \in 1..(l - f + 1) : a[i] = tab[f + i - 1]
    BY SliceIsSeq
  <1>2. \A i \in f..(l + 1) : new[i] \in Values
    OBVIOUS
  <1>3. /\ b \in Seq(Values) /\ Len(b) = l - f + 2
        /\ \A i \in 1..(l - f + 2) : b[i] = new[f + i - 1]
    <2>1. l + 1 \in Int /\ f <= (l + 1) + 1 /\ (l + 1) - f + 1 = l - f + 2
      OBVIOUS
    <2>. QED  BY <1>2, <2>1, SliceIsSeq
  <1>. HIDE DEF a, b
  <1>4. /\ Append(a, v) \in Seq(Values) /\ Len(Append(a, v)) = l - f + 2
        /\ \A i \in 1..(l - f + 1) : Append(a, v)[i] = a[i]
        /\ Append(a, v)[l - f + 2] = v
    BY <1>1
  <1>5. ASSUME NEW i \in 1..Len(b)
        PROVE  b[i] = Append(a, v)[i]
    <2>1. CASE i = l - f + 2
      BY <1>3, <1>4, <2>1
    <2>2. CASE i # l - f + 2
      <3>1. i \in 1..(l - f + 1) /\ f + i - 1 \in f..l
        BY <1>3, <2>2
      <3>. QED  BY <1>1, <1>3, <1>4, <3>1
    <2>. QED  BY <2>1, <2>2
  <1>6. b = Append(a, v)
    BY <1>3, <1>4, <1>5, SeqEqual
  <1>. QED  BY <1>6 DEF a, b

(* lluv_list_push_front puts the value before the others.                  *)
LEMMA PushFrontSlice ==
  ASSUME NEW tab, NEW new, NEW f \in Int, NEW l \in Int, f <= l + 1,
         \A i \in f..l : tab[i] \in Values,
         NEW v \in Values, new[f - 1] = v,
         \A i \in f..l : new[i] = tab[i]
  PROVE  Slice(new, f - 1, l) = <<v>> \o Slice(tab, f, l)
  <1>. DEFINE a == Slice(tab, f, l)
              b == Slice(new, f - 1, l)
              c == <<v>> \o a
  <1>1. /\ a \in Seq(Values) /\ Len(a) = l - f + 1
        /\ \A i \in 1..(l - f + 1) : a[i] = tab[f + i - 1]
    BY SliceIsSeq
  <1>2. \A i \in (f - 1)..l : new[i] \in Values
    OBVIOUS
  <1>3. /\ b \in Seq(Values) /\ Len(b) = l - f + 2
        /\ \A i \in 1..(l - f + 2) : b[i] = new[f + i - 2]
    <2>1. f - 1 \in Int /\ f - 1 <= l + 1 /\ l - (f - 1) + 1 = l - f + 2
      OBVIOUS
    <2>2. /\ b \in Seq(Values) /\ Len(b) = l - (f - 1) + 1
          /\ \A i \in 1..(l - (f - 1) + 1) : b[i] = new[(f - 1) + i - 1]
      BY <1>2, <2>1, SliceIsSeq
    <2>3. \A i \in 1..(l - f + 2) : (f - 1) + i - 1 = f + i - 2
      OBVIOUS
    <2>. HIDE DEF b
    <2>. QED  BY <2>1, <2>2, <2>3
  <1>. HIDE DEF a, b
  <1>4. <<v>> \in Seq(Values) /\ Len(<<v>>) = 1 /\ <<v>>[1] = v
    OBVIOUS
  <1>5. /\ c \in Seq(Values) /\ Len(c) = 1 + Len(a)
        /\ \A i \in 1..(1 + Len(a)) : c[i] = IF i <= 1 THEN <<v>>[i] ELSE a[i - 1]
    BY <1>1, <1>4, ConcatProperties
  <1>. HIDE DEF c
  <1>6. Len(c) = l - f + 2
    BY <1>1, <1>5
  <1>7. ASSUME NEW i \in 1..Len(b)
        PROVE  b[i] = c[i]
    <2>1. CASE i = 1
      BY <1>1, <1>3, <1>4, <1>5, <2>1
    <2>2. CASE i # 1
      <3>1. i - 1 \in 1..(l - f + 1) /\ f + (i - 1) - 1 \in f..l
            /\ f + (i - 1) - 1 = f + i - 2 /\ i \in 1..(1 + Len(a)) /\ ~(i <= 1)
        BY <1>1, <1>3, <2>2
      <3>. QED  BY <1>1, <1>3, <1>5, <3>1
    <2>. QED  BY <2>1, <2>2
  <1>8. b = c
    BY <1>3, <1>5, <1>6, <1>7, SeqEqual
  <1>. QED  BY <1>8 DEF a, b, c

(* lluv_list_pop_front takes the first element.                            *)
LEMMA PopFrontSlice ==
  ASSUME NEW tab, NEW new, NEW f \in Int, NEW l \in Int, f <= l,
         \A i \in f..l : tab[i] \in Values,
         \A i \in (f + 1)..l : new[i] = tab[i]
  PROVE  LET a == Slice(tab, f, l)
         IN  a # << >> /\ Slice(new, f + 1, l) = Tail(a) /\ Head(a) = tab[f]
  <1>. DEFINE a == Slice(tab, f, l)
              b == Slice(new, f + 1, l)
  <1>1. /\ a \in Seq(Values) /\ Len(a) = l - f + 1
        /\ \A i \in 1..(l - f + 1) : a[i] = tab[f + i - 1]
    BY SliceIsSeq
  <1>2. \A i \in (f + 1)..l : new[i] \in Values
    OBVIOUS
  <1>3. /\ b \in Seq(Values) /\ Len(b) = l - f
        /\ \A i \in 1..(l - f) : b[i] = new[f + i]
    <2>1. f + 1 \in Int /\ f + 1 <= l + 1 /\ l - (f + 1) + 1 = l - f
      OBVIOUS
    <2>2. \A i \in 1..(l - f) : (f + 1) + i - 1 = f + i
      OBVIOUS
    <2>. QED  BY <1>2, <2>1, <2>2, SliceIsSeq
  <1>. HIDE DEF a, b
  <1>4. a # << >>
    BY <1>1
  <1>5. /\ Tail(a) \in Seq(Values) /\ Len(Tail(a)) = Len(a) - 1
        /\ \A i \in 1..Len(Tail(a)) : Tail(a)[i] = a[i + 1]
    BY <1>1, <1>4, HeadTailProperties
  <1>6. ASSUME NEW i \in 1..Len(b)
        PROVE  b[i] = Tail(a)[i]
    <2>1. /\ i + 1 \in 1..(l - f + 1) /\ f + (i + 1) - 1 = f + i
          /\ f + i \in (f + 1)..l /\ i \in 1..Len(Tail(a)) /\ i \in 1..(l - f)
      BY <1>1, <1>3, <1>5
    <2>2. b[i] = new[f + i] /\ new[f + i] = tab[f + i]
      BY <1>3, <2>1
    <2>3. Tail(a)[i] = a[i + 1] /\ a[i + 1] = tab[f + i]
      BY <1>1, <1>5, <2>1
    <2>. QED  BY <2>2, <2>3
  <1>7. b = Tail(a)
    <2>1. Len(b) = Len(Tail(a))
      BY <1>1, <1>3, <1>5
    <2>. QED  BY <1>3, <1>5, <1>6, <2>1, SeqEqual
  <1>8. Head(a) = tab[f]
    <2>1. Head(a) = a[1] /\ 1 \in 1..(l - f + 1) /\ f + 1 - 1 = f
      BY <1>1, <1>4
    <2>. QED  BY <1>1, <2>1
  <1>. QED  BY <1>4, <1>7, <1>8 DEF a, b

(* lluv_list_pop_back takes the last element.                              *)
LEMMA PopBackSlice ==
  ASSUME NEW tab, NEW new, NEW f \in Int, NEW l \in Int, f <= l,
         \A i \in f..l : tab[i] \in Values,
         \A i \in f..(l - 1) : new[i] = tab[i]
  PROVE  LET a == Slice(tab, f, l)
         IN  /\ a # << >>
             /\ Slice(new, f, l - 1) = SubSeq(a, 1, Len(a) - 1)
             /\ a[Len(a)] = tab[l]
  <1>. DEFINE a == Slice(tab, f, l)
              b == Slice(new, f, l - 1)
              c == SubSeq(a, 1, Len(a) - 1)
  <1>1. /\ a \in Seq(Values) /\ Len(a) = l - f + 1
        /\ \A i \in 1..(l - f + 1) : a[i] = tab[f + i - 1]
    BY SliceIsSeq
  <1>2. \A i \in f..(l - 1) : new[i] \in Values
    OBVIOUS
  <1>3. /\ b \in Seq(Values) /\ Len(b) = l - f
        /\ \A i \in 1..(l - f) : b[i] = new[f + i - 1]
    <2>1. l - 1 \in Int /\ f <= (l - 1) + 1 /\ (l - 1) - f + 1 = l - f
      OBVIOUS
    <2>. QED  BY <1>2, <2>1, SliceIsSeq
  <1>. HIDE DEF a, b
  <1>4. a # << >>
    BY <1>1
  <1>5. c \in Seq(Values) /\ Len(c) = l - f /\ \A i \in 1..(l - f) : c[i] = a[i]
    <2>1. /\ 1 \in Int /\ Len(a) - 1 \in Int
          /\ \A i \in 1..(Len(a) - 1) : a[i] \in Values
      BY <1>1
    <2>2. /\ c \in Seq(Values)
          /\ Len(c) = IF 1 <= Len(a) - 1 THEN (Len(a) - 1) - 1 + 1 ELSE 0
          /\ \A i \in 1..((Len(a) - 1) - 1 + 1) : c[i] = a[1 + i - 1]
      BY <2>1, SubSeqProperties
    <2>. HIDE DEF c
    <2>3. (Len(a) - 1) - 1 + 1 = l - f /\ Len(c) = l - f
      BY <1>1, <2>2
    <2>4. \A i \in 1..(l - f) : 1 + i - 1 = i
      OBVIOUS
    <2>. QED  BY <2>2, <2>3, <2>4
  <1>. HIDE DEF c
  <1>6. ASSUME NEW i \in 1..Len(b)
        PROVE  b[i] = c[i]
    <2>1. /\ i \in 1..(l - f) /\ i \in 1..(l - f + 1)
          /\ f + i - 1 \in f..(l - 1)
      BY <1>3
    <2>. QED  BY <1>1, <1>3, <1>5, <2>1
  <1>7. b = c
    BY <1>3, <1>5, <1>6, SeqEqual
  <1>8. a[Len(a)] = tab[l]
    <2>1. Len(a) \in 1..(l - f + 1) /\ f + Len(a) - 1 = l
      BY <1>1
    <2>. QED  BY <1>1, <2>1
  <1>. QED  BY <1>4, <1>7, <1>8 DEF a, b, c

(***************************************************************************)
(* The refinement.                                                         *)
(***************************************************************************)

(* A step of the list is a step of the deque or leaves it alone.           *)
LEMMA StepRefines ==
  ASSUME SlotInv, SlotInv', [Next]_vars
  PROVE  [D!Ends]_<<Contents, op, out>>
  <1>1. /\ first \in Int /\ last \in Int /\ first <= last + 1
        /\ \A i \in first..last : i \in Idx /\ t[i] \in Values
        /\ Contents = Slice(t, first, last)
    BY SlotsAreValues
  <1>2. Contents' = Slice(t', first', last')
    BY DEF Contents, Slice, lluv_list_size
  <1>3. t \in [Idx -> Values \cup {Nil}]
    BY DEF SlotInv, TypeOK
  <1>4. first > last => Contents = << >>
    <2>. SUFFICES ASSUME first > last PROVE Contents = << >>
      OBVIOUS
    <2>1. Contents \in Seq(Values) /\ Len(Contents) = last - first + 1
      BY <1>1, SliceIsSeq
    <2>2. Len(Contents) = 0
      BY <1>1, <2>1
    <2>. QED  BY <2>1, <2>2, EmptySeq
  <1>5. ASSUME NEW v \in Values, lluv_list_push_back(v)
        PROVE  D!PushBack(v)
    <2>1. /\ first' = first /\ last' = last + 1 /\ op' = "push_back" /\ out' = Nil
          /\ t'[last + 1] = v /\ \A i \in first..last : t'[i] = t[i]
      BY <1>1, <1>3, <1>5 DEF lluv_list_push_back
    <2>. QED  BY <1>1, <1>2, <2>1, PushBackSlice DEF D!PushBack
  <1>6. ASSUME NEW v \in Values, lluv_list_push_front(v)
        PROVE  D!PushFront(v)
    <2>1. /\ first' = first - 1 /\ last' = last /\ op' = "push_front" /\ out' = Nil
          /\ t'[first - 1] = v /\ \A i \in first..last : t'[i] = t[i]
      BY <1>1, <1>3, <1>6 DEF lluv_list_push_front
    <2>. QED  BY <1>1, <1>2, <2>1, PushFrontSlice DEF D!PushFront
  <1>7. CASE lluv_list_pop_front
    <2>1. CASE first > last
      <3>1. Contents' = Contents /\ op' = "pop_front" /\ out' = Nil
        BY <1>1, <1>2, <1>7, <2>1
        DEF lluv_list_pop_front, lluv_list_pop_, lluv_list_empty
      <3>. QED  BY <1>4, <2>1, <3>1 DEF D!Ends, D!PopFront
    <2>2. CASE ~(first > last)
      <3>1. /\ first' = first + 1 /\ last' = last /\ op' = "pop_front" /\ out' = t[first]
            /\ first <= last /\ \A i \in (first + 1)..last : t'[i] = t[i]
        BY <1>1, <1>3, <1>7, <2>2
        DEF lluv_list_pop_front, lluv_list_pop_, lluv_list_empty
      <3>2. D!PopFront
        BY <1>1, <1>2, <3>1, PopFrontSlice DEF D!PopFront
      <3>. QED  BY <3>2 DEF D!Ends
    <2>. QED  BY <2>1, <2>2
  <1>8. CASE lluv_list_pop_back
    <2>1. CASE first > last
      <3>1. Contents' = Contents /\ op' = "pop_back" /\ out' = Nil
        BY <1>1, <1>2, <1>8, <2>1
        DEF lluv_list_pop_back, lluv_list_pop_, lluv_list_empty
      <3>. QED  BY <1>4, <2>1, <3>1 DEF D!Ends, D!PopBack
    <2>2. CASE ~(first > last)
      <3>1. /\ first' = first /\ last' = last - 1 /\ op' = "pop_back" /\ out' = t[last]
            /\ first <= last /\ \A i \in first..(last - 1) : t'[i] = t[i]
        BY <1>1, <1>3, <1>8, <2>2
        DEF lluv_list_pop_back, lluv_list_pop_, lluv_list_empty
      <3>2. D!PopBack
        BY <1>1, <1>2, <3>1, PopBackSlice DEF D!PopBack
      <3>. QED  BY <3>2 DEF D!Ends
    <2>. QED  BY <2>1, <2>2
  <1>9. CASE lluv_list_close
    <2>1. first' = 0 /\ last' = -1 /\ op' = "clear" /\ out' = Nil
      BY <1>9 DEF lluv_list_close
    <2>2. Contents' = << >>
      BY <1>2, <2>1, EmptySlots
    <2>. QED  BY <2>1, <2>2 DEF D!Ends, D!Clear
  <1>10. CASE UNCHANGED vars
    BY <1>1, <1>2, <1>10 DEF vars
  <1>. QED
    BY <1>5, <1>6, <1>7, <1>8, <1>9, <1>10 DEF Next, Ends, D!Ends

LEMMA InitRefines ==
  ASSUME Init
  PROVE  SlotInv /\ D!Init
  <1>1. SlotInv
    BY NilAssumption, IndexAssumption DEF Init, SlotInv, TypeOK, Ops, Idx, EmptyTable
  <1>2. first = 0 /\ last = -1 /\ op = "new" /\ out = Nil /\ Contents = Slice(t, 0, -1)
    BY DEF Init, Contents, Slice, lluv_list_size
  <1>. QED  BY <1>1, <1>2, EmptySlots DEF D!Init

(* lluv_list.c implements a deque.                                         *)
THEOREM ListRefinesDeque == Spec => ImplementsDeque
  <1>1. Init => D!Init
    BY InitRefines
  <1>. QED
    BY <1>1, SlotInvariance, StepRefines, PTL DEF Spec, ImplementsDeque, D!Spec

(***************************************************************************)
(* The Lua list: insertion and removal in the middle.                      *)
(***************************************************************************)

(* Two sequences one behind the other, and a slice of one.                 *)
LEMMA SubSeqFacts ==
  ASSUME NEW a \in Seq(Values), NEW m \in 1..(Len(a) + 1), NEW n \in (m - 1)..Len(a)
  PROVE  /\ SubSeq(a, m, n) \in Seq(Values) /\ Len(SubSeq(a, m, n)) = n - m + 1
         /\ \A i \in 1..(n - m + 1) : SubSeq(a, m, n)[i] = a[m + i - 1]
  <1>1. Len(a) \in Nat /\ m \in Int /\ n \in Int /\ \A i \in m..n : a[i] \in Values
    OBVIOUS
  <1>. DEFINE s == SubSeq(a, m, n)
  <1>2. /\ s \in Seq(Values)
        /\ Len(s) = IF m <= n THEN n - m + 1 ELSE 0
        /\ \A i \in 1..(n - m + 1) : s[i] = a[m + i - 1]
    BY <1>1, SubSeqProperties
  <1>. HIDE DEF s
  <1>3. Len(s) = n - m + 1
    BY <1>1, <1>2
  <1>. QED  BY <1>2, <1>3 DEF s

(* A sequence with v at position p, and without the element there.         *)
Inserted(a, p, v) == SubSeq(a, 1, p - 1) \o <<v>> \o SubSeq(a, p, Len(a))
Removed(a, p)     == SubSeq(a, 1, p - 1) \o SubSeq(a, p + 1, Len(a))

(* The slots g..h of the table new hold what the slots f..l of tab held,   *)
(* with v at position p, and without the value there: whichever side was   *)
(* shifted.                                                                *)
HasInserted(new, g, h, tab, f, l, p, v) ==
  /\ h - g = l - f + 1
  /\ new[g + p - 1] = v
  /\ \A i \in 1..(p - 1) : new[g + i - 1] = tab[f + i - 1]
  /\ \A i \in p..(l - f + 1) : new[g + i] = tab[f + i - 1]

HasRemoved(new, g, h, tab, f, l, p) ==
  /\ h - g = l - f - 1
  /\ \A i \in 1..(p - 1) : new[g + i - 1] = tab[f + i - 1]
  /\ \A i \in p..(l - f) : new[g + i - 1] = tab[f + i]

(* insert.                                                                 *)
LEMMA InsertSlice ==
  ASSUME NEW tab, NEW new, NEW f \in Int, NEW l \in Int, f <= l + 1,
         \A i \in f..l : tab[i] \in Values,
         NEW v \in Values, NEW p \in 1..(l - f + 2), NEW g \in Int,
         NEW h \in Int, HasInserted(new, g, h, tab, f, l, p, v)
  PROVE  LET a == Slice(tab, f, l)
         IN  /\ p \in 1..(Len(a) + 1)
             /\ Slice(new, g, h) = Inserted(a, p, v)
  <1>. DEFINE a == Slice(tab, f, l)
              b == Slice(new, g, h)
              x == SubSeq(a, 1, p - 1)
              y == SubSeq(a, p, Len(a))
              xv == x \o <<v>>
              c == xv \o y
  <1>0. PICK n \in Nat : n = l - f + 1
    OBVIOUS
  <1>. USE DEF HasInserted
  <1>1. /\ a \in Seq(Values) /\ Len(a) = n
        /\ \A i \in 1..n : a[i] = tab[f + i - 1]
    BY <1>0, SliceIsSeq
  <1>2. \A i \in g..(g + n) : new[i] \in Values
    <2>. SUFFICES ASSUME NEW i \in g..(g + n)
                  PROVE  new[i] \in Values
      OBVIOUS
    <2>1. PICK q \in 1..(n + 1) : q = i - g + 1
      BY <1>0
    <2>2. CASE q = p
      BY <2>1, <2>2
    <2>3. CASE q < p
      <3>1. q \in 1..(p - 1) /\ g + q - 1 = i /\ f + q - 1 \in f..l
        BY <1>0, <2>1, <2>3
      <3>. QED  BY <3>1
    <2>4. CASE q > p
      <3>1. PICK j \in p..(l - f + 1) : j = q - 1
        BY <1>0, <2>1, <2>4
      <3>2. g + j = i /\ f + j - 1 \in f..l
        BY <1>0, <2>1, <3>1
      <3>. QED  BY <3>2
    <2>. QED  BY <2>1, <2>2, <2>3, <2>4
  <1>3. /\ b \in Seq(Values) /\ Len(b) = n + 1
        /\ \A i \in 1..(n + 1) : b[i] = new[g + i - 1]
    <2>1. h = g + n /\ g <= h + 1 /\ h - g + 1 = n + 1
      BY <1>0
    <2>. QED  BY <1>2, <2>1, SliceIsSeq
  <1>4. p \in 1..(n + 1) /\ p - 1 \in 0..n /\ 1 \in 1..(n + 1) /\ n \in (p - 1)..n
    BY <1>0
  <1>. HIDE DEF a, b
  <1>5. /\ x \in Seq(Values) /\ Len(x) = p - 1
        /\ \A i \in 1..(p - 1) : x[i] = a[i]
    <2>1. PICK m \in 0..n : m = p - 1
      BY <1>4
    <2>2. /\ SubSeq(a, 1, m) \in Seq(Values) /\ Len(SubSeq(a, 1, m)) = m - 1 + 1
          /\ \A i \in 1..(m - 1 + 1) : SubSeq(a, 1, m)[i] = a[1 + i - 1]
      BY <1>1, <1>4, <2>1, SubSeqFacts
    <2>3. m - 1 + 1 = m /\ \A i \in 1..m : 1 + i - 1 = i
      OBVIOUS
    <2>4. SubSeq(a, 1, m) = x
      BY <2>1
    <2>. HIDE DEF x
    <2>. QED  BY <2>1, <2>2, <2>3, <2>4
  <1>6. /\ y \in Seq(Values) /\ Len(y) = n - p + 1
        /\ \A i \in 1..(n - p + 1) : y[i] = a[p + i - 1]
    BY <1>1, <1>4, SubSeqFacts
  <1>. HIDE DEF x, y
  <1>7. <<v>> \in Seq(Values) /\ Len(<<v>>) = 1 /\ <<v>>[1] = v
    OBVIOUS
  <1>8. /\ xv \in Seq(Values) /\ Len(xv) = p
        /\ \A i \in 1..(p - 1) : xv[i] = x[i]
        /\ xv[p] = v
    <2>1. /\ xv \in Seq(Values) /\ Len(xv) = Len(x) + 1
          /\ \A i \in 1..(Len(x) + 1) : xv[i] = IF i <= Len(x) THEN x[i] ELSE <<v>>[i - Len(x)]
      BY <1>5, <1>7, ConcatProperties
    <2>. HIDE DEF xv
    <2>2. p \in 1..(Len(x) + 1) /\ ~(p <= Len(x)) /\ p - Len(x) = 1
      BY <1>4, <1>5
    <2>3. \A i \in 1..(p - 1) : i \in 1..(Len(x) + 1) /\ i <= Len(x)
      BY <1>4, <1>5
    <2>4. xv[p] = v
      BY <1>7, <2>1, <2>2
    <2>. QED  BY <1>4, <1>5, <2>1, <2>3, <2>4
  <1>. HIDE DEF xv
  <1>9. /\ c \in Seq(Values) /\ Len(c) = n + 1
        /\ \A i \in 1..p : c[i] = xv[i]
        /\ \A i \in (p + 1)..(n + 1) : c[i] = y[i - p]
    <2>0. xv \in Seq(Values) /\ y \in Seq(Values)
      BY <1>6, <1>8
    <2>1. /\ c \in Seq(Values) /\ Len(c) = Len(xv) + Len(y)
          /\ \A i \in 1..(Len(xv) + Len(y)) :
               c[i] = IF i <= Len(xv) THEN xv[i] ELSE y[i - Len(xv)]
      BY <2>0, ConcatProperties
    <2>. HIDE DEF c
    <2>. QED  BY <1>4, <1>6, <1>8, <2>1
  <1>. HIDE DEF c
  <1>10. ASSUME NEW i \in 1..Len(b)
         PROVE  b[i] = c[i]
    <2>1. CASE i = p
      BY <1>3, <1>4, <1>8, <1>9, <2>1
    <2>2. CASE i < p
      <3>1. i \in 1..(p - 1) /\ i \in 1..p /\ i \in 1..n /\ i \in 1..(n + 1)
        BY <1>3, <1>4, <2>2
      <3>2. c[i] = xv[i] /\ xv[i] = x[i] /\ x[i] = a[i] /\ a[i] = tab[f + i - 1]
        BY <1>1, <1>5, <1>8, <1>9, <3>1
      <3>3. b[i] = new[g + i - 1] /\ new[g + i - 1] = tab[f + i - 1]
        BY <1>3, <3>1
      <3>. QED  BY <3>2, <3>3
    <2>3. CASE i > p
      <3>1. PICK j \in p..n : j = i - 1
        BY <1>3, <1>4, <2>3
      <3>2. PICK q \in 1..(n - p + 1) : q = i - p
        BY <1>3, <1>4, <2>3
      <3>3. i \in (p + 1)..(n + 1) /\ p + q - 1 = j /\ j \in 1..n /\ g + i - 1 = g + j
            /\ j \in p..(l - f + 1) /\ i \in 1..(n + 1)
        BY <1>0, <1>3, <1>4, <2>3, <3>1, <3>2
      <3>4. c[i] = y[q] /\ y[q] = a[j] /\ a[j] = tab[f + j - 1]
        BY <1>1, <1>6, <1>9, <3>2, <3>3
      <3>5. b[i] = new[g + j] /\ new[g + j] = tab[f + j - 1]
        BY <1>3, <3>3
      <3>. QED  BY <3>4, <3>5
    <2>. QED  BY <1>3, <1>4, <2>1, <2>2, <2>3
  <1>11. b = c
    BY <1>3, <1>9, <1>10, SeqEqual
  <1>. QED  BY <1>1, <1>4, <1>11 DEF Inserted, a, b, c, xv, x, y

(* remove, in the same way.                                                *)
LEMMA RemoveSlice ==
  ASSUME NEW tab, NEW new, NEW f \in Int, NEW l \in Int, f <= l + 1,
         \A i \in f..l : tab[i] \in Values,
         NEW p \in 1..(l - f + 1), NEW g \in Int,
         NEW h \in Int, HasRemoved(new, g, h, tab, f, l, p)
  PROVE  LET a == Slice(tab, f, l)
         IN  /\ p \in 1..Len(a) /\ a[p] = tab[f + p - 1]
             /\ Slice(new, g, h) = Removed(a, p)
  <1>. DEFINE a == Slice(tab, f, l)
              b == Slice(new, g, h)
              x == SubSeq(a, 1, p - 1)
              y == SubSeq(a, p + 1, Len(a))
              c == x \o y
  <1>0. PICK n \in Nat : n = l - f + 1 /\ n # 0
    OBVIOUS
  <1>1. /\ a \in Seq(Values) /\ Len(a) = n
        /\ \A i \in 1..n : a[i] = tab[f + i - 1]
    BY <1>0, SliceIsSeq
  <1>. USE DEF HasRemoved
  <1>2. \A i \in g..(g + n - 2) : new[i] \in Values
    <2>. SUFFICES ASSUME NEW i \in g..(g + n - 2)
                  PROVE  new[i] \in Values
      OBVIOUS
    <2>1. PICK k \in 1..(n - 1) : k = i - g + 1
      BY <1>0
    <2>2. CASE k < p
      <3>1. k \in 1..(p - 1) /\ g + k - 1 = i /\ f + k - 1 \in f..l
        BY <1>0, <2>1, <2>2
      <3>. QED  BY <3>1
    <2>3. CASE k >= p
      <3>1. k \in p..(l - f) /\ g + k - 1 = i /\ f + k \in f..l
        BY <1>0, <2>1, <2>3
      <3>. QED  BY <3>1
    <2>. QED  BY <2>1, <2>2, <2>3
  <1>3. /\ b \in Seq(Values) /\ Len(b) = n - 1
        /\ \A i \in 1..(n - 1) : b[i] = new[g + i - 1]
    <2>1. h = g + n - 2 /\ g <= h + 1 /\ h - g + 1 = n - 1
      BY <1>0
    <2>. QED  BY <1>2, <2>1, SliceIsSeq
  <1>4. p \in 1..n /\ p - 1 \in 0..n /\ 1 \in 1..(n + 1) /\ n \in ((p + 1) - 1)..n
        /\ p + 1 \in 1..(n + 1)
    BY <1>0
  <1>. HIDE DEF a, b
  <1>5. /\ x \in Seq(Values) /\ Len(x) = p - 1
        /\ \A i \in 1..(p - 1) : x[i] = a[i]
    <2>1. PICK m \in 0..n : m = p - 1
      BY <1>4
    <2>2. /\ SubSeq(a, 1, m) \in Seq(Values) /\ Len(SubSeq(a, 1, m)) = m - 1 + 1
          /\ \A i \in 1..(m - 1 + 1) : SubSeq(a, 1, m)[i] = a[1 + i - 1]
      BY <1>1, <1>4, <2>1, SubSeqFacts
    <2>3. m - 1 + 1 = m /\ \A i \in 1..m : 1 + i - 1 = i
      OBVIOUS
    <2>4. SubSeq(a, 1, m) = x
      BY <2>1
    <2>. HIDE DEF x
    <2>. QED  BY <2>1, <2>2, <2>3, <2>4
  <1>6. /\ y \in Seq(Values) /\ Len(y) = n - p
        /\ \A i \in 1..(n - p) : y[i] = a[p + i]
    <2>1. PICK m \in 1..(n + 1) : m = p + 1
      BY <1>4
    <2>2. /\ SubSeq(a, m, n) \in Seq(Values) /\ Len(SubSeq(a, m, n)) = n - m + 1
          /\ \A i \in 1..(n - m + 1) : SubSeq(a, m, n)[i] = a[m + i - 1]
      BY <1>1, <1>4, <2>1, SubSeqFacts
    <2>3. n - m + 1 = n - p /\ \A i \in 1..(n - p) : m + i - 1 = p + i
      BY <1>4, <2>1
    <2>4. SubSeq(a, m, n) = y
      BY <1>1, <2>1
    <2>. HIDE DEF y
    <2>. QED  BY <2>2, <2>3, <2>4
  <1>. HIDE DEF x, y
  <1>7. /\ c \in Seq(Values) /\ Len(c) = n - 1
        /\ \A i \in 1..(p - 1) : c[i] = x[i]
        /\ \A i \in p..(n - 1) : c[i] = y[i - (p - 1)]
    <2>1. /\ c \in Seq(Values) /\ Len(c) = Len(x) + Len(y)
          /\ \A i \in 1..(Len(x) + Len(y)) :
               c[i] = IF i <= Len(x) THEN x[i] ELSE y[i - Len(x)]
      BY <1>5, <1>6, ConcatProperties
    <2>. HIDE DEF c
    <2>2. Len(c) = n - 1
      BY <1>4, <1>5, <1>6, <2>1
    <2>3. ASSUME NEW i \in 1..(p - 1)
          PROVE  c[i] = x[i]
      <3>1. i \in 1..(Len(x) + Len(y)) /\ i <= Len(x)
        BY <1>4, <1>5, <1>6
      <3>. QED  BY <2>1, <3>1
    <2>4. ASSUME NEW i \in p..(n - 1)
          PROVE  c[i] = y[i - (p - 1)]
      <3>1. i \in 1..(Len(x) + Len(y)) /\ ~(i <= Len(x)) /\ Len(x) = p - 1
        BY <1>4, <1>5, <1>6
      <3>. QED  BY <2>1, <3>1
    <2>. QED  BY <2>1, <2>2, <2>3, <2>4
  <1>. HIDE DEF c
  <1>8. ASSUME NEW i \in 1..Len(b)
        PROVE  b[i] = c[i]
    <2>1. CASE i < p
      <3>1. i \in 1..(p - 1) /\ i \in 1..n /\ i \in 1..(n - 1)
        BY <1>3, <1>4, <2>1
      <3>. QED  BY <1>1, <1>3, <1>5, <1>7, <3>1
    <2>2. CASE i >= p
      <3>1. PICK k \in 1..(n - p) : k = i - (p - 1)
        BY <1>3, <1>4, <2>2
      <3>2. PICK j \in 1..n : j = i + 1
        BY <1>3, <1>4
      <3>3. i \in p..(n - 1) /\ p + k = j /\ i \in p..(l - f) /\ i \in 1..(n - 1)
            /\ f + j - 1 = f + i
        BY <1>0, <1>3, <1>4, <2>2, <3>1, <3>2
      <3>4. c[i] = y[k] /\ y[k] = a[j] /\ a[j] = tab[f + j - 1]
        BY <1>1, <1>6, <1>7, <3>1, <3>2, <3>3
      <3>5. b[i] = tab[f + i]
        BY <1>3, <3>3
      <3>. QED  BY <3>3, <3>4, <3>5
    <2>. QED  BY <1>3, <1>4, <2>1, <2>2
  <1>9. b = c
    BY <1>3, <1>7, <1>8, SeqEqual
  <1>10. a[p] = tab[f + p - 1]
    BY <1>1, <1>4
  <1>. QED  BY <1>1, <1>4, <1>9, <1>10 DEF Removed, a, b, c, x, y

(* Insertion and removal are steps of the deque.                           *)
LEMMA MiddleOf ==
  ASSUME NEW p, D!Remove(p) \/ \E v \in Values : D!Insert(p, v)
  PROVE  D!Middle
  <1>1. CASE D!Remove(p)
    <2>1. p \in 1..Len(Contents)
      BY <1>1 DEF D!Remove
    <2>2. p \in 1..(Len(Contents) + 1)
      BY <2>1
    <2>. QED  BY <1>1, <2>2 DEF D!Middle
  <1>2. ASSUME NEW v \in Values, D!Insert(p, v)
        PROVE  D!Middle
    <2>1. p \in 1..(Len(Contents) + 1)
      BY <1>2 DEF D!Insert
    <2>. QED  BY <1>2, <2>1 DEF D!Middle
  <1>. QED  BY <1>1, <1>2

(* What the two shifts look at.                                            *)
LEMMA AtFacts ==
  ASSUME SlotInv, NEW i \in Int
  PROVE  /\ At(i) \in Values \cup {Nil}
         /\ first <= i /\ i <= last => At(i) = t[i] /\ At(i) \in Values
         /\ ~(first <= i /\ i <= last) => At(i) = Nil
         /\ first <= i /\ i <= last => i \in Idx
  <1>1. \A j \in first..last : j \in Idx /\ t[j] \in Values
    BY SlotsAreValues
  <1>2. first \in Int /\ last \in Int
    BY SlotsAreValues
  <1>3. t \in [Idx -> Values \cup {Nil}] /\ \A j \in Idx : t[j] # Nil <=> (first <= j /\ j <= last)
    BY DEF SlotInv, TypeOK
  <1>. QED  BY <1>1, <1>2, <1>3, NilAssumption DEF At

(* Slots g..h of the new table are the occupied ones.                      *)
LEMMA SlotsKept ==
  ASSUME SlotInv, NEW g \in Int, NEW h \in Int, g <= h + 1, g >= -Below, h <= Above,
         first' = g, last' = h, ref' = ref, op' \in Ops, out' \in Values \cup {Nil},
         NEW new, t' = [i \in Idx |-> new[i]],
         \A i \in Idx : /\ new[i] \in Values \cup {Nil}
                        /\ new[i] # Nil <=> (g <= i /\ i <= h)
  PROVE  SlotInv'
  <1>1. t' \in [Idx -> Values \cup {Nil}] /\ \A i \in Idx : t'[i] # Nil <=> (g <= i /\ i <= h)
    OBVIOUS
  <1>2. g \in -Below..(Above + 1) /\ h \in (-Below - 1)..Above
    BY IndexAssumption
  <1>3. ref' \in BOOLEAN
    BY DEF SlotInv, TypeOK
  <1>4. TypeOK'
    BY <1>1, <1>2, <1>3 DEF TypeOK
  <1>. QED  BY <1>1, <1>4 DEF SlotInv

(* List:insert, from whichever side.                                       *)
LEMMA InsertKeeps ==
  ASSUME SlotInv, NEW pos \in Int, NEW v \in Values, List_insert(pos, v)
  PROVE  SlotInv' /\ D!Middle
  <1>1. /\ first \in Int /\ last \in Int /\ first <= last + 1
        /\ \A i \in first..last : i \in Idx /\ t[i] \in Values
        /\ Contents = Slice(t, first, last)
    BY SlotsAreValues
  <1>2. Contents' = Slice(t', first', last')
    BY DEF Contents, Slice, lluv_list_size
  <1>3. PICK p \in 1..(last - first + 2) : p = Absolute(pos)
    <2>1. Absolute(pos) \in Int
      BY <1>1 DEF Absolute, List_size, lluv_list_size
    <2>2. 1 <= Absolute(pos) /\ Absolute(pos) <= last - first + 1 + 1
      BY DEF List_insert, List_size, lluv_list_size
    <2>. QED  BY <1>1, <2>1, <2>2
  <1>4. PICK o \in Int : o = first + p - 1
    BY <1>1
  <1>5. /\ op' = "insert" /\ out' = Nil /\ ref' = ref
        /\ \/ /\ 2 * p < last - first + 1 /\ first - 1 \in Idx
              /\ t' = [i \in Idx |-> IF i = o - 1 THEN v
                                     ELSE IF i \in (first - 1)..(o - 1) THEN At(i + 1)
                                     ELSE t[i]]
              /\ first' = first - 1 /\ last' = last
           \/ /\ last + 1 \in Idx
              /\ t' = [i \in Idx |-> IF i = o THEN v
                                     ELSE IF i \in (o + 1)..(last + 1) THEN At(i - 1)
                                     ELSE t[i]]
              /\ last' = last + 1 /\ first' = first
    BY <1>3, <1>4 DEF List_insert, List_size, lluv_list_size
  <1>6. op' \in Ops /\ out' \in Values \cup {Nil}
    BY <1>5 DEF Ops
  <1>7. \A i \in Int : /\ At(i) \in Values \cup {Nil}
                       /\ first <= i /\ i <= last => At(i) = t[i] /\ At(i) \in Values
                       /\ ~(first <= i /\ i <= last) => At(i) = Nil
                       /\ first <= i /\ i <= last => i \in Idx
    BY AtFacts
  <1>8. /\ \A i \in Idx : i \in Int /\ -Below <= i /\ i <= Above
        /\ \A i \in Int : -Below <= i /\ i <= Above => i \in Idx
    BY IndexAssumption DEF Idx
  <1>9. \A i \in Idx : t[i] \in Values \cup {Nil} /\ (t[i] # Nil <=> (first <= i /\ i <= last))
    BY DEF SlotInv, TypeOK
  <1>10. first >= -Below /\ last <= Above
    BY IndexAssumption DEF SlotInv, TypeOK
  <1>11. CASE /\ 2 * p < last - first + 1 /\ first - 1 \in Idx
              /\ t' = [i \in Idx |-> IF i = o - 1 THEN v
                                     ELSE IF i \in (first - 1)..(o - 1) THEN At(i + 1)
                                     ELSE t[i]]
              /\ first' = first - 1 /\ last' = last
    <2>1. PICK g \in Int : g = first - 1
      BY <1>1
    <2>2. o \in first..last /\ o - 1 \in g..last /\ g >= -Below
      BY <1>1, <1>3, <1>4, <1>8, <1>11, <2>1
    <2>. DEFINE new == [i \in Idx |-> IF i = o - 1 THEN v
                                     ELSE IF i \in g..(o - 1) THEN At(i + 1) ELSE t[i]]
    <2>3. t' = new
      BY <1>11, <2>1
    <2>4. ASSUME NEW i \in Idx
          PROVE  new[i] \in Values \cup {Nil} /\ (new[i] # Nil <=> (g <= i /\ i <= last))
      <3>1. CASE i = o - 1
        BY <1>8, <2>2, <3>1, NilAssumption
      <3>2. CASE i # o - 1 /\ i \in g..(o - 1)
        <4>1. PICK j \in Int : j = i + 1 /\ first <= j /\ j <= last
          BY <1>1, <1>8, <2>1, <2>2, <3>2
        <4>2. new[i] = At(j) /\ At(j) \in Values
          BY <1>7, <3>2, <4>1
        <4>3. g <= i /\ i <= last
          BY <1>1, <1>8, <2>1, <2>2, <3>2
        <4>. QED  BY <4>2, <4>3, NilAssumption
      <3>3. CASE i # o - 1 /\ i \notin g..(o - 1)
        <4>1. new[i] = t[i]
          BY <3>3
        <4>2. (first <= i /\ i <= last) <=> (g <= i /\ i <= last)
          BY <1>1, <1>8, <2>1, <2>2, <3>3
        <4>. QED  BY <1>9, <4>1, <4>2
      <3>. QED  BY <3>1, <3>2, <3>3
    <2>5. new = [i \in Idx |-> new[i]]
      OBVIOUS
    <2>6. \A i \in g..last : i \in Idx
      BY <1>1, <1>8, <1>10, <2>2, IndexAssumption
    <2>7. new[g + p - 1] = v
      <3>1. g + p - 1 = o - 1
        BY <1>1, <1>4, <2>1
      <3>2. new[o - 1] = v
        BY <2>2, <2>6
      <3>. QED  BY <3>1, <3>2
    <2>8. ASSUME NEW i \in 1..(p - 1)
          PROVE  new[g + i - 1] = t[first + i - 1]
      <3>1. PICK m \in g..last : m = g + i - 1 /\ m # o - 1 /\ m \in g..(o - 1)
        BY <1>1, <1>3, <1>4, <2>1, <2>2
      <3>2. PICK j \in first..last : j = m + 1 /\ j = first + i - 1
        BY <1>1, <1>3, <1>4, <2>1, <2>2, <3>1
      <3>3. new[m] = At(j)
        BY <2>6, <3>1, <3>2
      <3>4. At(j) = t[j]
        BY <1>1, <1>7, <3>2
      <3>. QED  BY <3>1, <3>2, <3>3, <3>4
    <2>9. ASSUME NEW i \in p..(last - first + 1)
          PROVE  new[g + i] = t[first + i - 1]
      <3>1. PICK m \in g..last : m = g + i /\ m # o - 1 /\ m \notin g..(o - 1) /\ m = first + i - 1
        BY <1>1, <1>3, <1>4, <2>1, <2>2
      <3>. QED  BY <2>6, <3>1
    <2>. HIDE DEF new
    <2>10. SlotInv'
      BY <1>1, <1>5, <1>6, <1>10, <1>11, <2>1, <2>2, <2>3, <2>4, <2>5, SlotsKept
    <2>11. PICK h \in Int : h = last /\ h - g = last - first + 1
      BY <1>1, <2>1
    <2>12. LET a == Slice(t, first, last)
           IN  /\ p \in 1..(Len(a) + 1)
               /\ Slice(new, g, h) = Inserted(a, p, v)
      <3>1. HasInserted(new, g, h, t, first, last, p, v)
        BY <2>7, <2>8, <2>9, <2>11 DEF HasInserted
      <3>2. \A i \in first..last : t[i] \in Values
        BY <1>1
      <3>3. first \in Int /\ last \in Int /\ first <= last + 1 /\ p \in 1..(last - first + 2)
        BY <1>1, <1>3
      <3>. QED  BY <2>1, <3>1, <3>2, <3>3, InsertSlice
    <2>13. D!Insert(p, v)
      BY <1>1, <1>2, <1>5, <1>11, <2>1, <2>3, <2>11, <2>12 DEF D!Insert, Inserted
    <2>. QED  BY <2>10, <2>13, MiddleOf
  <1>12. CASE /\ last + 1 \in Idx
              /\ t' = [i \in Idx |-> IF i = o THEN v
                                     ELSE IF i \in (o + 1)..(last + 1) THEN At(i - 1)
                                     ELSE t[i]]
              /\ last' = last + 1 /\ first' = first
    <2>1. PICK h \in Int : h = last + 1
      BY <1>1
    <2>2. o \in first..h /\ h <= Above
      BY <1>1, <1>3, <1>4, <1>8, <1>12, <2>1
    <2>. DEFINE new == [i \in Idx |-> IF i = o THEN v
                                     ELSE IF i \in (o + 1)..h THEN At(i - 1) ELSE t[i]]
    <2>3. t' = new
      BY <1>12, <2>1
    <2>4. ASSUME NEW i \in Idx
          PROVE  new[i] \in Values \cup {Nil} /\ (new[i] # Nil <=> (first <= i /\ i <= h))
      <3>1. CASE i = o
        BY <1>8, <2>2, <3>1, NilAssumption
      <3>2. CASE i # o /\ i \in (o + 1)..h
        <4>1. PICK j \in Int : j = i - 1 /\ first <= j /\ j <= last
          BY <1>1, <1>8, <2>1, <2>2, <3>2
        <4>2. new[i] = At(j) /\ At(j) \in Values
          BY <1>7, <3>2, <4>1
        <4>3. first <= i /\ i <= h
          BY <1>1, <1>8, <2>1, <2>2, <3>2
        <4>. QED  BY <4>2, <4>3, NilAssumption
      <3>3. CASE i # o /\ i \notin (o + 1)..h
        <4>1. new[i] = t[i]
          BY <3>3
        <4>2. (first <= i /\ i <= last) <=> (first <= i /\ i <= h)
          BY <1>1, <1>8, <2>1, <2>2, <3>3
        <4>. QED  BY <1>9, <4>1, <4>2
      <3>. QED  BY <3>1, <3>2, <3>3
    <2>5. new = [i \in Idx |-> new[i]]
      OBVIOUS
    <2>6. \A i \in first..h : i \in Idx
      BY <1>1, <1>8, <1>10, <2>2, IndexAssumption
    <2>7. new[first + p - 1] = v
      BY <1>4, <2>2, <2>6
    <2>8. ASSUME NEW i \in 1..(p - 1)
          PROVE  new[first + i - 1] = t[first + i - 1]
      <3>1. PICK m \in first..h : m = first + i - 1 /\ m # o /\ m \notin (o + 1)..h
        BY <1>1, <1>3, <1>4, <2>1, <2>2
      <3>. QED  BY <2>6, <3>1
    <2>9. ASSUME NEW i \in p..(last - first + 1)
          PROVE  new[first + i] = t[first + i - 1]
      <3>1. PICK m \in first..h : m = first + i /\ m # o /\ m \in (o + 1)..h
        BY <1>1, <1>3, <1>4, <2>1, <2>2
      <3>2. PICK j \in first..last : j = m - 1 /\ j = first + i - 1
        BY <1>1, <1>3, <1>4, <2>1, <2>2, <3>1
      <3>3. new[m] = At(j)
        BY <2>6, <3>1, <3>2
      <3>4. At(j) = t[j]
        BY <1>1, <1>7, <3>2
      <3>. QED  BY <3>1, <3>2, <3>3, <3>4
    <2>. HIDE DEF new
    <2>10. SlotInv'
      BY <1>1, <1>5, <1>6, <1>10, <1>12, <2>1, <2>2, <2>3, <2>4, <2>5, SlotsKept
    <2>11. h - first = last - first + 1
      BY <1>1, <2>1
    <2>12. LET a == Slice(t, first, last)
           IN  /\ p \in 1..(Len(a) + 1)
               /\ Slice(new, first, h) = Inserted(a, p, v)
      <3>1. HasInserted(new, first, h, t, first, last, p, v)
        BY <2>7, <2>8, <2>9, <2>11 DEF HasInserted
      <3>2. \A i \in first..last : t[i] \in Values
        BY <1>1
      <3>3. first \in Int /\ last \in Int /\ first <= last + 1 /\ p \in 1..(last - first + 2)
        BY <1>1, <1>3
      <3>. QED  BY <2>1, <3>1, <3>2, <3>3, InsertSlice
    <2>13. D!Insert(p, v)
      BY <1>1, <1>2, <1>5, <1>12, <2>1, <2>3, <2>12 DEF D!Insert, Inserted
    <2>. QED  BY <2>10, <2>13, MiddleOf
  <1>. QED  BY <1>5, <1>11, <1>12

(* List:remove, from whichever side.                                       *)
LEMMA RemoveKeeps ==
  ASSUME SlotInv, NEW pos \in Int, List_remove(pos)
  PROVE  SlotInv' /\ D!Middle
  <1>1. /\ first \in Int /\ last \in Int /\ first <= last + 1
        /\ \A i \in first..last : i \in Idx /\ t[i] \in Values
        /\ Contents = Slice(t, first, last)
    BY SlotsAreValues
  <1>2. Contents' = Slice(t', first', last')
    BY DEF Contents, Slice, lluv_list_size
  <1>3. PICK p \in 1..(last - first + 1) : p = Absolute(pos)
    <2>1. Absolute(pos) \in Int
      BY <1>1 DEF Absolute, List_size, lluv_list_size
    <2>2. 1 <= Absolute(pos) /\ Absolute(pos) <= last - first + 1
      BY DEF List_remove, List_size, lluv_list_size
    <2>. QED  BY <1>1, <2>1, <2>2
  <1>4. PICK o \in first..last : o = first + p - 1
    BY <1>1
  <1>5. /\ op' = "remove" /\ out' = t[o] /\ ref' = ref
        /\ \/ /\ 2 * p < last - first + 1
              /\ t' = [i \in Idx |-> IF i \in first..o THEN At(i - 1) ELSE t[i]]
              /\ first' = first + 1 /\ last' = last
           \/ /\ t' = [i \in Idx |-> IF i \in o..last THEN At(i + 1) ELSE t[i]]
              /\ last' = last - 1 /\ first' = first
    BY <1>3, <1>4 DEF List_remove, List_size, lluv_list_size
  <1>6. op' \in Ops /\ out' \in Values \cup {Nil} /\ p \in 1..(last - first + 2)
    BY <1>1, <1>4, <1>5 DEF Ops
  <1>7. \A i \in Int : /\ At(i) \in Values \cup {Nil}
                       /\ first <= i /\ i <= last => At(i) = t[i] /\ At(i) \in Values
                       /\ ~(first <= i /\ i <= last) => At(i) = Nil
                       /\ first <= i /\ i <= last => i \in Idx
    BY AtFacts
  <1>8. \A i \in Idx : i \in Int /\ -Below <= i /\ i <= Above
    BY IndexAssumption DEF Idx
  <1>9. \A i \in Idx : t[i] \in Values \cup {Nil} /\ (t[i] # Nil <=> (first <= i /\ i <= last))
    BY DEF SlotInv, TypeOK
  <1>10. -Below \in Int /\ Above \in Int /\ first >= -Below /\ last <= Above
    BY IndexAssumption DEF SlotInv, TypeOK
  <1>11. CASE /\ 2 * p < last - first + 1
              /\ t' = [i \in Idx |-> IF i \in first..o THEN At(i - 1) ELSE t[i]]
              /\ first' = first + 1 /\ last' = last
    <2>1. PICK g \in Int : g = first + 1 /\ g <= last + 1 /\ g >= -Below
      BY <1>1, <1>4, <1>10
    <2>. DEFINE new == [i \in Idx |-> IF i \in first..o THEN At(i - 1) ELSE t[i]]
    <2>2. t' = new
      BY <1>11
    <2>3. ASSUME NEW i \in Idx
          PROVE  new[i] \in Values \cup {Nil} /\ (new[i] # Nil <=> (g <= i /\ i <= last))
      <3>1. CASE i \in first..o
        <4>1. PICK j \in Int : j = i - 1
          BY <1>8
        <4>2. new[i] = At(j)
          BY <3>1, <4>1
        <4>3. (first <= j /\ j <= last) <=> (g <= i /\ i <= last)
          BY <1>1, <1>4, <1>8, <2>1, <3>1, <4>1
        <4>. QED  BY <1>7, <4>2, <4>3, NilAssumption
      <3>2. CASE i \notin first..o
        <4>1. new[i] = t[i]
          BY <3>2
        <4>2. (first <= i /\ i <= last) <=> (g <= i /\ i <= last)
          BY <1>1, <1>4, <1>8, <2>1, <3>2
        <4>. QED  BY <1>9, <4>1, <4>2
      <3>. QED  BY <3>1, <3>2
    <2>4. new = [i \in Idx |-> new[i]]
      OBVIOUS
    <2>5. ASSUME NEW i \in 1..(p - 1)
          PROVE  new[g + i - 1] = t[first + i - 1]
      <3>1. PICK m \in first..last : m = g + i - 1 /\ m \in first..o
        BY <1>1, <1>3, <1>4, <2>1
      <3>2. PICK j \in first..last : j = m - 1 /\ j = first + i - 1
        BY <1>1, <1>3, <1>4, <2>1, <3>1
      <3>3. new[m] = At(j)
        BY <1>1, <3>1, <3>2
      <3>4. At(j) = t[j]
        BY <1>1, <1>7, <3>2
      <3>. QED  BY <3>1, <3>2, <3>3, <3>4
    <2>6. ASSUME NEW i \in p..(last - first)
          PROVE  new[g + i - 1] = t[first + i]
      <3>1. PICK m \in first..last : m = g + i - 1 /\ m \notin first..o /\ m = first + i
        BY <1>1, <1>3, <1>4, <2>1
      <3>. QED  BY <1>1, <3>1
    <2>. HIDE DEF new
    <2>7. SlotInv'
      BY <1>1, <1>5, <1>6, <1>10, <1>11, <2>1, <2>2, <2>3, <2>4, SlotsKept
    <2>8. LET a == Slice(t, first, last)
          IN  /\ p \in 1..Len(a) /\ a[p] = t[first + p - 1]
              /\ Slice(new, g, last) = Removed(a, p)
      <3>1. HasRemoved(new, g, last, t, first, last, p)
        BY <1>1, <2>1, <2>5, <2>6 DEF HasRemoved
      <3>2. \A i \in first..last : t[i] \in Values
        BY <1>1
      <3>3. first \in Int /\ last \in Int /\ first <= last + 1 /\ p \in 1..(last - first + 1)
        BY <1>1, <1>3
      <3>. QED  BY <2>1, <3>1, <3>2, <3>3, RemoveSlice
    <2>9. D!Remove(p)
      BY <1>1, <1>2, <1>4, <1>5, <1>11, <2>1, <2>2, <2>8 DEF D!Remove, Removed
    <2>. QED  BY <2>7, <2>9, MiddleOf
  <1>12. CASE /\ t' = [i \in Idx |-> IF i \in o..last THEN At(i + 1) ELSE t[i]]
              /\ last' = last - 1 /\ first' = first
    <2>1. PICK h \in Int : h = last - 1 /\ first <= h + 1 /\ h <= Above
      BY <1>1, <1>4, <1>10
    <2>. DEFINE new == [i \in Idx |-> IF i \in o..last THEN At(i + 1) ELSE t[i]]
    <2>2. t' = new
      BY <1>12
    <2>3. ASSUME NEW i \in Idx
          PROVE  new[i] \in Values \cup {Nil} /\ (new[i] # Nil <=> (first <= i /\ i <= h))
      <3>1. CASE i \in o..last
        <4>1. PICK j \in Int : j = i + 1
          BY <1>8
        <4>2. new[i] = At(j)
          BY <3>1, <4>1
        <4>3. (first <= j /\ j <= last) <=> (first <= i /\ i <= h)
          BY <1>1, <1>4, <1>8, <2>1, <3>1, <4>1
        <4>. QED  BY <1>7, <4>2, <4>3, NilAssumption
      <3>2. CASE i \notin o..last
        <4>1. new[i] = t[i]
          BY <3>2
        <4>2. (first <= i /\ i <= last) <=> (first <= i /\ i <= h)
          BY <1>1, <1>4, <1>8, <2>1, <3>2
        <4>. QED  BY <1>9, <4>1, <4>2
      <3>. QED  BY <3>1, <3>2
    <2>4. new = [i \in Idx |-> new[i]]
      OBVIOUS
    <2>5. ASSUME NEW i \in 1..(p - 1)
          PROVE  new[first + i - 1] = t[first + i - 1]
      <3>1. PICK m \in first..last : m = first + i - 1 /\ m \notin o..last
        BY <1>1, <1>3, <1>4
      <3>. QED  BY <1>1, <3>1
    <2>6. ASSUME NEW i \in p..(last - first)
          PROVE  new[first + i - 1] = t[first + i]
      <3>1. PICK m \in first..last : m = first + i - 1 /\ m \in o..last
        BY <1>1, <1>3, <1>4
      <3>2. PICK j \in first..last : j = m + 1 /\ j = first + i
        BY <1>1, <1>3, <1>4, <3>1
      <3>3. new[m] = At(j)
        BY <1>1, <3>1, <3>2
      <3>4. At(j) = t[j]
        BY <1>1, <1>7, <3>2
      <3>. QED  BY <3>1, <3>2, <3>3, <3>4
    <2>. HIDE DEF new
    <2>7. SlotInv'
      BY <1>1, <1>5, <1>6, <1>10, <1>12, <2>1, <2>2, <2>3, <2>4, SlotsKept
    <2>8. LET a == Slice(t, first, last)
          IN  /\ p \in 1..Len(a) /\ a[p] = t[first + p - 1]
              /\ Slice(new, first, h) = Removed(a, p)
      <3>1. HasRemoved(new, first, h, t, first, last, p)
        <4>1. h - first = last - first - 1
          BY <1>1, <2>1
        <4>2. \A i \in 1..(p - 1) : new[first + i - 1] = t[first + i - 1]
          BY <2>5
        <4>3. \A i \in p..(last - first) : new[first + i - 1] = t[first + i]
          BY <2>6
        <4>. QED  BY <4>1, <4>2, <4>3, Zenon DEF HasRemoved
      <3>2. \A i \in first..last : t[i] \in Values
        BY <1>1
      <3>3. first \in Int /\ last \in Int /\ first <= last + 1 /\ p \in 1..(last - first + 1)
        BY <1>1, <1>3
      <3>. QED  BY <2>1, <3>1, <3>2, <3>3, RemoveSlice
    <2>9. D!Remove(p)
      BY <1>1, <1>2, <1>4, <1>5, <1>12, <2>1, <2>2, <2>8 DEF D!Remove, Removed
    <2>. QED  BY <2>7, <2>9, MiddleOf
  <1>. QED  BY <1>5, <1>11, <1>12

LEMMA ResetKeeps ==
  ASSUME SlotInv, List_reset
  PROVE  SlotInv' /\ D!Clear
  <1>1. /\ first' = 0 /\ last' = -1 /\ ref' = ref /\ op' = "clear" /\ out' = Nil
        /\ t' = [i \in Idx |-> Nil]
    BY DEF List_reset, EmptyTable
  <1>2. /\ 0 \in -Below..(Above + 1) /\ -1 \in (-Below - 1)..Above
        /\ \A i \in Idx : ~(0 <= i /\ i <= -1)
    BY IndexAssumption DEF Idx
  <1>3. ref' \in BOOLEAN /\ op' \in Ops
    BY <1>1 DEF SlotInv, TypeOK, Ops
  <1>4. SlotInv'
    BY <1>1, <1>2, <1>3 DEF SlotInv, TypeOK
  <1>5. Contents' = << >>
    BY <1>1, EmptySlots DEF Contents, Slice, lluv_list_size
  <1>. QED  BY <1>1, <1>4, <1>5 DEF D!Clear

(* A step of the Lua list is a step of the deque.                          *)
LEMMA LuaStepRefines ==
  ASSUME SlotInv, [LuaNext]_vars
  PROVE  SlotInv' /\ [D!Ends \/ D!Middle]_<<Contents, op, out>>
  <1>1. CASE [Next]_vars
    BY <1>1, NextKeepsSlots, StepRefines
  <1>2. CASE List_reset
    BY <1>2, ResetKeeps DEF D!Ends
  <1>3. ASSUME NEW pos \in Positions,
               List_remove(pos) \/ \E v \in Values : List_insert(pos, v)
        PROVE  SlotInv' /\ D!Middle
    <2>1. pos \in Int
      BY SlotsAreValues DEF Positions, List_size, lluv_list_size
    <2>. QED  BY <1>3, <2>1, RemoveKeeps, InsertKeeps
  <1>. QED  BY <1>1, <1>2, <1>3 DEF LuaNext, Next, Ends, List_push_front, List_push_back,
                                    List_pop_front, List_pop_back

(* List of lluv/utils.lua implements a deque with insertion and removal at *)
(* every position, counted from either end: the shorter side is shifted    *)
(* and no element is lost, doubled or out of order.                        *)
THEOREM LuaListRefinesDeque == LuaSpec => ImplementsFullDeque
  <1>1. Init => SlotInv /\ D!Init
    BY InitRefines
  <1>2. SlotInv /\ [LuaNext]_vars => SlotInv' /\ [D!Ends \/ D!Middle]_<<Contents, op, out>>
    BY LuaStepRefines
  <1>. QED  BY <1>1, <1>2, PTL DEF LuaSpec, ImplementsFullDeque, D!FullSpec

(***************************************************************************)
(* The buffer of utils.lua.                                                *)
(***************************************************************************)

(* The inductive invariant: chunks of bytes, none of them empty, and their *)
(* number of bytes.                                                        *)
IsList(l) == l \in Chunks /\ \A i \in 1..Len(l) : l[i] # << >>

BufferInv == IsList(lst) /\ size = Len(FlattenSeq(lst))

LEMMA FlatLen ==
  ASSUME NEW l \in Chunks
  PROVE  FlattenSeq(l) \in Bytes /\ Len(FlattenSeq(l)) \in Nat /\ Len(l) \in Nat
  BY FlatBytes DEF Bytes, Chunks

(* Chunk i, the bytes before it and those after it.                        *)
LEMMA ThreeParts ==
  ASSUME NEW l \in Chunks, NEW i \in 1..Len(l)
  PROVE  \E a, c, b \in Bytes :
           /\ a = FlattenSeq(Upto(l, i - 1)) /\ c = l[i]
           /\ b = FlattenSeq(From(l, i + 1))
           /\ FlattenSeq(Upto(l, i)) = a \o c /\ a \o c \in Bytes
           /\ FlattenSeq(l) = (a \o c) \o b
  <1>1. i \in 0..Len(l) /\ i - 1 \in 0..Len(l) /\ Len(l) \in Nat
    BY DEF Chunks
  <1>2. PICK h \in 0..Len(l) : h = i - 1
    BY <1>1
  <1>3. PICK a, c, b \in Bytes : /\ a = FlattenSeq(Upto(l, i - 1)) /\ c = l[i]
                                 /\ b = FlattenSeq(From(l, i + 1))
    <2>1. FlattenSeq(Upto(l, h)) \in Bytes
      BY FlatCut
    <2>2. FlattenSeq(From(l, i + 1)) \in Bytes
      BY <1>1, FlatCut
    <2>3. l[i] \in Bytes
      BY DEF Chunks
    <2>. QED  BY <1>2, <2>1, <2>2, <2>3
  <1>4. FlattenSeq(Upto(l, i)) = a \o c
    BY <1>3, FlatNext
  <1>5. FlattenSeq(l) = FlattenSeq(Upto(l, i)) \o FlattenSeq(From(l, i + 1))
    BY <1>1, FlatCut
  <1>6. a \o c \in Bytes
    BY CutConcat
  <1>. QED  BY <1>3, <1>4, <1>5, <1>6

(* A list without chunks is one without bytes.                             *)
LEMMA SomeBytes ==
  ASSUME NEW l, IsList(l), l # << >>
  PROVE  Len(FlattenSeq(l)) >= 1 /\ Len(l) >= 1
  <1>1. PICK i \in 1..Len(l) : i = 1
    BY DEF IsList, Chunks
  <1>0. l \in Chunks
    BY DEF IsList
  <1>2. PICK a, c, b \in Bytes :
           /\ a = FlattenSeq(Upto(l, i - 1)) /\ c = l[i]
           /\ b = FlattenSeq(From(l, i + 1))
           /\ FlattenSeq(Upto(l, i)) = a \o c /\ a \o c \in Bytes
           /\ FlattenSeq(l) = (a \o c) \o b
    BY <1>0, ThreeParts
  <1>3. /\ Len(a) \in Nat /\ Len(c) \in Nat /\ Len(c) # 0 /\ Len(a \o c) = Len(a) + Len(c)
    <2>1. c # << >>
      BY <1>2 DEF IsList
    <2>. QED  BY <2>1, CutConcat, EmptySeq DEF Bytes
  <1>4. Len((a \o c) \o b) = Len(a \o c) + Len(b) /\ Len(b) \in Nat
    BY <1>2, CutConcat
  <1>. QED  BY <1>1, <1>2, <1>3, <1>4

(* push_front of what is left of a chunk.                                  *)
LEMMA PutBackFacts ==
  ASSUME NEW s \in Bytes, NEW l, IsList(l)
  PROVE  IsList(PutBack(s, l)) /\ FlattenSeq(PutBack(s, l)) = s \o FlattenSeq(l)
  <1>1. CASE s = << >>
    BY <1>1, FlatBytes, ConcatEmptySeq DEF PutBack, IsList, Bytes
  <1>2. CASE s # << >>
    <2>1. PutBack(s, l) = <<s>> \o l /\ <<s>> \in Chunks /\ l \in Chunks
          /\ FlattenSeq(<<s>>) = s
      BY <1>2, FlatOne DEF PutBack, IsList
    <2>2. <<s>> \o l \in Chunks /\ FlattenSeq(<<s>> \o l) = s \o FlattenSeq(l)
      BY <2>1, FlatConcat
    <2>3. ASSUME NEW i \in 1..Len(<<s>> \o l)
          PROVE  (<<s>> \o l)[i] # << >>
      <3>1. /\ Len(<<s>> \o l) = 1 + Len(l) /\ Len(l) \in Nat
            /\ (<<s>> \o l)[i] = IF i <= 1 THEN s ELSE l[i - 1]
        BY <2>1 DEF Chunks
      <3>2. ~(i <= 1) => i - 1 \in 1..Len(l)
        BY <3>1
      <3>. QED  BY <1>2, <3>1, <3>2 DEF IsList
    <2>. QED  BY <2>1, <2>2, <2>3 DEF IsList
  <1>. QED  BY <1>1, <1>2

(* What is left of a list.                                                 *)
LEMMA RestFacts ==
  ASSUME NEW l, IsList(l), NEW i \in 0..Len(l)
  PROVE  IsList(From(l, i + 1))
  <1>1. /\ From(l, i + 1) \in Chunks /\ Len(From(l, i + 1)) = Len(l) - i
        /\ \A k \in 1..(Len(l) - i) : From(l, i + 1)[k] = l[i + k]
    BY CutSeq DEF IsList, Chunks
  <1>2. \A k \in 1..(Len(l) - i) : i + k \in 1..Len(l)
    BY DEF IsList, Chunks
  <1>. QED  BY <1>1, <1>2 DEF IsList

(* Min and Max of sets of positions.                                       *)
LEMMA MinFacts ==
  ASSUME NEW T \in SUBSET Nat, T # {}
  PROVE  Min(T) \in T /\ \A k \in T : Min(T) <= k
  <1>1. \E m \in T : \A k \in T : m <= k
    BY LeastNumber
  <1>. QED  BY <1>1 DEF Min

LEMMA MaxFacts ==
  ASSUME NEW n \in Nat, NEW T \in SUBSET (1..n), T # {}
  PROVE  Max(T) \in T /\ \A k \in T : k <= Max(T)
  <1>. DEFINE G == {d \in Nat : \E k \in T : d = n - k}
  <1>1. G \in SUBSET Nat /\ G # {}
    <2>1. PICK k : k \in T
      OBVIOUS
    <2>2. n - k \in Nat
      BY <2>1
    <2>. QED  BY <2>1, <2>2
  <1>2. PICK d \in G : \A k \in G : d <= k
    BY <1>1, LeastNumber
  <1>3. PICK m \in T : d = n - m
    OBVIOUS
  <1>4. \A k \in T : k <= m
    <2>1. ASSUME NEW k \in T
          PROVE  k <= m
      <3>1. n - k \in G /\ k \in Int /\ m \in Int
        OBVIOUS
      <3>. QED  BY <1>2, <1>3, <3>1
    <2>. QED  BY <2>1
  <1>. QED  BY <1>4 DEF Max

(***************************************************************************)
(* read_line.                                                              *)
(***************************************************************************)

(* How much of a line that was found at i..j is returned.                  *)
Shows(keep, i, j) == IF keep THEN j ELSE i - 1

(* What has been taken from the list, as a line, and what is left of the   *)
(* chunk: i..j of all bytes is the end of line.                            *)
IsLine(r, b, eol, keep, i, j) ==
  LET whole == FlattenSeq(lst)
  IN  /\ i \in 1..Len(whole) /\ j \in 1..Len(whole) /\ i <= j
      /\ <<i, j>> \in MatchesOf(whole, eol)
      /\ eol # "rn" => IsFirst(whole, eol, i, j)
      /\ r.line = Upto(whole, Shows(keep, i, j))
      /\ r.tail \in Bytes /\ r.tail \o b = From(whole, j + 1)
      /\ r.used = j

(* The line is found in s, with which all bytes begin.                     *)
LEMMA SplitFacts ==
  ASSUME NEW s \in Bytes, NEW b \in Bytes, FlattenSeq(lst) = s \o b,
         NEW eol \in Eols, NEW keep \in BOOLEAN, Has(s, eol)
  PROVE  \E i, j : IsLine(Split(s, eol, keep), b, eol, keep, i, j)
  <1>1. PICK i, j \in 1..Len(s) : /\ Find(s, eol) = <<i, j>> /\ i <= j
                                  /\ IsFirst(s, eol, i, j)
    BY FindFacts
  <1>2. s \o b \in Bytes /\ Len(s \o b) = Len(s) + Len(b) /\ Len(s) \in Nat /\ Len(b) \in Nat
    BY CutConcat
  <1>3. Has(s \o b, eol) /\ Find(s \o b, eol) = <<i, j>>
    BY <1>1, FindPrefix
  <1>4. IsFirst(s \o b, eol, i, j)
    <2>1. PICK h, k \in 1..Len(s \o b) : /\ Find(s \o b, eol) = <<h, k>> /\ h <= k
                                         /\ IsFirst(s \o b, eol, h, k)
      BY <1>2, <1>3, FindFacts
    <2>. QED  BY <1>3, <2>1
  <1>5. PICK n \in 0..Len(s) : n = Shows(keep, i, j)
    BY <1>1, <1>2 DEF Shows
  <1>6. Upto(s \o b, n) = Upto(s, n)
    BY CutInFirst
  <1>7. j \in 0..Len(s) /\ From(s, j + 1) \in Bytes /\ From(s \o b, j + 1) = From(s, j + 1) \o b
    <2>1. j \in 0..Len(s)
      BY <1>2
    <2>. QED  BY <2>1, CutInFirst, CutSeq DEF Bytes
  <1>8. Split(s, eol, keep) = [line |-> Upto(s, n), tail |-> From(s, j + 1), used |-> j]
    BY <1>1, <1>5 DEF Split, Shows
  <1>9. i \in 1..Len(s \o b) /\ j \in 1..Len(s \o b)
    BY <1>1, <1>2
  <1>. DEFINE r == Split(s, eol, keep)
  <1>10. /\ r.line = Upto(s \o b, n) /\ r.tail = From(s, j + 1) /\ r.used = j
         /\ r.tail \in Bytes /\ r.tail \o b = From(s \o b, j + 1)
    BY <1>6, <1>7, <1>8
  <1>. HIDE DEF r
  <1>11. IsLine(r, b, eol, keep, i, j)
    BY <1>1, <1>4, <1>5, <1>9, <1>10 DEF IsLine, IsFirst
  <1>. QED  BY <1>11 DEF r

(* What SplitAt makes of the line of the last chunk.                       *)
AfterBytes(a, q) == [q EXCEPT !.line = a \o @, !.used = Len(a) + @]

(* The line is found in the last chunk that was taken, c.                  *)
FoundLast(a, c, b, eol) ==
  /\ FlattenSeq(lst) = (a \o c) \o b
  /\ Has(c, eol) /\ eol # "r*n"
  /\ eol = "n" => Lacks(a, "n")

LEMMA SplitLast ==
  ASSUME NEW a \in Bytes, NEW c \in Bytes, NEW b \in Bytes,
         NEW eol \in Eols, NEW keep \in BOOLEAN, FoundLast(a, c, b, eol)
  PROVE  \E i, j : IsLine(AfterBytes(a, Split(c, eol, keep)), b, eol, keep, i, j)
  <1>0. /\ FlattenSeq(lst) = (a \o c) \o b /\ Has(c, eol) /\ eol # "r*n"
        /\ eol = "n" => Lacks(a, "n")
    BY DEF FoundLast
  <1>1. PICK i, j \in 1..Len(c) : /\ Find(c, eol) = <<i, j>> /\ i <= j
                                  /\ IsFirst(c, eol, i, j)
    BY <1>0, FindFacts
  <1>2. /\ a \o c \in Bytes /\ Len(a \o c) = Len(a) + Len(c)
        /\ Len(a) \in Nat /\ Len(c) \in Nat /\ Len(b) \in Nat
    BY CutConcat
  <1>3. /\ (a \o c) \o b \in Bytes /\ Len((a \o c) \o b) = Len(a \o c) + Len(b)
        /\ c \o b \in Bytes /\ (a \o c) \o b = a \o (c \o b)
        /\ Len(c \o b) = Len(c) + Len(b)
    <2>1. (a \o c) \o b \in Bytes /\ Len((a \o c) \o b) = Len(a \o c) + Len(b)
      BY <1>2, CutConcat
    <2>2. c \o b \in Bytes /\ Len(c \o b) = Len(c) + Len(b)
      BY CutConcat
    <2>3. (a \o c) \o b = a \o (c \o b)
      BY ConcatBytes
    <2>. QED  BY <2>1, <2>2, <2>3
  <1>. DEFINE w == (a \o c) \o b
              h == Len(a) + i
              k == Len(a) + j
  <1>4. /\ h \in 1..Len(a \o c) /\ k \in 1..Len(a \o c) /\ h <= k
        /\ h \in 1..Len(w) /\ k \in 1..Len(w)
    BY <1>1, <1>2, <1>3
  <1>5. <<h, k>> \in MatchesOf(w, eol)
    <2>1. <<h, k>> \in MatchesOf(a \o c, eol)
      BY <1>1, MatchAfter DEF IsFirst
    <2>2. Matches(a \o c, eol, h, k)
      BY <1>2, <2>1, MatchFacts
    <2>3. \A l \in h..k : w[l + 0] = (a \o c)[l]
      <3>1. \A l \in h..k : l + 0 = l /\ l \in 1..(Len(a \o c) + Len(b)) /\ l <= Len(a \o c)
        BY <1>2, <1>3, <1>4
      <3>2. \A l \in 1..(Len(a \o c) + Len(b)) :
              w[l] = IF l <= Len(a \o c) THEN (a \o c)[l] ELSE b[l - Len(a \o c)]
        BY <1>2, ConcatProperties DEF Bytes
      <3>. HIDE DEF w, h, k
      <3>. QED  BY <3>1, <3>2
    <2>4. h \in Int /\ k \in Int /\ h + 0 = h /\ k + 0 = k
      BY <1>2
    <2>. HIDE DEF h, k
    <2>5. PICK d \in Int : d = 0
      OBVIOUS
    <2>6. \A l \in h..k : w[l + d] = (a \o c)[l]
      BY <2>3, <2>5
    <2>7. Matches(w, eol, h + d, k + d)
      BY <1>4, <2>2, <2>4, <2>6, MatchShift
    <2>8. Matches(w, eol, h, k)
      BY <2>4, <2>5, <2>7
    <2>. QED  BY <1>3, <1>4, <2>8, MatchFacts
  <1>6. eol # "rn" => IsFirst(w, eol, h, k)
    <2>. SUFFICES ASSUME eol = "n"
                  PROVE  IsFirst(w, "n", h, k)
      BY <1>0 DEF Eols
    <2>1. IsFirst(a \o c, "n", h, k)
      BY <1>0, <1>1, FindAfter
    <2>2. "n" \in Eols /\ Has(a \o c, "n") /\ Find(a \o c, "n") = <<h, k>>
      BY <1>2, <2>1, FirstIsFind
    <2>3. Has(w, "n") /\ Find(w, "n") = <<h, k>>
      BY <1>2, <2>2, FindPrefix
    <2>4. PICK f, g \in 1..Len(w) : Find(w, "n") = <<f, g>> /\ f <= g
                                      /\ IsFirst(w, "n", f, g)
      BY <1>3, <2>2, <2>3, FindFacts
    <2>. QED  BY <2>3, <2>4
  <1>7. PICK n \in 0..Len(c) : n = Shows(keep, i, j) /\ Shows(keep, h, k) = Len(a) + n
    <2>1. CASE keep
      <3>1. j \in 0..Len(c) /\ j = Shows(keep, i, j) /\ Shows(keep, h, k) = Len(a) + j
        BY <1>2, <2>1 DEF Shows
      <3>. QED  BY <3>1
    <2>2. CASE ~keep
      <3>1. i - 1 \in 0..Len(c) /\ i - 1 = Shows(keep, i, j)
        BY <1>2, <2>2 DEF Shows
      <3>2. Shows(keep, h, k) = Len(a) + (i - 1)
        BY <1>2, <2>2 DEF Shows
      <3>. QED  BY <3>1, <3>2
    <2>. QED  BY <2>1, <2>2
  <1>8. Upto(w, Len(a) + n) = a \o Upto(c, n)
    <2>1. Upto(a \o c, Len(a) + n) = a \o Upto(c, n)
      BY CutInSecond
    <2>2. PICK m \in 0..Len(a \o c) : m = Len(a) + n
      BY <1>2
    <2>3. Upto(w, m) = Upto(a \o c, m)
      BY <1>2, CutInFirst
    <2>. QED  BY <2>1, <2>2, <2>3
  <1>9. From(w, k + 1) = From(c, j + 1) \o b /\ From(c, j + 1) \in Bytes
    <2>1. j \in 0..Len(c) /\ k \in 0..Len(a \o c)
      BY <1>2, <1>4
    <2>2. From(a \o c, k + 1) = From(c, j + 1) /\ From(c, j + 1) \in Bytes
      BY <2>1, CutInSecond, CutSeq DEF Bytes
    <2>3. From(w, k + 1) = From(a \o c, k + 1) \o b
      BY <1>2, <2>1, CutInFirst
    <2>. QED  BY <2>2, <2>3
  <1>10. Split(c, eol, keep) = [line |-> Upto(c, n), tail |-> From(c, j + 1), used |-> j]
    BY <1>1, <1>7 DEF Split, Shows
  <1>. DEFINE r == AfterBytes(a, Split(c, eol, keep))
  <1>11. /\ r.line = Upto(w, Shows(keep, h, k)) /\ r.tail \in Bytes
         /\ r.tail \o b = From(w, k + 1) /\ r.used = k
    <2>. HIDE DEF w, h
    <2>2. /\ r.line = a \o Upto(c, n) /\ r.tail = From(c, j + 1) /\ r.used = k
      <3>1. PICK q : q = Split(c, eol, keep)
        OBVIOUS
      <3>2. PICK x, y : x = Upto(c, n) /\ y = From(c, j + 1)
        OBVIOUS
      <3>3. q = [line |-> x, tail |-> y, used |-> j]
        BY <1>10, <3>1, <3>2
      <3>4. /\ AfterBytes(a, q).line = a \o x /\ AfterBytes(a, q).tail = y
            /\ AfterBytes(a, q).used = Len(a) + j
        BY <3>3 DEF AfterBytes
      <3>. QED  BY <3>1, <3>2, <3>4
    <2>. HIDE DEF r, w, h, k
    <2>. QED  BY <1>7, <1>8, <1>9, <2>2
  <1>12. FlattenSeq(lst) = w
    BY <1>0
  <1>. HIDE DEF r, w, h, k
  <1>13. IsLine(r, b, eol, keep, h, k)
    BY <1>4, <1>5, <1>6, <1>11, <1>12 DEF IsLine
  <1>. QED  BY <1>13 DEF r

(* Whether there is an end of line in the list.                            *)
LEMMA StopFacts ==
  ASSUME IsList(lst), NEW eol \in Eols
  PROVE  /\ Len(lst) \in Nat /\ Stops \subseteq 1..Len(lst) /\ Hits(eol) \subseteq Stops
         /\ eol = "n" => Hits(eol) = Stops
         /\ \A i \in (1..Len(lst)) \ Stops : Lacks(lst[i], "n")
  <1>1. Len(lst) \in Nat /\ Stops \subseteq 1..Len(lst) /\ Hits(eol) \subseteq Stops
    BY DEF IsList, Chunks, Stops, Hits
  <1>2. eol = "n" => Hits(eol) = Stops
    BY DEF Hits, InLast, Plain, Stops
  <1>3. ASSUME NEW i \in (1..Len(lst)) \ Stops
        PROVE  Lacks(lst[i], "n")
    <2>1. lst[i] \in Bytes /\ ~Has(lst[i], "n") /\ "n" \in Eols
      BY DEF IsList, Chunks, Stops, Eols
    <2>. QED  BY <2>1, NoNewline
  <1>. QED  BY <1>1, <1>2, <1>3

LEMMA NoLine ==
  ASSUME IsList(lst), NEW eol \in Eols, Hits(eol) = {}, eol # "rn"
  PROVE  ~Has(FlattenSeq(lst), eol)
  <1>1. Stops = {}
    <2>1. CASE eol = "n"
      BY <2>1, StopFacts
    <2>2. CASE eol = "r*n"
      <3>1. ASSUME NEW i \in Stops
            PROVE  FALSE
        <4>1. i \in 1..Len(lst) /\ lst \in Chunks /\ Has(lst[i], "n") /\ "n" \in Eols
          BY DEF Stops, IsList, Eols
        <4>2. PICK a, c, b \in Bytes :
                 /\ a = FlattenSeq(Upto(lst, i - 1)) /\ c = lst[i]
                 /\ b = FlattenSeq(From(lst, i + 1))
                 /\ FlattenSeq(Upto(lst, i)) = a \o c /\ a \o c \in Bytes
                 /\ FlattenSeq(lst) = (a \o c) \o b
          BY <4>1, ThreeParts
        <4>3. ~Lacks(a \o c, "n")
          BY <4>1, <4>2, NoNewline, LacksConcat
        <4>4. Has(a \o c, eol)
          BY <2>2, <4>2, <4>3, NoNewline
        <4>. QED  BY <4>2, <4>4 DEF Hits, Taken
      <3>. QED  BY <3>1
    <2>. QED  BY <2>1, <2>2 DEF Eols
  <1>2. \A i \in 1..Len(lst) : Lacks(lst[i], "n")
    BY <1>1, StopFacts
  <1>3. lst \in Chunks
    BY DEF IsList
  <1>4. Lacks(FlattenSeq(lst), "n") /\ FlattenSeq(lst) \in Bytes
    BY <1>2, <1>3, FlatLacks, FlatBytes
  <1>. QED  BY <1>4, NoNewline

(* What is put back is what was taken.                                     *)
LEMMA GiveUpFacts ==
  ASSUME IsList(lst)
  PROVE  IsList(GiveUp) /\ FlattenSeq(GiveUp) = FlattenSeq(lst)
  <1>1. CASE Stops = {}
    BY <1>1 DEF GiveUp
  <1>2. CASE Stops # {}
    <2>1. PICK i \in Stops : i = Max(Stops)
      <3>1. Len(lst) \in Nat /\ Stops \subseteq 1..Len(lst)
        BY DEF IsList, Chunks, Stops
      <3>. QED  BY <1>2, <3>1, MaxFacts
    <2>2. i \in 1..Len(lst) /\ i \in 0..Len(lst) /\ lst \in Chunks /\ lst[i] # << >>
      BY DEF Stops, IsList, Chunks
    <2>3. PICK a, c, b \in Bytes :
             /\ a = FlattenSeq(Upto(lst, i - 1)) /\ c = lst[i]
             /\ b = FlattenSeq(From(lst, i + 1))
             /\ FlattenSeq(Upto(lst, i)) = a \o c /\ a \o c \in Bytes
             /\ FlattenSeq(lst) = (a \o c) \o b
      BY <2>2, ThreeParts
    <2>4. IsList(From(lst, i + 1))
      BY <2>2, RestFacts
    <2>5. a \o c # << >>
      <3>1. Len(a \o c) = Len(a) + Len(c) /\ Len(a) \in Nat /\ Len(c) \in Nat
        BY CutConcat
      <3>2. Len(c) # 0
        BY <2>2, <2>3, EmptySeq DEF Bytes
      <3>. QED  BY <3>1, <3>2
    <2>6. GiveUp = PutBack(a \o c, From(lst, i + 1))
      BY <1>2, <2>1, <2>3, <2>5 DEF GiveUp, Taken, PutBack
    <2>. QED  BY <2>3, <2>4, <2>6, PutBackFacts
  <1>. QED  BY <1>1, <1>2

(* The line that is found.                                                 *)
LEMMA LineFacts ==
  ASSUME IsList(lst), NEW eol \in Eols, NEW keep \in BOOLEAN, Hits(eol) # {}
  PROVE  LET m == Min(Hits(eol))
             r == SplitAt(m, eol, keep)
         IN  /\ IsList(From(lst, m + 1))
             /\ \E i, j : IsLine(r, FlattenSeq(From(lst, m + 1)), eol, keep, i, j)
  <1>1. PICK m \in Hits(eol) : m = Min(Hits(eol)) /\ \A k \in Hits(eol) : m <= k
    <2>1. Hits(eol) \in SUBSET Nat
      BY StopFacts
    <2>. QED  BY <2>1, MinFacts
  <1>2. m \in Stops /\ m \in 1..Len(lst) /\ m \in 0..Len(lst) /\ lst \in Chunks
        /\ Len(lst) \in Nat
    BY StopFacts DEF IsList
  <1>3. PICK a, c, b \in Bytes :
           /\ a = FlattenSeq(Upto(lst, m - 1)) /\ c = lst[m]
           /\ b = FlattenSeq(From(lst, m + 1))
           /\ FlattenSeq(Upto(lst, m)) = a \o c /\ a \o c \in Bytes
           /\ FlattenSeq(lst) = (a \o c) \o b
    BY <1>2, ThreeParts
  <1>4. IsList(From(lst, m + 1))
    BY <1>2, RestFacts
  <1>5. CASE InLast(m, eol)
    <2>1. eol # "r*n" /\ Has(c, eol)
      BY <1>3, <1>5 DEF InLast, Plain
    <2>2. eol = "n" => Lacks(a, "n")
      <3>. SUFFICES ASSUME eol = "n"
                    PROVE  Lacks(a, "n")
        OBVIOUS
      <3>1. \A k \in 1..(m - 1) : Lacks(lst[k], "n")
        <4>1. \A k \in 1..(m - 1) : k \in 1..Len(lst) /\ ~(m <= k)
          BY <1>2
        <4>2. Hits(eol) = Stops
          BY StopFacts
        <4>. QED  BY <1>1, <4>1, <4>2, StopFacts
      <3>2. PICK h \in 0..Len(lst) : h = m - 1
        BY <1>2
      <3>3. /\ Upto(lst, h) \in Chunks /\ Len(Upto(lst, h)) = h
            /\ \A k \in 1..h : Upto(lst, h)[k] = lst[k]
        BY <1>2, CutSeq DEF Chunks
      <3>4. \A k \in 1..Len(Upto(lst, h)) : Lacks(Upto(lst, h)[k], "n")
        BY <3>1, <3>2, <3>3
      <3>. QED  BY <1>3, <3>2, <3>3, <3>4, FlatLacks
    <2>3. \E i, j : IsLine(AfterBytes(a, Split(c, eol, keep)), b, eol, keep, i, j)
      <3>1. FoundLast(a, c, b, eol)
        BY <1>3, <2>1, <2>2 DEF FoundLast
      <3>. QED  BY <3>1, SplitLast
    <2>4. SplitAt(m, eol, keep) = AfterBytes(a, Split(c, eol, keep))
      BY <1>3, <1>5 DEF SplitAt, Taken, AfterBytes
    <2>. QED  BY <1>1, <1>3, <1>4, <2>3, <2>4
  <1>6. CASE ~InLast(m, eol)
    <2>1. Has(a \o c, eol)
      BY <1>3, <1>6 DEF Hits, Taken
    <2>2. \E i, j : IsLine(Split(a \o c, eol, keep), b, eol, keep, i, j)
      <3>1. PICK v \in Bytes : v = a \o c
        BY <1>3
      <3>2. FlattenSeq(lst) = v \o b /\ Has(v, eol)
        BY <1>3, <2>1, <3>1
      <3>3. \E i, j : IsLine(Split(v, eol, keep), b, eol, keep, i, j)
        BY <3>2, SplitFacts
      <3>. QED  BY <3>1, <3>3
    <2>3. SplitAt(m, eol, keep) = Split(a \o c, eol, keep)
      BY <1>3, <1>6 DEF SplitAt, Taken
    <2>. QED  BY <1>1, <1>3, <1>4, <2>2, <2>3
  <1>. QED  BY <1>5, <1>6

(* The step of read_line, seen from all bytes.                             *)
LEMMA ReadLineFacts ==
  ASSUME BufferInv, NEW eol \in Eols, NEW keep \in BOOLEAN, Buffer_read_line(eol, keep)
  PROVE  \/ /\ Hits(eol) = {} /\ given' = None
            /\ IsList(lst') /\ FlattenSeq(lst') = FlattenSeq(lst) /\ size' = size
         \/ \E i, j : LET whole == FlattenSeq(lst) IN
              /\ i \in 1..Len(whole) /\ j \in 1..Len(whole) /\ i <= j
              /\ <<i, j>> \in MatchesOf(whole, eol)
              /\ eol # "rn" => IsFirst(whole, eol, i, j)
              /\ given' = Upto(whole, Shows(keep, i, j))
              /\ IsList(lst') /\ FlattenSeq(lst') = From(whole, j + 1)
              /\ size' = size - j
  <1>1. CASE Hits(eol) = {}
    <2>1. lst' = GiveUp /\ given' = None /\ size' = size
      BY <1>1 DEF Buffer_read_line
    <2>. QED  BY <1>1, <2>1, GiveUpFacts DEF BufferInv
  <1>2. CASE Hits(eol) # {}
    <2>1. PICK m : m = Min(Hits(eol))
      OBVIOUS
    <2>2. PICK r : r = SplitAt(m, eol, keep)
      OBVIOUS
    <2>3. /\ lst' = PutBack(r.tail, From(lst, m + 1))
          /\ size' = size - r.used /\ given' = r.line
      BY <1>2, <2>1, <2>2 DEF Buffer_read_line
    <2>4. /\ IsList(From(lst, m + 1))
          /\ \E i, j : IsLine(r, FlattenSeq(From(lst, m + 1)), eol, keep, i, j)
      BY <1>2, <2>1, <2>2, LineFacts DEF BufferInv
    <2>5. PICK i, j : IsLine(r, FlattenSeq(From(lst, m + 1)), eol, keep, i, j)
      BY <2>4
    <2>6. /\ i \in 1..Len(FlattenSeq(lst)) /\ j \in 1..Len(FlattenSeq(lst)) /\ i <= j
          /\ <<i, j>> \in MatchesOf(FlattenSeq(lst), eol)
          /\ eol # "rn" => IsFirst(FlattenSeq(lst), eol, i, j)
          /\ r.line = Upto(FlattenSeq(lst), Shows(keep, i, j))
          /\ r.tail \in Bytes /\ r.used = j
          /\ r.tail \o FlattenSeq(From(lst, m + 1)) = From(FlattenSeq(lst), j + 1)
      BY <2>5 DEF IsLine
    <2>7. IsList(lst') /\ FlattenSeq(lst') = From(FlattenSeq(lst), j + 1)
      BY <2>3, <2>4, <2>6, PutBackFacts
    <2>. QED  BY <2>3, <2>6, <2>7
  <1>. QED  BY <1>1, <1>2

(***************************************************************************)
(* read_n and read_some.                                                   *)
(***************************************************************************)
LEMMA ReadNFacts ==
  ASSUME BufferInv, NEW n \in Nat, n > 0, size >= n, Buffer_read_n(n)
  PROVE  /\ n \in 0..Len(FlattenSeq(lst))
         /\ given' = Upto(FlattenSeq(lst), n)
         /\ IsList(lst') /\ FlattenSeq(lst') = From(FlattenSeq(lst), n + 1)
         /\ size' = size - n
  <1>1. lst \in Chunks /\ IsList(lst) /\ Len(lst) \in Nat /\ size = Len(FlattenSeq(lst))
        /\ size \in Nat
    BY FlatLen DEF BufferInv, IsList
  <1>. DEFINE T == {j \in 1..Len(lst) : Len(Taken(j)) >= n}
  <1>2. PICK i \in T : i = Min(T) /\ \A k \in T : i <= k
    <2>1. lst # << >>
      BY <1>1, FlatEmpty
    <2>2. Len(lst) >= 1 /\ Len(lst) \in 1..Len(lst)
      BY <1>1, <2>1, SomeBytes
    <2>3. Taken(Len(lst)) = FlattenSeq(lst)
      BY <1>1, SubSeqFull DEF Taken, Upto, Chunks
    <2>4. Len(lst) \in T
      BY <1>1, <2>2, <2>3
    <2>5. T \in SUBSET Nat /\ T # {}
      BY <2>4
    <2>. HIDE DEF T
    <2>. QED  BY <2>5, MinFacts
  <1>3. i \in 1..Len(lst) /\ i \in 0..Len(lst)
    OBVIOUS
  <1>4. PICK a, c, b \in Bytes :
           /\ a = FlattenSeq(Upto(lst, i - 1)) /\ c = lst[i]
           /\ b = FlattenSeq(From(lst, i + 1))
           /\ FlattenSeq(Upto(lst, i)) = a \o c /\ a \o c \in Bytes
           /\ FlattenSeq(lst) = (a \o c) \o b
    BY <1>1, <1>3, ThreeParts
  <1>5. Len(a \o c) = Len(a) + Len(c) /\ Len(a) \in Nat /\ Len(c) \in Nat
    BY CutConcat
  <1>6. Len(a) + Len(c) >= n
    BY <1>4, <1>5 DEF Taken
  <1>7. Len(a) < n
    <2>1. CASE i = 1
      <3>1. Upto(lst, i - 1) = << >>
        BY <2>1, SubSeqEmpty DEF Upto
      <3>. QED  BY <1>4, <3>1, FlatEmpty
    <2>2. CASE i # 1
      <3>1. PICK k \in 1..Len(lst) : k = i - 1
        BY <1>1, <1>3, <2>2
      <3>2. k \notin T
        BY <1>2, <1>3, <3>1
      <3>3. Taken(k) = a
        BY <1>4, <3>1 DEF Taken
      <3>. QED  BY <1>5, <3>2, <3>3
    <2>. QED  BY <2>1, <2>2
  <1>8. PICK p \in 0..Len(c) : p = n - Len(a) /\ n = Len(a) + p
    <2>1. n - Len(a) \in 0..Len(c) /\ n = Len(a) + (n - Len(a))
      BY <1>5, <1>6, <1>7
    <2>. QED  BY <2>1
  <1>9. /\ given' = a \o Upto(c, p) /\ size' = size - n
        /\ lst' = PutBack(From(c, p + 1), From(lst, i + 1))
    <2>1. ~(n = 0 \/ size < n)
      BY <1>1
    <2>2. /\ given' = Taken(i - 1) \o Upto(lst[i], n - Len(Taken(i - 1)))
          /\ lst' = PutBack(From(lst[i], n - Len(Taken(i - 1)) + 1), From(lst, i + 1))
          /\ size' = size - n
      BY <1>2, <2>1 DEF Buffer_read_n
    <2>. HIDE DEF T
    <2>. QED  BY <1>4, <1>8, <2>2 DEF Taken
  <1>. HIDE DEF T
  <1>10. n \in 0..Len(a \o c) /\ n \in 0..Len(FlattenSeq(lst))
    BY <1>1, <1>5, <1>6
  <1>11. Upto(FlattenSeq(lst), n) = a \o Upto(c, p)
    <2>1. Upto(FlattenSeq(lst), n) = Upto(a \o c, n)
      <3>1. PICK v \in Bytes : v = a \o c
        BY <1>4
      <3>2. n \in 0..Len(v)
        BY <1>10, <3>1
      <3>3. Upto(v \o b, n) = Upto(v, n)
        BY <3>2, CutInFirst
      <3>. QED  BY <1>4, <3>1, <3>3
    <2>2. Upto(a \o c, Len(a) + p) = a \o Upto(c, p)
      BY CutInSecond
    <2>. QED  BY <1>8, <2>1, <2>2
  <1>12. From(FlattenSeq(lst), n + 1) = From(c, p + 1) \o b /\ From(c, p + 1) \in Bytes
    <2>1. From(FlattenSeq(lst), n + 1) = From(a \o c, n + 1) \o b
      <3>1. PICK v \in Bytes : v = a \o c
        BY <1>4
      <3>2. n \in 0..Len(v)
        BY <1>10, <3>1
      <3>3. From(v \o b, n + 1) = From(v, n + 1) \o b
        BY <3>2, CutInFirst
      <3>. QED  BY <1>4, <3>1, <3>3
    <2>2. From(a \o c, Len(a) + p + 1) = From(c, p + 1) /\ From(c, p + 1) \in Bytes
      BY CutInSecond, CutSeq DEF Bytes
    <2>. QED  BY <1>8, <2>1, <2>2
  <1>13. IsList(lst') /\ FlattenSeq(lst') = From(FlattenSeq(lst), n + 1)
    <2>1. IsList(From(lst, i + 1))
      BY <1>1, <1>3, RestFacts
    <2>. QED  BY <1>4, <1>9, <1>12, <2>1, PutBackFacts
  <1>. QED  BY <1>9, <1>10, <1>11, <1>13

LEMMA ReadSomeFacts ==
  ASSUME BufferInv, lst # << >>, Buffer_read_some
  PROVE  \E n \in 1..Len(FlattenSeq(lst)) :
           /\ given' = Upto(FlattenSeq(lst), n)
           /\ IsList(lst') /\ FlattenSeq(lst') = From(FlattenSeq(lst), n + 1)
           /\ size' = size - n
  <1>1. lst \in Chunks /\ IsList(lst) /\ Len(lst) \in Nat
    BY FlatLen DEF BufferInv, IsList
  <1>2. PICK i \in 1..Len(lst) : i = 1 /\ i \in 0..Len(lst)
    BY <1>1, SomeBytes
  <1>3. PICK a, c, b \in Bytes :
           /\ a = FlattenSeq(Upto(lst, i - 1)) /\ c = lst[i]
           /\ b = FlattenSeq(From(lst, i + 1))
           /\ FlattenSeq(Upto(lst, i)) = a \o c /\ a \o c \in Bytes
           /\ FlattenSeq(lst) = (a \o c) \o b
    BY <1>1, ThreeParts
  <1>4. FlattenSeq(lst) = c \o b
    <2>1. Upto(lst, i - 1) = << >>
      BY <1>2, SubSeqEmpty DEF Upto
    <2>2. a = << >> /\ << >> \o c = c
      BY <1>3, <2>1, FlatEmpty, ConcatEmptySeq DEF Bytes
    <2>. QED  BY <1>3, <2>2
  <1>5. /\ Len(c \o b) = Len(c) + Len(b) /\ Len(c) \in Nat /\ Len(b) \in Nat
        /\ Upto(c \o b, Len(c)) = c /\ From(c \o b, Len(c) + 1) = b
    BY CutConcat
  <1>6. Len(c) # 0
    BY <1>1, <1>3, EmptySeq DEF IsList, Bytes
  <1>7. /\ lst' = Tail(lst) /\ size' = size - Len(Head(lst)) /\ given' = Head(lst)
    BY DEF Buffer_read_some
  <1>8. Head(lst) = c /\ Tail(lst) = From(lst, i + 1)
    BY <1>1, <1>2, <1>3 DEF Chunks, From
  <1>9. IsList(From(lst, i + 1))
    BY <1>1, <1>2, RestFacts
  <1>10. PICK n \in 1..Len(FlattenSeq(lst)) : n = Len(c)
    BY <1>4, <1>5, <1>6
  <1>. QED  BY <1>3, <1>4, <1>5, <1>7, <1>8, <1>9, <1>10

(***************************************************************************)
(* The steps.                                                              *)
(***************************************************************************)
StreamStep == S!Next \/ \E keep \in BOOLEAN : Buffer_read_line("rn", keep)

(* The stream has the strings of LuaString.                                *)
LEMMA SameStrings ==
  ASSUME NEW s, NEW eol, NEW i
  PROVE  /\ S!Has(s, eol) = Has(s, eol) /\ S!Find(s, eol) = Find(s, eol)
         /\ S!Upto(s, i) = Upto(s, i) /\ S!From(s, i) = From(s, i)
  BY DEF S!Has, S!Find, S!MatchesOf, S!Matches, S!Upto, S!From,
         Has, Find, MatchesOf, Matches, Upto, From

LEMMA WriteStep ==
  ASSUME BufferInv, NEW s \in Pieces, Buffer_append(s) \/ Buffer_prepend(s)
  PROVE  BufferInv' /\ S!Write(s)
  <1>1. lst \in Chunks /\ IsList(lst) /\ FlattenSeq(lst) \in Bytes
        /\ s \in Bytes /\ size = Len(FlattenSeq(lst))
    BY BufferAssumption, FlatBytes DEF BufferInv, IsList, Bytes
  <1>2. ASSUME Buffer_append(s)
        PROVE  BufferInv' /\ S!Write(s)
    <2>1. /\ lst' = IF s = << >> THEN lst ELSE Append(lst, s)
          /\ size' = size + Len(s) /\ asked' = <<"append">> /\ given' = None
      BY <1>2 DEF Buffer_append
    <2>2. IsList(lst') /\ FlattenSeq(lst') = FlattenSeq(lst) \o s
      <3>1. CASE s = << >>
        BY <1>1, <2>1, <3>1, ConcatEmptySeq DEF Bytes
      <3>2. CASE s # << >>
        <4>1. /\ lst' = Append(lst, s) /\ lst' \in Chunks
              /\ FlattenSeq(lst') = FlattenSeq(lst) \o s
          BY <1>1, <2>1, <3>2, FlatAppend
        <4>2. /\ Len(lst') = Len(lst) + 1 /\ Len(lst) \in Nat
              /\ lst'[Len(lst) + 1] = s
              /\ \A i \in 1..Len(lst) : lst'[i] = lst[i]
          BY <1>1, <4>1, AppendProperties DEF Chunks
        <4>. QED  BY <1>1, <3>2, <4>1, <4>2 DEF IsList
      <3>. QED  BY <3>1, <3>2
    <2>3. size' = Len(FlattenSeq(lst'))
      BY <1>1, <2>1, <2>2, CutConcat
    <2>4. BufferInv'
      BY <2>2, <2>3 DEF BufferInv, IsList
    <2>. QED  BY <2>1, <2>2, <2>4 DEF S!Write
  <1>3. ASSUME Buffer_prepend(s)
        PROVE  BufferInv' /\ S!Write(s)
    <2>1. /\ lst' = PutBack(s, lst)
          /\ size' = size + Len(s) /\ asked' = <<"prepend">> /\ given' = None
      BY <1>3 DEF Buffer_prepend
    <2>2. IsList(lst') /\ FlattenSeq(lst') = s \o FlattenSeq(lst)
      BY <1>1, <2>1, PutBackFacts
    <2>3. size' = Len(FlattenSeq(lst'))
      <3>1. /\ Len(s \o FlattenSeq(lst)) = Len(s) + Len(FlattenSeq(lst))
            /\ Len(s) \in Nat /\ Len(FlattenSeq(lst)) \in Nat
        BY <1>1, CutConcat
      <3>. QED  BY <1>1, <2>1, <2>2, <3>1
    <2>4. BufferInv'
      BY <2>2, <2>3 DEF BufferInv, IsList
    <2>. QED  BY <2>1, <2>2, <2>4 DEF S!Write
  <1>. QED  BY <1>2, <1>3

(* What is left after a read.                                              *)
LEMMA LeftInv ==
  ASSUME BufferInv, NEW n \in 0..Len(FlattenSeq(lst)),
         IsList(lst'), FlattenSeq(lst') = From(FlattenSeq(lst), n + 1),
         size' = size - n
  PROVE  BufferInv'
  <1>1. PICK w \in Bytes : w = FlattenSeq(lst)
    BY FlatBytes DEF BufferInv, IsList
  <1>2. Len(From(w, n + 1)) = Len(w) - n
    BY <1>1, CutSeq DEF Bytes
  <1>3. size' = Len(FlattenSeq(lst'))
    BY <1>1, <1>2 DEF BufferInv
  <1>. QED  BY <1>3 DEF BufferInv, IsList

LEMMA LineStep ==
  ASSUME BufferInv, NEW eol \in Seps, NEW keep \in BOOLEAN, Buffer_read_line(eol, keep)
  PROVE  BufferInv' /\ (eol # "rn" => S!ReadLine(eol, keep))
  <1>1. eol \in Eols /\ asked' = <<"line", eol, keep>>
    BY BufferAssumption DEF Buffer_read_line
  <1>2. CASE /\ Hits(eol) = {} /\ given' = None
             /\ IsList(lst') /\ FlattenSeq(lst') = FlattenSeq(lst) /\ size' = size
    <2>1. BufferInv'
      BY <1>2 DEF BufferInv, IsList
    <2>2. ASSUME eol # "rn"
          PROVE  S!ReadLine(eol, keep)
      <3>1. ~Has(FlattenSeq(lst), eol)
        BY <1>1, <1>2, <2>2, NoLine DEF BufferInv
      <3>. QED  BY <1>1, <1>2, <3>1, SameStrings DEF S!ReadLine
    <2>. QED  BY <2>1, <2>2
  <1>3. ASSUME NEW i, NEW j,
               LET whole == FlattenSeq(lst) IN
               /\ i \in 1..Len(whole) /\ j \in 1..Len(whole) /\ i <= j
               /\ <<i, j>> \in MatchesOf(whole, eol)
               /\ eol # "rn" => IsFirst(whole, eol, i, j)
               /\ given' = Upto(whole, Shows(keep, i, j))
               /\ IsList(lst') /\ FlattenSeq(lst') = From(whole, j + 1)
               /\ size' = size - j
        PROVE  BufferInv' /\ (eol # "rn" => S!ReadLine(eol, keep))
    <2>1. PICK w \in Bytes : w = FlattenSeq(lst)
      BY FlatBytes DEF BufferInv, IsList
    <2>2. /\ j \in 0..Len(FlattenSeq(lst)) /\ IsList(lst')
          /\ FlattenSeq(lst') = From(FlattenSeq(lst), j + 1) /\ size' = size - j
      BY <1>3, <2>1 DEF Bytes
    <2>3. BufferInv'
      BY <2>2, LeftInv
    <2>4. ASSUME eol # "rn"
          PROVE  S!ReadLine(eol, keep)
      <3>1. Has(w, eol) /\ Find(w, eol) = <<i, j>>
        <4>1. IsFirst(w, eol, i, j)
          BY <1>3, <2>1, <2>4
        <4>. QED  BY <1>1, <4>1, FirstIsFind
      <3>2. given' = Upto(w, IF keep THEN Find(w, eol)[2] ELSE Find(w, eol)[1] - 1)
        BY <1>3, <2>1, <3>1 DEF Shows
      <3>3. FlattenSeq(lst') = From(w, Find(w, eol)[2] + 1)
        BY <1>3, <2>1, <3>1
      <3>. QED  BY <1>1, <2>1, <3>1, <3>2, <3>3, SameStrings DEF S!ReadLine
    <2>. QED  BY <2>3, <2>4
  <1>. QED  BY <1>1, <1>2, <1>3, ReadLineFacts

LEMMA ReadNStep ==
  ASSUME BufferInv, NEW n \in Nat, Buffer_read_n(n)
  PROVE  BufferInv' /\ S!ReadN(n)
  <1>1. PICK w \in Bytes : w = FlattenSeq(lst) /\ size = Len(w) /\ Len(w) \in Nat
    BY FlatLen DEF BufferInv, IsList
  <1>2. w = << >> <=> lst = << >>
    BY <1>1, FlatEmpty, SomeBytes DEF BufferInv
  <1>3. asked' = <<"n", n>>
    BY DEF Buffer_read_n
  <1>4. CASE n > 0 /\ size >= n
    <2>1. /\ n \in 0..Len(FlattenSeq(lst))
          /\ given' = Upto(FlattenSeq(lst), n)
          /\ IsList(lst') /\ FlattenSeq(lst') = From(FlattenSeq(lst), n + 1)
          /\ size' = size - n
      BY <1>4, ReadNFacts
    <2>2. BufferInv'
      BY <2>1, LeftInv
    <2>3. n <= Len(w) /\ w # << >>
      BY <1>1, <1>4
    <2>. QED  BY <1>1, <1>3, <2>1, <2>2, <2>3, SameStrings DEF S!ReadN
  <1>5. CASE ~(n > 0 /\ size >= n)
    <2>1. /\ given' = IF n = 0 /\ lst # << >> THEN << >> ELSE None
          /\ lst' = lst /\ size' = size
      BY <1>5 DEF Buffer_read_n
    <2>2. BufferInv'
      BY <2>1 DEF BufferInv, IsList
    <2>3. CASE n = 0 /\ lst # << >>
      <3>1. Upto(w, n) = << >>
        BY <2>3, SubSeqEmpty DEF Upto
      <3>2. From(w, n + 1) = w
        BY <2>3, SubSeqFull DEF From, Bytes
      <3>3. n <= Len(w) /\ w # << >>
        BY <1>1, <1>2, <2>3
      <3>. QED  BY <1>1, <1>3, <2>1, <2>2, <2>3, <3>1, <3>2, <3>3, SameStrings
                DEF S!ReadN
    <2>4. CASE ~(n = 0 /\ lst # << >>)
      <3>1. n > Len(w) \/ w = << >>
        BY <1>1, <1>2, <1>5, <2>4
      <3>. QED  BY <1>1, <1>3, <2>1, <2>2, <2>4, <3>1 DEF S!ReadN
    <2>. QED  BY <2>3, <2>4
  <1>. QED  BY <1>4, <1>5

LEMMA OtherStep ==
  ASSUME BufferInv, Buffer_read_some \/ Buffer_read_all \/ Buffer_reset
  PROVE  BufferInv' /\ (S!ReadSome \/ S!ReadAll \/ S!Reset)
  <1>1. IsList(<< >>) /\ FlattenSeq(<< >>) = << >> /\ Len(<< >>) = 0
    BY FlatEmpty DEF IsList
  <1>2. CASE Buffer_read_all \/ Buffer_reset
    <2>1. lst' = << >> /\ size' = 0 /\ FlattenSeq(lst') = << >>
      BY <1>1, <1>2 DEF Buffer_read_all, Buffer_reset
    <2>2. BufferInv'
      BY <1>1, <2>1 DEF BufferInv, IsList
    <2>3. S!ReadAll \/ S!Reset
      BY <1>2, <2>1 DEF Buffer_read_all, Buffer_reset, S!ReadAll, S!Reset
    <2>. QED  BY <2>2, <2>3
  <1>3. CASE Buffer_read_some
    <2>0. asked' = <<"some">>
      BY <1>3 DEF Buffer_read_some
    <2>1. CASE lst = << >>
      <3>1. given' = None /\ lst' = lst /\ size' = size
        BY <1>3, <2>1 DEF Buffer_read_some
      <3>2. BufferInv'
        BY <3>1 DEF BufferInv, IsList
      <3>3. FlattenSeq(lst) = << >> /\ FlattenSeq(lst') = << >>
        BY <1>1, <2>1, <3>1
      <3>. QED  BY <2>0, <3>1, <3>2, <3>3 DEF S!ReadSome
    <2>2. CASE lst # << >>
      <3>1. PICK n \in 1..Len(FlattenSeq(lst)) :
              /\ given' = Upto(FlattenSeq(lst), n)
              /\ IsList(lst') /\ FlattenSeq(lst') = From(FlattenSeq(lst), n + 1)
              /\ size' = size - n
        BY <1>3, <2>2, ReadSomeFacts
      <3>2. n \in 0..Len(FlattenSeq(lst))
        OBVIOUS
      <3>3. BufferInv'
        BY <3>1, <3>2, LeftInv
      <3>. QED  BY <2>0, <3>1, <3>3, SameStrings DEF S!ReadSome
    <2>. QED  BY <2>1, <2>2
  <1>. QED  BY <1>2, <1>3

(* Every step keeps the invariant and is one of the stream.                *)
LEMMA BufferStep ==
  ASSUME BufferInv, [BufferNext]_bufferVars
  PROVE  BufferInv' /\ [StreamStep]_bufferVars
  <1>1. ASSUME NEW s \in Pieces, Buffer_append(s) \/ Buffer_prepend(s)
        PROVE  BufferInv' /\ StreamStep
    <2>1. BufferInv' /\ S!Write(s)
      BY <1>1, WriteStep
    <2>. QED  BY <2>1 DEF StreamStep, S!Next
  <1>2. ASSUME NEW eol \in Seps, NEW keep \in BOOLEAN, Buffer_read_line(eol, keep)
        PROVE  BufferInv' /\ StreamStep
    <2>1. BufferInv' /\ (eol # "rn" => S!ReadLine(eol, keep))
      BY <1>2, LineStep
    <2>2. StreamStep
      <3>1. CASE eol = "rn"
        BY <1>2, <3>1 DEF StreamStep
      <3>2. CASE eol # "rn"
        BY <2>1, <3>2 DEF StreamStep, S!Next
      <3>. QED  BY <3>1, <3>2
    <2>. QED  BY <2>1, <2>2
  <1>3. ASSUME NEW n \in 0..MaxN, Buffer_read_n(n)
        PROVE  BufferInv' /\ StreamStep
    <2>1. n \in Nat
      OBVIOUS
    <2>2. BufferInv' /\ S!ReadN(n)
      BY <1>3, <2>1, ReadNStep
    <2>. QED  BY <2>2 DEF StreamStep, S!Next
  <1>4. ASSUME Buffer_read_some \/ Buffer_read_all \/ Buffer_reset
        PROVE  BufferInv' /\ StreamStep
    BY <1>4, OtherStep DEF StreamStep, S!Next
  <1>5. CASE UNCHANGED bufferVars
    BY <1>5 DEF BufferInv, IsList, bufferVars
  <1>. QED  BY <1>1, <1>2, <1>3, <1>4, <1>5 DEF BufferNext

LEMMA BufferStart ==
  ASSUME BufferInit
  PROVE  BufferInv /\ S!Init
  <1>1. lst = << >> /\ size = 0 /\ FlattenSeq(lst) = << >> /\ lst \in Chunks
    BY FlatEmpty DEF BufferInit
  <1>2. BufferInv
    BY <1>1 DEF BufferInv, IsList
  <1>3. S!Init
    BY <1>1 DEF BufferInit, S!Init
  <1>. QED  BY <1>2, <1>3

THEOREM BufferInvariance == BufferSpec => []BufferInv
  BY BufferStart, BufferStep, PTL DEF BufferSpec

(* _validate_internal_state: whatever is read, and however that splits and *)
(* joins the chunks, _size is the number of bytes in the list, and no      *)
(* chunk is empty.                                                         *)
THEOREM SizeIsKept == BufferSpec => []SizeIsRight
  <1>1. BufferInv => SizeIsRight
    BY DEF BufferInv, IsList, SizeIsRight
  <1>. QED  BY <1>1, BufferInvariance, PTL

(* The buffer is a stream of bytes: the chunks in which they came make no  *)
(* difference to what is read, except for lines that end with "\r\n".      *)
THEOREM BufferIsStream == BufferSpec => ImplementsStream
  <1>1. BufferInit => BufferInv /\ S!Init
    BY BufferStart
  <1>2. BufferInv /\ [BufferNext]_bufferVars =>
          BufferInv' /\ [S!Next \/ \E keep \in BOOLEAN : Buffer_read_line("rn", keep)]_bufferVars
    BY BufferStep DEF StreamStep
  <1>. QED  BY <1>1, <1>2, PTL DEF BufferSpec, ImplementsStream

(* A line that is read, the end of line and what is left make up what was  *)
(* there, for every end of line: also where a "\r\n" is missed, no byte is *)
(* lost or moved.                                                          *)
THEOREM LinesAreCut == BufferSpec => LinesLoseNothing
  <1>. DEFINE Cut == \A eol \in Seps :
                Buffer_read_line(eol, FALSE) /\ given' # None =>
                  LET before == FlattenSeq(lst)
                      after  == FlattenSeq(lst')
                      sep    == SubSeq(before, Len(given') + 1, Len(before) - Len(after))
                  IN  /\ before = given' \o sep \o after
                      /\ <<1, Len(sep)>> \in MatchesOf(sep, eol)
  <1>1. ASSUME BufferInv, NEW eol \in Seps, Buffer_read_line(eol, FALSE), given' # None
        PROVE  LET before == FlattenSeq(lst)
                   after  == FlattenSeq(lst')
                   sep    == SubSeq(before, Len(given') + 1, Len(before) - Len(after))
               IN  /\ before = given' \o sep \o after
                   /\ <<1, Len(sep)>> \in MatchesOf(sep, eol)
    <2>1. eol \in Eols /\ FALSE \in BOOLEAN
      BY BufferAssumption
    <2>2. PICK w \in Bytes : w = FlattenSeq(lst) /\ Len(w) \in Nat
      BY <1>1, FlatLen DEF BufferInv, IsList
    <2>3. PICK i, j : /\ i \in 1..Len(w) /\ j \in 1..Len(w) /\ i <= j
                      /\ <<i, j>> \in MatchesOf(w, eol)
                      /\ given' = Upto(w, i - 1)
                      /\ FlattenSeq(lst') = From(w, j + 1)
      BY <1>1, <2>1, <2>2, ReadLineFacts DEF Shows
    <2>4. PICK h \in 0..Len(w) : h = i - 1 /\ j \in 0..Len(w) /\ h <= j
      BY <2>2, <2>3
    <2>5. /\ Upto(w, h) \in Bytes /\ Len(Upto(w, h)) = h
          /\ From(w, j + 1) \in Bytes /\ Len(From(w, j + 1)) = Len(w) - j
          /\ Upto(w, j) \o From(w, j + 1) = w
      BY <2>4, CutSeq DEF Bytes
    <2>6. Upto(w, j) = Upto(w, h) \o SubSeq(w, i, j)
      <3>1. 1 \in 1..(Len(w) + 1) /\ h \in (1 - 1)..Len(w) /\ j \in h..Len(w) /\ h + 1 = i
        BY <2>2, <2>3, <2>4
      <3>2. SubSeq(w, 1, h) \o SubSeq(w, h + 1, j) = SubSeq(w, 1, j)
        BY <3>1, ConcatAdjacentSubSeq DEF Bytes
      <3>. QED  BY <3>1, <3>2 DEF Upto
    <2>7. /\ Len(given') + 1 = i /\ Len(w) - Len(FlattenSeq(lst')) = j
      BY <2>2, <2>3, <2>4, <2>5
    <2>8. /\ Len(SubSeq(w, i, j)) = j - i + 1
          /\ <<1, j - i + 1>> \in MatchesOf(SubSeq(w, i, j), eol)
      BY <2>1, <2>3, MatchCutOut
    <2>. QED  BY <2>2, <2>3, <2>4, <2>5, <2>6, <2>7, <2>8
  <1>2. BufferInv /\ [BufferNext]_bufferVars => [Cut]_bufferVars
    BY <1>1
  <1>. HIDE DEF Cut
  <1>3. BufferSpec => [][Cut]_bufferVars
    BY <1>2, BufferInvariance, PTL DEF BufferSpec
  <1>. QED  BY <1>3 DEF Cut, LinesLoseNothing
=============================================================================
