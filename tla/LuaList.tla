------------------------------- MODULE LuaList ------------------------------
(***************************************************************************)
(* The class List of lluv/utils.lua: the same representation as LluvList,  *)
(* with insertion and removal in the middle, which shift the shorter side. *)
(* Positions count from 1, or backwards from -1.                           *)
(***************************************************************************)
EXTENDS LluvList

List_push_front(v) == lluv_list_push_front(v)
List_push_back(v)  == lluv_list_push_back(v)
List_pop_front     == lluv_list_pop_front
List_pop_back      == lluv_list_pop_back
List_size          == lluv_list_size

List_reset ==
  /\ op' = "clear"
  /\ first' = 0 /\ last' = -1
  /\ t' = EmptyTable
  /\ out' = Nil
  /\ UNCHANGED ref

Absolute(pos) == IF pos < 0 THEN List_size + pos + 1 ELSE pos

(* What is in a slot; beyond the bound nothing is.                         *)
At(i) == IF i \in Idx THEN t[i] ELSE Nil

(* Mutant: an element is not shifted.                                      *)
List_insert_Overwrites(pos, v) ==
  LET p      == Absolute(pos)
      offset == first + p - 1
  IN  /\ 1 <= p /\ p <= List_size + 1
      /\ op' = "insert"
      /\ last + 1 \in Idx
      /\ t' = [i \in Idx |-> IF i = offset THEN v
                             ELSE IF i \in (offset + 2)..(last + 1)
                                  THEN At(i - 1) ELSE t[i]]
      /\ last' = last + 1
      /\ out' = Nil
      /\ UNCHANGED <<first, ref>>

(* A position outside the list: nothing happens, nil is returned.          *)
List_remove(pos) ==
  LET p      == Absolute(pos)
      offset == first + p - 1
  IN  /\ 1 <= p /\ p <= List_size
      /\ op' = "remove"
      /\ out' = t[offset]
      /\ IF 2 * p < List_size
         THEN /\ t' = [i \in Idx |-> IF i \in first..offset THEN At(i - 1) ELSE t[i]]
              /\ first' = first + 1
              /\ UNCHANGED last
         ELSE /\ t' = [i \in Idx |-> IF i \in offset..last THEN At(i + 1) ELSE t[i]]
              /\ last' = last - 1
              /\ UNCHANGED first
      /\ UNCHANGED ref

List_insert(pos, v) ==
  LET p      == Absolute(pos)
      offset == first + p - 1
  IN  /\ 1 <= p /\ p <= List_size + 1
      /\ op' = "insert"
      /\ IF 2 * p < List_size
         THEN /\ first - 1 \in Idx
              /\ t' = [i \in Idx |-> IF i = offset - 1 THEN v
                                     ELSE IF i \in (first - 1)..(offset - 1)
                                          THEN At(i + 1) ELSE t[i]]
              /\ first' = first - 1
              /\ UNCHANGED last
         ELSE /\ last + 1 \in Idx
              /\ t' = [i \in Idx |-> IF i = offset THEN v
                                     ELSE IF i \in (offset + 1)..(last + 1)
                                          THEN At(i - 1) ELSE t[i]]
              /\ last' = last + 1
              /\ UNCHANGED first
      /\ out' = Nil
      /\ UNCHANGED ref

Positions == -(List_size + 1)..(List_size + 2)

LuaNext ==
  \/ \E v \in Values : List_push_front(v) \/ List_push_back(v)
  \/ List_pop_front
  \/ List_pop_back
  \/ List_reset
  \/ \E pos \in Positions : List_remove(pos) \/ \E v \in Values : List_insert(pos, v)

LuaSpec == Init /\ [][LuaNext]_vars

(* The Lua list is a deque with insertion and removal: whichever side is   *)
(* shifted, the other elements keep their order and none is lost or        *)
(* doubled.                                                                *)
ImplementsFullDeque == D!FullSpec
=============================================================================
