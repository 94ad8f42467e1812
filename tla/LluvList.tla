------------------------------ MODULE LluvList ------------------------------
(***************************************************************************)
(* The list of lluv_list.c, the queue behind uv.defer: a Lua table t with  *)
(* integer keys, the occupied ones being first..last.  The indices move in *)
(* one direction for ever when the list is used as a queue.  A Lua table   *)
(* is a function that is Nil almost everywhere.                            *)
(***************************************************************************)
EXTENDS Integers, Sequences

CONSTANTS
  Values, Nil,         (* what is queued, and Lua's nil                    *)
  Below, Above         (* bound: the indices in use are -Below..Above      *)

ASSUME NilAssumption   == Nil \notin Values
ASSUME IndexAssumption == Below \in Nat /\ Above \in Nat

Idx == -Below..Above

VARIABLES first, last, t,
          ref,  (* the table is in the registry                            *)
          op,   (* the operation called last                               *)
          out   (* what the last operation left on the Lua stack           *)

vars == <<first, last, t, ref, op, out>>

Ops == {"new", "push_front", "push_back", "pop_front", "pop_back", "clear",
        "insert", "remove"}

EmptyTable == [i \in Idx |-> Nil]

Init == /\ first = 0 /\ last = -1
        /\ t = EmptyTable
        /\ ref = TRUE
        /\ op = "new"
        /\ out = Nil

TypeOK == /\ first \in -Below..(Above + 1)
          /\ last \in (-Below - 1)..Above
          /\ t \in [Idx -> Values \cup {Nil}]
          /\ ref \in BOOLEAN
          /\ op \in Ops
          /\ out \in Values \cup {Nil}

lluv_list_size  == last - first + 1
lluv_list_empty == first > last

lluv_list_push_front(v) ==
  /\ ref /\ first - 1 \in Idx
  /\ op' = "push_front"
  /\ t' = [t EXCEPT ![first - 1] = v]
  /\ first' = first - 1
  /\ out' = Nil
  /\ UNCHANGED <<last, ref>>

lluv_list_push_back(v) ==
  /\ ref /\ last + 1 \in Idx
  /\ op' = "push_back"
  /\ t' = [t EXCEPT ![last + 1] = v]
  /\ last' = last + 1
  /\ out' = Nil
  /\ UNCHANGED <<first, ref>>

(* lluv_list_pop_: nothing is popped from an empty list; the popped slot   *)
(* is cleared.                                                             *)
lluv_list_pop_(i) ==
  IF lluv_list_empty THEN out' = Nil /\ UNCHANGED t
                     ELSE out' = t[i] /\ t' = [t EXCEPT ![i] = Nil]

lluv_list_pop_front ==
  /\ ref
  /\ op' = "pop_front"
  /\ lluv_list_pop_(first)
  /\ first' = IF lluv_list_empty THEN first ELSE first + 1
  /\ UNCHANGED <<last, ref>>

lluv_list_pop_back ==
  /\ ref
  /\ op' = "pop_back"
  /\ lluv_list_pop_(last)
  /\ last' = IF lluv_list_empty THEN last ELSE last - 1
  /\ UNCHANGED <<first, ref>>

(* The table goes with all that is queued; the list is not used again.     *)
lluv_list_close ==
  /\ ref
  /\ op' = "clear"
  /\ first' = 0 /\ last' = -1
  /\ t' = EmptyTable
  /\ ref' = FALSE
  /\ out' = Nil

Ends == \/ \E v \in Values : lluv_list_push_front(v) \/ lluv_list_push_back(v)
        \/ lluv_list_pop_front
        \/ lluv_list_pop_back

Next == Ends \/ lluv_list_close

Spec == Init /\ [][Next]_vars

(***************************************************************************)
(* Correctness.                                                            *)
(***************************************************************************)

(* The occupied slots are first..last, without holes (the nil assert of    *)
(* lluv_list_pop_) and without leftovers (a popped value is not kept from  *)
(* the collector); the size never wraps below zero when it is cast to      *)
(* size_t.                                                                 *)
Dense == /\ {i \in Idx : t[i] # Nil} = first..last
         /\ lluv_list_size >= 0

(* The list is a deque: its contents, read from first to last, change and  *)
(* are returned as the operations of Deque say.                            *)
Contents == [i \in 1..lluv_list_size |-> t[first + i - 1]]

D == INSTANCE Deque WITH q <- Contents

ImplementsDeque == D!Spec
=============================================================================
