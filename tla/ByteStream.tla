----------------------------- MODULE ByteStream -----------------------------
(***************************************************************************)
(* What Buffer of lluv/utils.lua promises: a stream of bytes.  Reading a   *)
(* line or n bytes depends on the bytes only, not on the pieces in which   *)
(* they arrived.  op is the last call, out what it returned.               *)
(***************************************************************************)
EXTENDS LuaString

CONSTANTS
  Pieces,   (* the strings that are written                                *)
  Ends,     (* the ends of line that are read up to, a subset of Eols      *)
  MaxN,     (* bound: the most bytes asked for at once                     *)
  Nil

VARIABLES data, op, out

Init == data = << >> /\ op = <<"new">> /\ out = Nil

Write(s) ==
  /\ out' = Nil
  /\ \/ op' = <<"append">> /\ data' = data \o s
     \/ op' = <<"prepend">> /\ data' = s \o data

(* The line before the first end of line; keep tells whether the end of    *)
(* line comes with it.  A line that is not complete stays.                 *)
ReadLine(eol, keep) ==
  /\ op' = <<"line", eol, keep>>
  /\ \/ /\ ~Has(data, eol)
        /\ out' = Nil /\ data' = data
     \/ /\ Has(data, eol)
        /\ LET m == Find(data, eol)
           IN  /\ out' = Upto(data, IF keep THEN m[2] ELSE m[1] - 1)
               /\ data' = From(data, m[2] + 1)

(* Exactly n bytes or none; from an empty stream, none.                    *)
ReadN(n) ==
  /\ op' = <<"n", n>>
  /\ \/ /\ n <= Len(data) /\ data # << >>
        /\ out' = Upto(data, n) /\ data' = From(data, n + 1)
     \/ /\ n > Len(data) \/ data = << >>
        /\ out' = Nil /\ data' = data

(* Some bytes, at least one, if there are any.                             *)
ReadSome ==
  /\ op' = <<"some">>
  /\ \/ \E n \in 1..Len(data) :
          out' = Upto(data, n) /\ data' = From(data, n + 1)
     \/ data = << >> /\ out' = Nil /\ data' = data

ReadAll == op' = <<"all">> /\ out' = data /\ data' = << >>

Reset == op' = <<"reset">> /\ data' = << >> /\ out' = Nil

Next ==
  \/ \E s \in Pieces : Write(s)
  \/ \E eol \in Ends, keep \in BOOLEAN : ReadLine(eol, keep)
  \/ \E n \in 0..MaxN : ReadN(n)
  \/ ReadSome
  \/ ReadAll
  \/ Reset

Spec == Init /\ [][Next]_<<data, op, out>>
=============================================================================
