------------------------------ MODULE LuaString -----------------------------
(***************************************************************************)
(* The little of Lua's string library that lluv/utils.lua uses: a string   *)
(* is a sequence of bytes, and string.find finds the leftmost match of an  *)
(* end-of-line pattern.  Bytes are the letters "r" and "n" for carriage    *)
(* return and newline and any others for the rest.                         *)
(***************************************************************************)
EXTENDS Integers, Sequences

CONSTANT Byte

(* The patterns: "\n", "\r\n", and LuaSocket's "\r*\n".                    *)
Eols == {"n", "rn", "r*n"}

(* Only the last is a pattern and not a plain string.                      *)
Plain(eol) == eol # "r*n"

(* i..j matches eol in s.                                                  *)
Matches(s, eol, i, j) ==
  /\ s[j] = "n"
  /\ CASE eol = "n"   -> i = j
       [] eol = "rn"  -> i = j - 1 /\ s[i] = "r"
       [] eol = "r*n" -> i <= j /\ \A k \in i..(j - 1) : s[k] = "r"

MatchesOf(s, eol) ==
  {m \in (1..Len(s)) \X (1..Len(s)) : Matches(s, eol, m[1], m[2])}

Has(s, eol) == MatchesOf(s, eol) # {}

(* string.find(s, eol): where the leftmost match begins and ends.          *)
Find(s, eol) == CHOOSE m \in MatchesOf(s, eol) :
                  \A o \in MatchesOf(s, eol) : m[1] <= o[1]

Upto(s, i) == SubSeq(s, 1, i)
From(s, i) == SubSeq(s, i, Len(s))
=============================================================================
