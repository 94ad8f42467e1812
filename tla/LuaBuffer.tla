------------------------------ MODULE LuaBuffer -----------------------------
(***************************************************************************)
(* The class Buffer of lluv/utils.lua: a list of chunks, as they came from *)
(* the network, and the number of bytes in them.  It reads lines without   *)
(* concatenating more than it has to.                                      *)
(***************************************************************************)
EXTENDS LuaString, SequencesExt

CONSTANTS
  Pieces,    (* the strings that are written                               *)
  Seps,      (* the ends of line that are read up to, a subset of Eols     *)
  MaxN,      (* bound: the most bytes asked for at once                    *)
  MaxBytes,  (* bound: bytes in the list                                   *)
  None

ASSUME BufferAssumption == /\ Pieces \subseteq Seq(Byte)
                           /\ Seps \subseteq Eols /\ MaxN \in Nat

VARIABLES
  lst,    (* _lst, the chunks                                              *)
  size,   (* _size                                                         *)
  asked,  (* the last call                                                 *)
  given   (* what it returned                                              *)

bufferVars == <<lst, size, asked, given>>

BufferInit == lst = << >> /\ size = 0 /\ asked = <<"new">> /\ given = None

(* push_front of what is left of a chunk, unless nothing is.               *)
PutBack(s, l) == IF s = << >> THEN l ELSE <<s>> \o l

(* append and prepend ignore empty strings.                                *)
Buffer_append(s) ==
  /\ size + Len(s) <= MaxBytes
  /\ lst' = IF s = << >> THEN lst ELSE Append(lst, s)
  /\ size' = size + Len(s)
  /\ asked' = <<"append">> /\ given' = None

(* Mutant: the size is not updated.                                        *)
Buffer_prepend_NoSize(s) ==
  /\ size + Len(s) <= MaxBytes
  /\ lst' = PutBack(s, lst)
  /\ asked' = <<"prepend">> /\ given' = None
  /\ UNCHANGED size

Buffer_prepend(s) ==
  /\ size + Len(s) <= MaxBytes
  /\ lst' = PutBack(s, lst)
  /\ size' = size + Len(s)
  /\ asked' = <<"prepend">> /\ given' = None

(***************************************************************************)
(* read_line.  All ends of line end with a newline.  The loop takes chunks *)
(* up to the next one that has a newline (Stops has their positions); for  *)
(* a plain end of line it looks at the last of them alone, and only if it  *)
(* is not there at all of them together.                                   *)
(***************************************************************************)
Stops == {i \in 1..Len(lst) : Has(lst[i], "n")}

Taken(i) == FlattenSeq(Upto(lst, i))

InLast(i, eol) == Plain(eol) /\ Has(lst[i], eol)
Hits(eol)      == {i \in Stops : InLast(i, eol) \/ Has(Taken(i), eol)}

(* split_first_ex, and with keep split_first_eol, applied to s: the line,  *)
(* what comes after it, and how many bytes are used up.                    *)
Split(s, eol, keep) ==
  LET m == Find(s, eol)
  IN  [line |-> Upto(s, IF keep THEN m[2] ELSE m[1] - 1),
       tail |-> From(s, m[2] + 1),
       used |-> m[2]]

(* Mutant: the chunks before the last are forgotten.                       *)
SplitAt_Last(i, eol, keep) ==
  IF InLast(i, eol) THEN Split(lst[i], eol, keep)
                    ELSE Split(Taken(i), eol, keep)

(* The line taken from the first i chunks.                                 *)
SplitAt(i, eol, keep) ==
  IF InLast(i, eol)
  THEN LET before == Taken(i - 1)
           last   == Split(lst[i], eol, keep)
       IN  [last EXCEPT !.line = before \o @, !.used = Len(before) + @]
  ELSE Split(Taken(i), eol, keep)

(* No end of line: the chunks that were taken are put back as one.         *)
GiveUp ==
  IF Stops = {} THEN lst
  ELSE <<Taken(Max(Stops))>> \o From(lst, Max(Stops) + 1)

Buffer_read_line(eol, keep) ==
  /\ asked' = <<"line", eol, keep>>
  /\ \/ /\ Hits(eol) = {}
        /\ lst' = GiveUp
        /\ given' = None
        /\ UNCHANGED size
     \/ /\ Hits(eol) # {}
        /\ LET i == Min(Hits(eol))
               r == SplitAt(i, eol, keep)
           IN  /\ lst' = PutBack(r.tail, From(lst, i + 1))
               /\ size' = size - r.used
               /\ given' = r.line

(***************************************************************************)
(* The other readers.                                                      *)
(***************************************************************************)
Buffer_read_all ==
  /\ lst' = << >> /\ size' = 0
  /\ asked' = <<"all">> /\ given' = FlattenSeq(lst)

Buffer_read_some ==
  /\ asked' = <<"some">>
  /\ \/ lst = << >> /\ given' = None /\ UNCHANGED <<lst, size>>
     \/ /\ lst # << >>
        /\ lst' = Tail(lst)
        /\ size' = size - Len(Head(lst))
        /\ given' = Head(lst)

(* Mutant: the rest of the last chunk is lost.                             *)
Buffer_read_n_Drops(n) ==
  /\ asked' = <<"n", n>>
  /\ \/ /\ n > 0 /\ size >= n
        /\ LET i == Min({j \in 1..Len(lst) : Len(Taken(j)) >= n})
           IN  lst' = From(lst, i + 1)
        /\ given' = Upto(FlattenSeq(lst), n)
        /\ size' = size - n
     \/ /\ n = 0 \/ size < n
        /\ given' = IF n = 0 /\ lst # << >> THEN << >> ELSE None
        /\ UNCHANGED <<lst, size>>

(* Chunks are taken until there are n bytes; the rest of the last one is   *)
(* put back.                                                               *)
Buffer_read_n(n) ==
  /\ asked' = <<"n", n>>
  /\ \/ /\ n > 0 /\ size >= n
        /\ LET i   == Min({j \in 1..Len(lst) : Len(Taken(j)) >= n})
               pos == n - Len(Taken(i - 1))
           IN  /\ given' = Taken(i - 1) \o Upto(lst[i], pos)
               /\ lst' = PutBack(From(lst[i], pos + 1), From(lst, i + 1))
        /\ size' = size - n
     \/ /\ n = 0 \/ size < n
        /\ given' = IF n = 0 /\ lst # << >> THEN << >> ELSE None
        /\ UNCHANGED <<lst, size>>

Buffer_reset ==
  /\ lst' = << >> /\ size' = 0
  /\ asked' = <<"reset">> /\ given' = None

BufferNext ==
  \/ \E s \in Pieces : Buffer_append(s) \/ Buffer_prepend(s)
  \/ \E eol \in Seps, keep \in BOOLEAN : Buffer_read_line(eol, keep)
  \/ \E n \in 0..MaxN : Buffer_read_n(n)
  \/ Buffer_read_some
  \/ Buffer_read_all
  \/ Buffer_reset

BufferSpec == BufferInit /\ [][BufferNext]_bufferVars

(***************************************************************************)
(* Correctness.                                                            *)
(***************************************************************************)

(* The assert of Buffer:_validate_internal_state: _size is the number of   *)
(* bytes in the list, after every mixture of reads that split chunks and   *)
(* reads that put them back joined.  No chunk is empty, as read_n and the  *)
(* search for the end of line take for granted.                            *)
SizeIsRight == /\ size = Len(FlattenSeq(lst))
               /\ \A i \in 1..Len(lst) : lst[i] # << >>

(* The buffer is a stream of bytes: how the bytes were cut into chunks     *)
(* makes no difference to any line or block that is read.  The exception   *)
(* is a line read up to "\r\n": one that begins at the end of a chunk is   *)
(* missed if the next chunk has another.                                   *)
S == INSTANCE ByteStream WITH data <- FlattenSeq(lst), op <- asked,
                              out <- given, Ends <- Seps, Nil <- None

ImplementsStream ==
  S!Init /\ [][S!Next \/ \E keep \in BOOLEAN : Buffer_read_line("rn", keep)]_bufferVars

(* A reader of lines loses nothing: what is returned, an end of line and   *)
(* what is left make up what was there, whatever the end of line.          *)
LinesLoseNothing ==
  [][\A eol \in Seps :
       Buffer_read_line(eol, FALSE) /\ given' # None =>
         LET before == FlattenSeq(lst)
             after  == FlattenSeq(lst')
             sep    == SubSeq(before, Len(given') + 1, Len(before) - Len(after))
         IN  /\ before = given' \o sep \o after
             /\ <<1, Len(sep)>> \in MatchesOf(sep, eol)]_bufferVars
=============================================================================
