---------------------------- MODULE LuaCofsProofs ---------------------------
(***************************************************************************)
(* Proofs about LuaCofs, for files of any contents and any number of       *)
(* requests that interrupted calls have left in libuv.                     *)
(*                                                                         *)
(* The invariant says that the coroutine waits for the last request and    *)
(* that this is one its call has asked for (Asked), that the position is   *)
(* where the bytes read so far end (Reading), and that as many descriptors *)
(* are open in the kernel as the requests (Count) and the File own.  Of a  *)
(* transfer that found no abandoned request ExactInv says besides what it  *)
(* has read or written so far, byte by byte.                               *)
(***************************************************************************)
EXTENDS LuaCofs, LuaStringProofs, FiniteSetTheorems

CallOps == {"none", "open", "close", "read_n", "read_line", "write", "seek_end", "truncate"}
ReqOps  == {"open", "close", "read", "write", "stat", "truncate"}

SelfRec == [fd : BOOLEAN, pos : Nat, eol : FileEols \cup {"none"}, wait : BOOLEAN]

CallRec == [op : CallOps, n : Int, arg : Bytes, keep : BOOLEAN, res : Bytes,
            from : Nat, clean : BOOLEAN]

ReqRec == [op : ReqOps, off : Nat, n : Nat, str : Bytes, live : BOOLEAN,
           mine : BOOLEAN, at : {"queued", "done"}, ok : BOOLEAN, size : Nat]

(* The request with which a call waits.                                    *)
Asks(op) == CASE op \in {"read_n", "read_line"} -> "read"
              [] op = "seek_end"                -> "stat"
              [] OTHER                          -> op

(* Nobody waits for any of the requests rs.                                *)
Settled(rs) == rs \in Seq(ReqRec) /\ \A i \in 1..Len(rs) : ~rs[i].live

(* The call c waits for the last of rs.                                    *)
Asked(s, c, rs) ==
  /\ rs \in Seq(ReqRec) /\ Len(rs) # 0
  /\ \A i \in 1..Len(rs) : rs[i].live <=> i = Len(rs)
  /\ rs[Len(rs)].op = Asks(c.op)
  /\ c.op \in {"read_n", "read_line", "write"} => rs[Len(rs)].off = s.pos

(* What a call has read so far ends at the position.                       *)
Reading(s, c) ==
  /\ c.op \in {"read_n", "read_line"} => s.pos = c.from + Len(c.res)
  /\ c.op = "read_n" /\ c.n <= BUFFER_SIZE => c.res = << >>

Sound(s, c, rs) ==
  /\ s \in SelfRec /\ c \in CallRec
  /\ s.wait <=> c.op # "none"
  /\ c.op = "none" => Settled(rs)
  /\ c.op # "none" => Asked(s, c, rs)
  /\ c.op = "open" => ~s.fd
  /\ Reading(s, c)

(* Requests that own a descriptor, and what the File owns.                 *)
Count(rs) == Cardinality({i \in DOMAIN rs : Holds(rs[i])})
Own(b)    == IF b THEN 1 ELSE 0

CofsInv ==
  /\ disk \in Bytes
  /\ Sound(self, call, reqs)
  /\ fds = Count(reqs) + Own(self.fd /\ call.op # "close")

(***************************************************************************)
(* Sequences of requests.                                                  *)
(***************************************************************************)
LEMMA CountType ==
  ASSUME NEW rs \in Seq(ReqRec)
  PROVE  /\ IsFiniteSet({i \in DOMAIN rs : Holds(rs[i])}) /\ Count(rs) \in Nat
         /\ DOMAIN rs = 1..Len(rs) /\ Len(rs) \in Nat
  <1>1. DOMAIN rs = 1..Len(rs) /\ Len(rs) \in Nat
    OBVIOUS
  <1>2. IsFiniteSet(1..Len(rs))
    BY <1>1, FS_Interval
  <1>3. {i \in DOMAIN rs : Holds(rs[i])} \in SUBSET (1..Len(rs))
    BY <1>1
  <1>4. IsFiniteSet({i \in DOMAIN rs : Holds(rs[i])})
    BY <1>2, <1>3, FS_Subset
  <1>. QED  BY <1>1, <1>4, FS_CardinalityType DEF Count

(* One request changes.                                                    *)
LEMMA CountChange ==
  ASSUME NEW rs \in Seq(ReqRec), NEW q \in Seq(ReqRec), Len(q) = Len(rs),
         NEW i \in 1..Len(rs),
         \A j \in 1..Len(rs) : j # i => (Holds(q[j]) <=> Holds(rs[j]))
  PROVE  Count(q) = Count(rs) - Own(Holds(rs[i])) + Own(Holds(q[i]))
  <1>. DEFINE A == {j \in DOMAIN rs : Holds(rs[j])}
              B == {j \in DOMAIN q : Holds(q[j])}
  <1>1. /\ IsFiniteSet(A) /\ IsFiniteSet(B) /\ DOMAIN rs = 1..Len(rs)
        /\ DOMAIN q = 1..Len(rs) /\ Cardinality(A) \in Nat /\ Cardinality(B) \in Nat
    BY CountType DEF Count
  <1>2. A \ {i} = B \ {i}
    BY <1>1
  <1>3. Cardinality(A \ {i}) = IF i \in A THEN Cardinality(A) - 1 ELSE Cardinality(A)
    BY <1>1, FS_RemoveElement
  <1>4. Cardinality(B \ {i}) = IF i \in B THEN Cardinality(B) - 1 ELSE Cardinality(B)
    BY <1>1, FS_RemoveElement
  <1>5. (i \in A <=> Holds(rs[i])) /\ (i \in B <=> Holds(q[i]))
    BY <1>1
  <1>6. Count(rs) = Cardinality(A) /\ Count(q) = Cardinality(B)
    BY DEF Count
  <1>. HIDE DEF A, B
  <1>7. PICK x \in Nat : x = Cardinality(A)
    BY <1>1
  <1>8. PICK y \in Nat : y = Cardinality(B)
    BY <1>1
  <1>9. (IF i \in A THEN x - 1 ELSE x) = (IF i \in B THEN y - 1 ELSE y)
    BY <1>2, <1>3, <1>4, <1>7, <1>8
  <1>10. Own(Holds(rs[i])) = (IF i \in A THEN 1 ELSE 0)
    BY <1>5 DEF Own
  <1>11. Own(Holds(q[i])) = (IF i \in B THEN 1 ELSE 0)
    BY <1>5 DEF Own
  <1>12. y = x - (IF i \in A THEN 1 ELSE 0) + (IF i \in B THEN 1 ELSE 0)
    BY <1>9
  <1>. QED  BY <1>6, <1>7, <1>8, <1>10, <1>11, <1>12

(* None changes, as far as descriptors go.                                 *)
LEMMA CountSame ==
  ASSUME NEW rs \in Seq(ReqRec), NEW q \in Seq(ReqRec), Len(q) = Len(rs),
         \A j \in 1..Len(rs) : Holds(q[j]) <=> Holds(rs[j])
  PROVE  Count(q) = Count(rs)
  <1>1. DOMAIN rs = 1..Len(rs) /\ DOMAIN q = 1..Len(rs)
    BY CountType
  <1>2. {j \in DOMAIN rs : Holds(rs[j])} = {j \in DOMAIN q : Holds(q[j])}
    BY <1>1
  <1>. QED  BY <1>2 DEF Count

LEMMA CountAppend ==
  ASSUME NEW rs \in Seq(ReqRec), NEW r \in ReqRec
  PROVE  /\ Append(rs, r) \in Seq(ReqRec)
         /\ Count(Append(rs, r)) = Count(rs) + Own(Holds(r))
  <1>1. PICK q \in Seq(ReqRec) : q = Append(rs, r)
    <2>1. Append(rs, r) \in Seq(ReqRec)
      OBVIOUS
    <2>. QED  BY <2>1
  <1>2. /\ Len(q) = Len(rs) + 1 /\ q[Len(rs) + 1] = r
        /\ \A i \in 1..Len(rs) : q[i] = rs[i]
    BY <1>1
  <1>. DEFINE A == {j \in DOMAIN rs : Holds(rs[j])}
              B == {j \in DOMAIN q : Holds(q[j])}
              e == Len(rs) + 1
  <1>3. /\ IsFiniteSet(A) /\ DOMAIN rs = 1..Len(rs) /\ DOMAIN q = 1..e
        /\ Cardinality(A) \in Nat /\ e \notin A
    BY <1>2, CountType DEF Count
  <1>4. B = IF Holds(r) THEN A \cup {e} ELSE A
    BY <1>2, <1>3
  <1>5. Cardinality(A \cup {e}) = Cardinality(A) + 1
    BY <1>3, FS_AddElement
  <1>6. Count(rs) = Cardinality(A) /\ Count(q) = Cardinality(B)
    BY DEF Count
  <1>. HIDE DEF A, B
  <1>. QED  BY <1>1, <1>3, <1>4, <1>5, <1>6 DEF Own

(* RemoveAt, request by request.                                           *)
Skip(i, j) == IF j < i THEN j ELSE j + 1

LEMMA RemoveAtFacts ==
  ASSUME NEW rs \in Seq(ReqRec), NEW i \in 1..Len(rs)
  PROVE  /\ RemoveAt(rs, i) \in Seq(ReqRec) /\ Len(RemoveAt(rs, i)) = Len(rs) - 1
         /\ \A j \in 1..(Len(rs) - 1) : /\ RemoveAt(rs, i)[j] = rs[Skip(i, j)]
                                        /\ Skip(i, j) \in 1..Len(rs)
  <1>. DEFINE a == SubSeq(rs, 1, i - 1)
              b == SubSeq(rs, i + 1, Len(rs))
  <1>1. Len(rs) \in Nat /\ i \in Int /\ \A j \in 1..Len(rs) : rs[j] \in ReqRec
    OBVIOUS
  <1>2. /\ a \in Seq(ReqRec) /\ Len(a) = i - 1
        /\ \A j \in 1..(i - 1) : a[j] = rs[j]
    <2>1. \A j \in 1..(i - 1) : rs[j] \in ReqRec
      BY <1>1
    <2>. QED  BY <1>1, <2>1, SubSeqProperties
  <1>3. /\ b \in Seq(ReqRec) /\ Len(b) = Len(rs) - i
        /\ \A j \in 1..(Len(rs) - i) : b[j] = rs[i + j]
    <2>1. \A j \in (i + 1)..Len(rs) : rs[j] \in ReqRec
      BY <1>1
    <2>2. /\ b \in Seq(ReqRec)
          /\ Len(b) = IF i + 1 <= Len(rs) THEN Len(rs) - (i + 1) + 1 ELSE 0
          /\ \A j \in 1..(Len(rs) - (i + 1) + 1) : b[j] = rs[(i + 1) + j - 1]
      BY <1>1, <2>1, SubSeqProperties
    <2>. HIDE DEF b
    <2>3. Len(b) = Len(rs) - i
      BY <1>1, <2>2
    <2>4. ASSUME NEW j \in 1..(Len(rs) - i)
          PROVE  b[j] = rs[i + j]
      <3>1. j \in 1..(Len(rs) - (i + 1) + 1) /\ (i + 1) + j - 1 = i + j
        BY <1>1
      <3>2. b[j] = rs[(i + 1) + j - 1]
        BY <2>2, <3>1
      <3>. QED  BY <3>1, <3>2
    <2>. QED  BY <2>2, <2>3, <2>4
  <1>4. RemoveAt(rs, i) = a \o b
    BY DEF RemoveAt
  <1>. HIDE DEF a, b
  <1>5. /\ a \o b \in Seq(ReqRec) /\ Len(a \o b) = Len(a) + Len(b)
        /\ \A j \in 1..(Len(a) + Len(b)) :
             (a \o b)[j] = IF j <= Len(a) THEN a[j] ELSE b[j - Len(a)]
    BY <1>2, <1>3, ConcatProperties
  <1>6. Len(a) + Len(b) = Len(rs) - 1
    BY <1>1, <1>2, <1>3
  <1>7. ASSUME NEW j \in 1..(Len(rs) - 1)
        PROVE  (a \o b)[j] = rs[Skip(i, j)] /\ Skip(i, j) \in 1..Len(rs)
    <2>1. CASE j < i
      BY <1>1, <1>2, <1>5, <1>6, <2>1 DEF Skip
    <2>2. CASE ~(j < i)
      <3>1. PICK k \in 1..(Len(rs) - i) : k = j - (i - 1)
        BY <1>1, <2>2
      <3>2. (a \o b)[j] = b[k]
        <4>1. j \in 1..(Len(a) + Len(b)) /\ ~(j <= Len(a)) /\ j - Len(a) = k
          BY <1>1, <1>2, <1>6, <2>2, <3>1
        <4>. QED  BY <1>5, <4>1
      <3>3. b[k] = rs[i + k] /\ i + k = j + 1
        BY <1>1, <1>3, <3>1
      <3>. QED  BY <1>1, <2>2, <3>2, <3>3 DEF Skip
    <2>. QED  BY <2>1, <2>2
  <1>. QED  BY <1>4, <1>5, <1>6, <1>7

LEMMA CountRemove ==
  ASSUME NEW rs \in Seq(ReqRec), NEW i \in 1..Len(rs)
  PROVE  Count(RemoveAt(rs, i)) = Count(rs) - Own(Holds(rs[i]))
  <1>1. PICK q \in Seq(ReqRec) : q = RemoveAt(rs, i)
    BY RemoveAtFacts
  <1>2. /\ Len(rs) \in Nat /\ Len(q) = Len(rs) - 1
        /\ \A j \in 1..(Len(rs) - 1) : q[j] = rs[Skip(i, j)] /\ Skip(i, j) \in 1..Len(rs)
    <2>1. /\ Len(RemoveAt(rs, i)) = Len(rs) - 1
          /\ \A j \in 1..(Len(rs) - 1) : /\ RemoveAt(rs, i)[j] = rs[Skip(i, j)]
                                         /\ Skip(i, j) \in 1..Len(rs)
      BY RemoveAtFacts
    <2>2. Len(rs) \in Nat
      OBVIOUS
    <2>. QED  BY <1>1, <2>1, <2>2
  <1>. DEFINE A == {j \in DOMAIN rs : Holds(rs[j])}
              B == {j \in DOMAIN q : Holds(q[j])}
              C == A \ {i}
              f == [j \in B |-> Skip(i, j)]
  <1>3. /\ IsFiniteSet(A) /\ IsFiniteSet(B) /\ DOMAIN rs = 1..Len(rs)
        /\ DOMAIN q = 1..(Len(rs) - 1) /\ Cardinality(A) \in Nat
    BY <1>2, CountType DEF Count
  <1>4. \A j \in B : Skip(i, j) \in C
    <2>1. \A j \in B : j \in 1..(Len(rs) - 1) /\ Holds(q[j])
      BY <1>3
    <2>2. \A j \in 1..(Len(rs) - 1) : Skip(i, j) # i
      BY <1>2 DEF Skip
    <2>. QED  BY <1>2, <1>3, <2>1, <2>2
  <1>5. \A a, b \in B : f[a] = f[b] => a = b
    <2>1. \A j \in B : j \in Int
      BY <1>3
    <2>2. \A a, b \in Int : Skip(i, a) = Skip(i, b) => a = b
      BY DEF Skip
    <2>. QED  BY <2>1, <2>2
  <1>6. ASSUME NEW k \in C
        PROVE  \E j \in B : f[j] = k
    <2>1. k \in 1..Len(rs) /\ k # i /\ Holds(rs[k])
      BY <1>3
    <2>2. PICK j \in 1..(Len(rs) - 1) : Skip(i, j) = k
      <3>1. CASE k < i
        BY <1>2, <2>1, <3>1 DEF Skip
      <3>2. CASE k > i
        <4>1. PICK j \in 1..(Len(rs) - 1) : j = k - 1
          BY <1>2, <2>1, <3>2
        <4>2. Skip(i, j) = k
          BY <1>2, <2>1, <3>2, <4>1 DEF Skip
        <4>. QED  BY <4>2
      <3>. QED  BY <1>2, <2>1, <3>1, <3>2
    <2>3. Holds(q[j])
      BY <1>2, <2>1, <2>2
    <2>. QED  BY <1>3, <2>2, <2>3
  <1>7. f \in [B -> C]
    BY <1>4
  <1>8. f \in Bijection(B, C)
    <2>. HIDE DEF f, B, C
    <2>. QED  BY <1>5, <1>6, <1>7 DEF Bijection, Injection, Surjection, IsInjective
  <1>9. Cardinality(C) = Cardinality(B)
    <2>. HIDE DEF f, B, C
    <2>1. ExistsBijection(B, C)
      BY <1>8 DEF ExistsBijection
    <2>. QED  BY <1>3, <2>1, FS_Bijection
  <1>10. Cardinality(C) = IF i \in A THEN Cardinality(A) - 1 ELSE Cardinality(A)
    BY <1>3, FS_RemoveElement
  <1>11. i \in A <=> Holds(rs[i])
    BY <1>3
  <1>12. Count(rs) = Cardinality(A) /\ Count(q) = Cardinality(B)
    BY DEF Count
  <1>. HIDE DEF A, B, C, f
  <1>13. PICK x \in Nat : x = Cardinality(A)
    BY <1>3
  <1>14. Own(Holds(rs[i])) = (IF i \in A THEN 1 ELSE 0)
    BY <1>11 DEF Own
  <1>15. Cardinality(B) = x - (IF i \in A THEN 1 ELSE 0)
    BY <1>9, <1>10, <1>13
  <1>. QED  BY <1>1, <1>12, <1>13, <1>14, <1>15

(***************************************************************************)
(* Sequences of bytes.                                                     *)
(***************************************************************************)
LEMMA Slices ==
  ASSUME NEW s \in Bytes, NEW m \in Nat \ {0}, NEW n \in Int, n <= Len(s)
  PROVE  SubSeq(s, m, n) \in Bytes
  <1>1. \A i \in m..n : s[i] \in Byte
    BY DEF Bytes
  <1>2. m \in Int
    OBVIOUS
  <1>. QED  BY <1>1, <1>2, SubSeqProperties DEF Bytes

LEMMA LenBytes ==
  ASSUME NEW s \in Bytes
  PROVE  Len(s) \in Nat
  BY DEF Bytes

LEMMA LeastFacts ==
  ASSUME NEW m \in Int, NEW n \in Int
  PROVE  Least(m, n) \in {m, n} /\ Least(m, n) <= m /\ Least(m, n) <= n
  BY DEF Least

LEMMA ZerosBytes ==
  ASSUME NEW n \in Nat
  PROVE  Zeros(n) \in Bytes /\ Len(Zeros(n)) = n
  <1>0. "0" \in Byte
    BY CofsAssumption
  <1>1. Zeros(n) \in [1..n -> Byte]
    BY <1>0, Zenon DEF Zeros
  <1>2. Zeros(n) \in Bytes
    BY <1>1, SeqDef DEF Bytes
  <1>. QED  BY <1>1, <1>2, LenProperties DEF Bytes

LEMMA EmptyBytes == << >> \in Bytes /\ Len(<< >>) = 0
  BY DEF Bytes

(* Prefixes and suffixes.                                                  *)
LEMMA UptoFrom ==
  ASSUME NEW s \in Bytes, NEW n \in Int
  PROVE  Upto(s, Least(n, Len(s))) \in Bytes /\ (n >= 0 => From(s, n + 1) \in Bytes)
  <1>1. Len(s) \in Nat
    BY LenBytes
  <1>2. PICK k \in Int : k = Least(n, Len(s)) /\ k <= Len(s)
    BY <1>1, LeastFacts
  <1>3. Upto(s, k) \in Bytes
    BY <1>2, Slices DEF Upto
  <1>4. n >= 0 => From(s, n + 1) \in Bytes
    BY <1>1, Slices DEF From
  <1>. QED  BY <1>2, <1>3, <1>4

LEMMA ReadAtBytes ==
  ASSUME disk \in Bytes, NEW off \in Nat, NEW n \in Nat
  PROVE  ReadAt(off, n) \in Bytes
  <1>1. Len(disk) \in Nat
    BY LenBytes
  <1>2. PICK k \in Int : k = Least(off + n, Len(disk)) /\ k <= Len(disk)
    BY <1>1, LeastFacts
  <1>3. SubSeq(disk, off + 1, k) \in Bytes
    BY <1>2, Slices
  <1>. QED  BY <1>2, <1>3 DEF ReadAt

LEMMA LeastCommutes ==
  ASSUME NEW m \in Int, NEW n \in Int
  PROVE  Least(m, n) = Least(n, m)
  BY DEF Least

LEMMA OverlaidBytes ==
  ASSUME NEW str \in Bytes, NEW data \in Bytes
  PROVE  Overlaid(str, data) \in Bytes
  <1>1. Len(str) \in Nat /\ Len(data) \in Nat
    BY LenBytes
  <1>2. Upto(data, Least(Len(data), Len(str))) \in Bytes
    BY <1>1, UptoFrom, LeastCommutes
  <1>3. From(str, Len(data) + 1) \in Bytes
    BY <1>1, UptoFrom
  <1>. QED  BY <1>2, <1>3, CutConcat DEF Overlaid

LEMMA PutBytes ==
  ASSUME NEW d \in Bytes, NEW off \in Nat, NEW s \in Bytes
  PROVE  Put(d, off, s) \in Bytes
  <1>. DEFINE room == IF off >= Full THEN << >> ELSE Upto(s, Least(Len(s), Full - off))
              gap  == IF off > Len(d) THEN Zeros(off - Len(d)) ELSE << >>
              head == Upto(d, Least(off, Len(d))) \o gap
  <1>1. Len(d) \in Nat /\ Len(s) \in Nat /\ Full \in Nat
    BY LenBytes, CofsAssumption
  <1>2. room \in Bytes
    <2>1. Full - off \in Int
      BY <1>1
    <2>2. Upto(s, Least(Len(s), Full - off)) \in Bytes
      BY <1>1, <2>1, UptoFrom, LeastCommutes
    <2>. QED  BY <2>2, EmptyBytes
  <1>3. gap \in Bytes
    <2>1. CASE off > Len(d)
      <3>1. off - Len(d) \in Nat
        BY <1>1, <2>1
      <3>. QED  BY <2>1, <3>1, ZerosBytes
    <2>2. CASE ~(off > Len(d))
      BY <2>2, EmptyBytes
    <2>. QED  BY <2>1, <2>2
  <1>4. Upto(d, Least(off, Len(d))) \in Bytes
    BY UptoFrom
  <1>. HIDE DEF room, gap
  <1>5. head \in Bytes
    BY <1>3, <1>4, CutConcat
  <1>. HIDE DEF head
  <1>6. PICK k \in Nat : k = Len(head) + Len(room)
    BY <1>2, <1>5, LenBytes
  <1>7. From(d, Len(head) + Len(room) + 1) \in Bytes
    <2>0. k \in Int /\ k >= 0
      OBVIOUS
    <2>1. From(d, k + 1) \in Bytes
      BY <2>0, UptoFrom
    <2>. QED  BY <1>6, <2>1
  <1>8. (head \o room) \o From(d, Len(head) + Len(room) + 1) \in Bytes
    BY <1>2, <1>5, <1>7, CutConcat
  <1>. QED  BY <1>8 DEF Put, room, gap, head

LEMMA TruncatedBytes ==
  ASSUME NEW d \in Bytes, NEW n \in Nat
  PROVE  Upto(d \o Zeros(n), n) \in Bytes
  <1>1. PICK s \in Bytes : s = d \o Zeros(n) /\ Len(s) = Len(d) + n
    <2>1. PICK z \in Bytes : z = Zeros(n) /\ Len(z) = n
      BY ZerosBytes
    <2>2. d \o z \in Bytes /\ Len(d \o z) = Len(d) + Len(z)
      BY CutConcat
    <2>. QED  BY <2>1, <2>2
  <1>2. n <= Len(s) /\ n \in Int
    BY <1>1, LenBytes
  <1>3. SubSeq(s, 1, n) \in Bytes
    BY <1>2, Slices
  <1>. QED  BY <1>1, <1>3 DEF Upto

(* string.find finds a match if there is one, whatever the pattern.         *)
LEMMA FoundWithin ==
  ASSUME NEW s \in Bytes, NEW eol, Has(s, eol)
  PROVE  Find(s, eol)[1] \in 1..Len(s) /\ Find(s, eol)[2] \in 1..Len(s)
  <1>. DEFINE M == MatchesOf(s, eol)
              T == {m[1] : m \in M}
  <1>1. M # {} /\ M \subseteq (1..Len(s)) \X (1..Len(s))
    BY DEF Has, MatchesOf
  <1>. HIDE DEF M
  <1>2. \A m \in M : m[1] \in 1..Len(s) /\ m[2] \in 1..Len(s)
    BY <1>1
  <1>3. T \in SUBSET Nat /\ T # {}
    BY <1>1, <1>2, LenBytes
  <1>4. PICK k \in T : \A o \in T : k <= o
    BY <1>3, LeastNumber
  <1>5. \E m \in M : \A o \in M : m[1] <= o[1]
    BY <1>4
  <1>6. Find(s, eol) \in M
    BY <1>5 DEF Find, M
  <1>. QED  BY <1>2, <1>6

(***************************************************************************)
(* A call yields, or returns.                                              *)
(***************************************************************************)
LEMMA NewRequestFacts ==
  ASSUME NEW op \in ReqOps, NEW off \in Nat, NEW n \in Nat, NEW str \in Bytes
  PROVE  LET r == NewRequest(op, off, n, str)
         IN  /\ r \in ReqRec /\ r.op = op /\ r.off = off /\ r.live
             /\ Holds(r) <=> op = "close"
  BY DEF NewRequest, ReqRec, Holds

LEMMA YieldKeeps ==
  ASSUME NEW s \in SelfRec, NEW c \in CallRec, c.op # "none", NEW rs, Settled(rs),
         NEW r \in ReqRec, r.live, r.op = Asks(c.op),
         c.op \in {"read_n", "read_line", "write"} => r.off = s.pos,
         c.op = "open" => ~s.fd, Reading(s, c), Yield(s, c, rs, r)
  PROVE  /\ Sound(self', call', reqs') /\ call' = c /\ self'.fd = s.fd
         /\ Count(reqs') = Count(rs) + Own(Holds(r)) /\ Count(rs) \in Nat
  <1>1. self' = [s EXCEPT !.wait = TRUE] /\ call' = c /\ reqs' = Append(rs, r)
    BY DEF Yield
  <1>2. self' \in SelfRec
    BY <1>1 DEF SelfRec
  <1>3. self'.wait = TRUE /\ self'.fd = s.fd /\ self'.pos = s.pos
    BY <1>1 DEF SelfRec
  <1>4. rs \in Seq(ReqRec) /\ Len(rs) \in Nat /\ \A i \in 1..Len(rs) : ~rs[i].live
    BY DEF Settled
  <1>5. /\ reqs' \in Seq(ReqRec) /\ Count(reqs') = Count(rs) + Own(Holds(r))
        /\ Count(rs) \in Nat
    BY <1>1, <1>4, CountAppend, CountType
  <1>6. PICK q \in Seq(ReqRec) : q = reqs'
    BY <1>5
  <1>7. /\ Len(q) = Len(rs) + 1 /\ q[Len(rs) + 1] = r
        /\ \A i \in 1..Len(rs) : q[i] = rs[i]
    BY <1>1, <1>4, <1>6
  <1>8. \A i \in 1..Len(q) : q[i].live <=> i = Len(q)
    <2>1. \A i \in 1..Len(q) : i \in 1..Len(rs) \/ i = Len(rs) + 1
      BY <1>4, <1>7
    <2>2. \A i \in 1..Len(rs) : i # Len(rs) + 1
      BY <1>4
    <2>. QED  BY <1>4, <1>7, <2>1, <2>2
  <1>9. Asked(self', c, q)
    BY <1>3, <1>4, <1>7, <1>8 DEF Asked
  <1>10. Reading(self', c)
    BY <1>3 DEF Reading
  <1>. QED  BY <1>1, <1>2, <1>3, <1>5, <1>6, <1>9, <1>10 DEF Sound

LEMMA NoCallFacts ==
  NoCall \in CallRec /\ NoCall.op = "none" /\ NoCall.res = << >>
  <1>1. PICK e \in Bytes : e = << >>
    BY EmptyBytes
  <1>2. NoCall = [op |-> "none", n |-> 0, arg |-> e, keep |-> FALSE, res |-> e,
                  from |-> 0, clean |-> TRUE]
    BY <1>1 DEF NoCall
  <1>3. PICK p \in CallOps : p = "none"
    BY DEF CallOps
  <1>. QED  BY <1>1, <1>2, <1>3 DEF CallRec

LEMMA ReturnKeeps ==
  ASSUME NEW s \in SelfRec, ~s.wait, NEW rs, Settled(rs), NEW val, NEW err, NEW part,
         NEW by, Return(s, rs, val, err, part, by)
  PROVE  /\ Sound(self', call', reqs')
         /\ self' = s /\ reqs' = rs /\ call'.op = "none"
         /\ got'.val = val /\ got'.part = part
  <1>1. self' = s /\ reqs' = rs /\ call' = NoCall /\ got'.val = val /\ got'.part = part
    BY DEF Return, Answered
  <1>2. Reading(s, NoCall)
    BY NoCallFacts DEF Reading
  <1>. QED  BY <1>1, <1>2, NoCallFacts DEF Sound

(***************************************************************************)
(* Resuming.                                                               *)
(***************************************************************************)

(* The bytes that come with a value.                                       *)
Data(ok) == IF ok = Nothing THEN << >> ELSE ok

LEMMA DataFacts ==
  ASSUME NEW ok, ok = Nothing \/ ok \in Bytes, NEW a \in Bytes
  PROVE  LET res == IF ok = Nothing THEN a ELSE a \o ok
         IN  res \in Bytes /\ Len(res) = Len(a) + Len(Data(ok)) /\ Len(res) \in Nat
  <1>1. CASE ok = Nothing
    <2>1. Len(a) \in Nat /\ Len(Data(ok)) = 0
      BY <1>1, LenBytes, EmptyBytes DEF Data
    <2>. QED  BY <1>1, <2>1
  <1>2. CASE ok # Nothing
    BY <1>2, CutConcat, LenBytes DEF Data
  <1>. QED  BY <1>1, <1>2

(* What a read is resumed with, in state s.                                *)
ReadsOn(s, ok) ==
  /\ ok = Nothing \/ ok \in Bytes
  /\ s.pos = call.from + Len(call.res) + Len(Data(ok))
  /\ call.op = "read_n" /\ call.n <= BUFFER_SIZE => call.res = << >>

(* A loop reads on.                                                        *)
LEMMA MoreKeeps ==
  ASSUME NEW s \in SelfRec, call \in CallRec, call.op \in {"read_n", "read_line"},
         call.op = "read_n" => call.n > BUFFER_SIZE,
         NEW rs, Settled(rs), NEW res \in Bytes, NEW n \in Nat,
         s.pos = call.from + Len(res),
         _read_some(s, [call EXCEPT !.res = res], rs, n)
  PROVE  /\ Sound(self', call', reqs') /\ self'.fd = s.fd /\ call'.op = call.op
         /\ Count(reqs') = Count(rs) /\ Count(rs) \in Nat
  <1>1. PICK c : c = [call EXCEPT !.res = res]
    OBVIOUS
  <1>2. c \in CallRec
    BY <1>1 DEF CallRec
  <1>3. c.op = call.op /\ c.from = call.from /\ c.res = res /\ c.n = call.n
    BY <1>1 DEF CallRec
  <1>4. s.pos \in Nat /\ BUFFER_SIZE \in Nat /\ call.n \in Int
    BY CofsAssumption DEF SelfRec, CallRec
  <1>5. PICK op \in ReqOps : op = "read"
    BY DEF ReqOps
  <1>6. PICK r \in ReqRec : /\ r = NewRequest("read", s.pos, n, << >>)
                            /\ r.op = "read" /\ r.off = s.pos /\ r.live /\ ~Holds(r)
    BY <1>4, <1>5, NewRequestFacts, EmptyBytes
  <1>7. Yield(s, c, rs, r)
    BY <1>1, <1>6 DEF _read_some
  <1>8. Reading(s, c)
    BY <1>3, <1>4 DEF Reading
  <1>9. /\ Sound(self', call', reqs') /\ call' = c /\ self'.fd = s.fd
        /\ Count(reqs') = Count(rs) + Own(Holds(r)) /\ Count(rs) \in Nat
    BY <1>2, <1>3, <1>6, <1>7, <1>8, YieldKeeps DEF Asks
  <1>10. Own(Holds(r)) = 0
    BY <1>6 DEF Own
  <1>. QED  BY <1>3, <1>9, <1>10

(* The loop of read_n; when it ends, all that was passed is returned.      *)
LEMMA ReadNKeeps ==
  ASSUME NEW s \in SelfRec, ~s.wait, call \in CallRec, call.op = "read_n",
         NEW rs, Settled(rs), NEW ok, NEW err, NEW by, ReadsOn(s, ok),
         ResumeReadN(s, rs, ok, err, by)
  PROVE  /\ Sound(self', call', reqs') /\ self'.fd = s.fd /\ call'.op # "close"
         /\ Count(reqs') = Count(rs)
         /\ call'.op = "none" =>
              self'.pos = call.from + Len(IF got'.val = Nothing THEN got'.part ELSE got'.val)
  <1>1. /\ call.n \in Int /\ call.res \in Bytes /\ call.from \in Nat
        /\ BUFFER_SIZE \in Nat \ {0}
    BY CofsAssumption DEF CallRec
  <1>2. CASE call.n <= BUFFER_SIZE
    <2>1. Return(s, rs, ok, err, << >>, by)
      BY <1>1, <1>2 DEF ResumeReadN
    <2>2. /\ Sound(self', call', reqs') /\ self' = s /\ reqs' = rs /\ call'.op = "none"
          /\ got'.val = ok /\ got'.part = << >>
      BY <2>1, ReturnKeeps
    <2>3. s.pos = call.from + Len(Data(ok))
      <3>1. Len(call.res) = 0 /\ Len(Data(ok)) \in Nat
        BY <1>2, EmptyBytes, LenBytes DEF ReadsOn, Data
      <3>. QED  BY <1>1, <3>1 DEF ReadsOn
    <2>. QED  BY <2>2, <2>3 DEF Data
  <1>3. CASE call.n > BUFFER_SIZE
    <2>1. PICK res : res = IF ok = Nothing THEN call.res ELSE call.res \o ok
      OBVIOUS
    <2>2. res \in Bytes /\ Len(res) = Len(call.res) + Len(Data(ok)) /\ Len(res) \in Nat
      BY <1>1, <2>1, DataFacts DEF ReadsOn
    <2>3. s.pos = call.from + Len(res)
      <3>1. Len(call.res) \in Nat /\ Len(Data(ok)) \in Nat
        BY <1>1, EmptyBytes, LenBytes DEF ReadsOn, Data
      <3>. QED  BY <1>1, <2>2, <3>1 DEF ReadsOn
    <2>4. CASE ok # Nothing /\ call.n - Len(res) > 0
      <3>1. PICK n \in Nat : n = Least(BUFFER_SIZE, call.n - Len(res))
        BY <1>1, <2>2, <2>4 DEF Least
      <3>2. _read_some(s, [call EXCEPT !.res = res], rs, n)
        BY <1>1, <1>3, <2>1, <2>4, <3>1 DEF ResumeReadN
      <3>. QED  BY <1>3, <2>2, <2>3, <3>2, MoreKeeps
    <2>5. CASE ~(ok # Nothing /\ call.n - Len(res) > 0)
      <3>1. PICK val : val = IF err # Nothing \/ res = << >> THEN Nothing ELSE res
        OBVIOUS
      <3>2. PICK part : part = IF err # Nothing THEN res ELSE << >>
        OBVIOUS
      <3>3. Return(s, rs, val, err, part, by)
        BY <1>1, <1>3, <2>1, <2>5, <3>1, <3>2 DEF ResumeReadN
      <3>4. /\ Sound(self', call', reqs') /\ self' = s /\ reqs' = rs /\ call'.op = "none"
            /\ got'.val = val /\ got'.part = part
        BY <3>3, ReturnKeeps
      <3>5. Len(IF val = Nothing THEN part ELSE val) = Len(res)
        <4>1. res # Nothing
          BY <2>2, CofsAssumption DEF Bytes
        <4>. QED  BY <3>1, <3>2, <4>1
      <3>. QED  BY <2>3, <3>4, <3>5
    <2>. QED  BY <2>4, <2>5
  <1>. QED  BY <1>1, <1>2, <1>3

(* The loop of read_line; the bytes after the line are given back.         *)
LEMMA ReadLineKeeps ==
  ASSUME NEW s \in SelfRec, ~s.wait, call \in CallRec, call.op = "read_line",
         NEW rs, Settled(rs), NEW ok, NEW err, NEW by, ReadsOn(s, ok),
         ResumeReadLine(s, rs, ok, err, by)
  PROVE  /\ Sound(self', call', reqs') /\ self'.fd = s.fd /\ call'.op # "close"
         /\ Count(reqs') = Count(rs)
  <1>1. call.res \in Bytes /\ call.from \in Nat /\ BUFFER_SIZE \in Nat
    BY CofsAssumption DEF CallRec
  <1>2. PICK res : res = IF ok = Nothing THEN call.res ELSE call.res \o ok
    OBVIOUS
  <1>3. res \in Bytes /\ Len(res) = Len(call.res) + Len(Data(ok)) /\ Len(res) \in Nat
    BY <1>1, <1>2, DataFacts DEF ReadsOn
  <1>4. s.pos = call.from + Len(res)
    <2>1. Len(call.res) \in Nat /\ Len(Data(ok)) \in Nat
      BY <1>1, EmptyBytes, LenBytes DEF ReadsOn, Data
    <2>. QED  BY <1>1, <1>3, <2>1 DEF ReadsOn
  <1>5. CASE ok # Nothing /\ ~Has(res, s.eol)
    <2>1. _read_some(s, [call EXCEPT !.res = res], rs, BUFFER_SIZE)
      BY <1>2, <1>5 DEF ResumeReadLine
    <2>. QED  BY <1>1, <1>3, <1>4, <2>1, MoreKeeps
  <1>6. CASE ok = Nothing
    <2>1. PICK val : Return(s, rs, val, err, << >>, by)
      BY <1>2, <1>6 DEF ResumeReadLine
    <2>. QED  BY <2>1, ReturnKeeps
  <1>7. CASE ok # Nothing /\ Has(res, s.eol)
    <2>1. PICK m : m = Find(res, s.eol)
      OBVIOUS
    <2>2. m[2] \in 1..Len(res)
      BY <1>3, <1>7, <2>1, FoundWithin
    <2>3. PICK n \in Nat : n = s.pos - (Len(res) - m[2])
      BY <1>1, <1>3, <1>4, <2>2
    <2>4. PICK u : u = [s EXCEPT !.pos = n]
      OBVIOUS
    <2>5. u \in SelfRec
      BY <2>4 DEF SelfRec
    <2>6. u.fd = s.fd /\ u.wait = s.wait
      BY <2>4 DEF SelfRec
    <2>7. PICK val : Return(u, rs, val, Nothing, << >>, by)
      BY <1>2, <1>7, <2>1, <2>3, <2>4 DEF ResumeReadLine
    <2>8. Sound(self', call', reqs') /\ self' = u /\ reqs' = rs /\ call'.op = "none"
      BY <2>5, <2>6, <2>7, ReturnKeeps
    <2>. QED  BY <2>6, <2>8
  <1>. QED  BY <1>5, <1>6, <1>7

(* Who owns the descriptor when the call under way is resumed with ok.     *)
HasFile(s, ok) ==
  CASE call.op = "open"  -> ok # Nothing
    [] call.op = "close" -> FALSE
    [] OTHER             -> s.fd

LEMMA ResumeKeeps ==
  ASSUME NEW s0 \in SelfRec, call \in CallRec, call.op # "none", NEW rs, Settled(rs),
         NEW ok, NEW err, NEW by,
         call.op \in {"read_n", "read_line"} => ReadsOn(s0, ok),
         call.op = "seek_end" => ok = Nothing \/ ok \in Nat,
         fds = Count(rs) + Own(HasFile(s0, ok)),
         Resume(s0, rs, ok, err, by)
  PROVE  /\ Sound(self', call', reqs')
         /\ fds = Count(reqs') + Own(self'.fd /\ call'.op # "close")
         /\ call.op = "read_n" /\ call'.op = "none" =>
              self'.pos = call.from + Len(IF got'.val = Nothing THEN got'.part ELSE got'.val)
  <1>1. PICK s : s = [s0 EXCEPT !.wait = FALSE]
    OBVIOUS
  <1>2. s \in SelfRec
    BY <1>1 DEF SelfRec
  <1>3. ~s.wait /\ s.fd = s0.fd /\ s.pos = s0.pos
    BY <1>1 DEF SelfRec
  <1>4. call.op \in {"read_n", "read_line"} => ReadsOn(s, ok)
    BY <1>3 DEF ReadsOn
  <1>5. CASE call.op = "read_n"
    <2>1. ResumeReadN(s, rs, ok, err, by)
      BY <1>1, <1>5 DEF Resume
    <2>2. /\ Sound(self', call', reqs') /\ self'.fd = s.fd /\ call'.op # "close"
          /\ Count(reqs') = Count(rs)
          /\ call'.op = "none" =>
               self'.pos = call.from + Len(IF got'.val = Nothing THEN got'.part ELSE got'.val)
      BY <1>2, <1>3, <1>4, <1>5, <2>1, ReadNKeeps
    <2>3. HasFile(s0, ok) = s0.fd /\ (self'.fd /\ call'.op # "close") = s0.fd
      BY <1>3, <1>5, <2>2 DEF HasFile, SelfRec
    <2>. QED  BY <2>2, <2>3
  <1>6. CASE call.op = "read_line"
    <2>1. ResumeReadLine(s, rs, ok, err, by)
      BY <1>1, <1>6 DEF Resume
    <2>2. /\ Sound(self', call', reqs') /\ self'.fd = s.fd /\ call'.op # "close"
          /\ Count(reqs') = Count(rs)
      BY <1>2, <1>3, <1>4, <1>6, <2>1, ReadLineKeeps
    <2>3. HasFile(s0, ok) = s0.fd /\ (self'.fd /\ call'.op # "close") = s0.fd
      BY <1>3, <1>6, <2>2 DEF HasFile, SelfRec
    <2>. QED  BY <1>6, <2>2, <2>3
  <1>7. ASSUME call.op # "read_n", NEW u \in SelfRec, ~u.wait, u.fd = HasFile(s0, ok),
               NEW val, NEW er, Return(u, rs, val, er, << >>, by)
        PROVE  /\ Sound(self', call', reqs')
               /\ fds = Count(reqs') + Own(self'.fd /\ call'.op # "close")
    <2>1. Sound(self', call', reqs') /\ self' = u /\ reqs' = rs /\ call'.op = "none"
      BY <1>7, ReturnKeeps
    <2>2. (self'.fd /\ call'.op # "close") = HasFile(s0, ok)
      BY <1>7, <2>1 DEF SelfRec
    <2>. QED  BY <2>1, <2>2
  <1>8. CASE call.op = "seek_end"
    <2>1. HasFile(s0, ok) = s.fd
      BY <1>3, <1>8 DEF HasFile
    <2>2. CASE ok = Nothing
      <3>1. Return(s, rs, Nothing, err, << >>, by)
        BY <1>1, <1>8, <2>2 DEF Resume, ResumeSeekEnd
      <3>. QED  BY <1>2, <1>3, <1>7, <1>8, <2>1, <3>1
    <2>3. CASE ok # Nothing
      <3>1. PICK p \in Nat : p = IF ok + call.n < 0 THEN 0 ELSE ok + call.n
        <4>1. ok \in Nat /\ call.n \in Int
          BY <1>8, <2>3 DEF CallRec
        <4>. QED  BY <4>1
      <3>2. PICK u : u = [s EXCEPT !.pos = p]
        OBVIOUS
      <3>3. u \in SelfRec
        BY <1>2, <3>2 DEF SelfRec
      <3>4. u.fd = s.fd /\ ~u.wait
        BY <1>2, <1>3, <3>2 DEF SelfRec
      <3>5. Return(u, rs, p, Nothing, << >>, by)
        BY <1>1, <1>8, <2>3, <3>1, <3>2 DEF Resume, ResumeSeekEnd
      <3>. QED  BY <1>7, <1>8, <2>1, <3>3, <3>4, <3>5
    <2>. QED  BY <2>2, <2>3
  <1>9. CASE call.op = "open"
    <2>1. PICK f \in BOOLEAN : f = (ok # Nothing)
      OBVIOUS
    <2>2. PICK u : u = [s EXCEPT !.fd = f]
      OBVIOUS
    <2>3. u \in SelfRec
      BY <1>2, <2>2 DEF SelfRec
    <2>4. u.fd = HasFile(s0, ok) /\ ~u.wait
      BY <1>2, <1>3, <1>9, <2>1, <2>2 DEF SelfRec, HasFile
    <2>5. Return(u, rs, ok, err, << >>, by)
      BY <1>1, <1>9, <2>1, <2>2 DEF Resume
    <2>. QED  BY <1>7, <1>9, <2>3, <2>4, <2>5
  <1>10. CASE call.op = "close"
    <2>1. PICK u : u = [s EXCEPT !.fd = FALSE, !.pos = 0]
      OBVIOUS
    <2>2. u \in SelfRec
      BY <1>2, <2>1 DEF SelfRec
    <2>3. u.fd = HasFile(s0, ok) /\ ~u.wait
      BY <1>2, <1>3, <1>10, <2>1 DEF SelfRec, HasFile
    <2>4. Return(u, rs, ok, err, << >>, by)
      BY <1>1, <1>10, <2>1 DEF Resume
    <2>. QED  BY <1>7, <1>10, <2>2, <2>3, <2>4
  <1>11. CASE call.op \notin {"read_n", "read_line", "seek_end", "open", "close"}
    <2>1. Return(s, rs, ok, err, << >>, by)
      BY <1>1, <1>11 DEF Resume
    <2>2. HasFile(s0, ok) = s.fd
      BY <1>3, <1>11 DEF HasFile
    <2>. QED  BY <1>2, <1>3, <1>7, <1>11, <2>1, <2>2
  <1>. QED  BY <1>5, <1>6, <1>8, <1>9, <1>10, <1>11

(***************************************************************************)
(* Requests that change.                                                   *)
(***************************************************************************)

(* q is rs but for what a call does not look at.                           *)
Alike(q, rs) ==
  /\ q \in Seq(ReqRec) /\ Len(q) = Len(rs)
  /\ \A j \in 1..Len(rs) : /\ q[j].live = rs[j].live /\ q[j].op = rs[j].op
                           /\ rs[j].live => q[j].off = rs[j].off

LEMMA AlikeSound ==
  ASSUME NEW s, NEW c, NEW rs, Sound(s, c, rs), NEW q, Alike(q, rs)
  PROVE  Sound(s, c, q)
  <1>1. CASE c.op = "none"
    <2>1. Settled(q)
      BY <1>1 DEF Sound, Settled, Alike
    <2>. QED  BY <1>1, <2>1 DEF Sound
  <1>2. CASE c.op # "none"
    <2>1. Asked(s, c, rs)
      BY <1>2 DEF Sound
    <2>2. Len(rs) \in 1..Len(rs) /\ rs[Len(rs)].live
      BY <2>1 DEF Asked
    <2>3. Asked(s, c, q)
      BY <2>1, <2>2 DEF Asked, Alike
    <2>. QED  BY <1>2, <2>3 DEF Sound
  <1>. QED  BY <1>1, <1>2

LEMMA SpentFacts ==
  ASSUME NEW r \in ReqRec
  PROVE  LET q == Spent(r)
         IN  /\ q \in ReqRec /\ q.live = r.live /\ q.op = r.op
             /\ q.at = r.at /\ q.ok = r.ok /\ (r.live => q = r)
  <1>1. PICK e \in Bytes : e = << >>
    BY EmptyBytes
  <1>2. CASE r.live \/ r.at = "queued"
    BY <1>2 DEF Spent
  <1>3. CASE ~(r.live \/ r.at = "queued")
    <2>1. PICK q : q = [r EXCEPT !.off = 0, !.n = 0, !.str = e, !.size = 0, !.mine = FALSE]
      OBVIOUS
    <2>2. q \in ReqRec
      BY <2>1 DEF ReqRec
    <2>3. q.live = r.live /\ q.op = r.op /\ q.at = r.at /\ q.ok = r.ok
      BY <2>1 DEF ReqRec
    <2>4. Spent(r) = q
      BY <1>1, <1>3, <2>1 DEF Spent
    <2>. QED  BY <1>3, <2>2, <2>3, <2>4
  <1>. QED  BY <1>2, <1>3

LEMMA DoneFacts ==
  ASSUME NEW r \in ReqRec, NEW ok \in BOOLEAN, NEW size \in Nat
  PROVE  LET q == Done(r, ok, size)
         IN  /\ q \in ReqRec /\ q.live = r.live /\ q.op = r.op
             /\ q.at = "done" /\ q.ok = ok /\ (r.live => q.off = r.off)
  <1>1. PICK d : d = [r EXCEPT !.at = "done", !.ok = ok, !.size = size]
    OBVIOUS
  <1>2. d \in ReqRec
    BY <1>1 DEF ReqRec
  <1>3. /\ d.live = r.live /\ d.op = r.op /\ d.at = "done" /\ d.ok = ok
        /\ d.off = r.off
    BY <1>1 DEF ReqRec
  <1>4. Done(r, ok, size) = Spent(d)
    BY <1>1 DEF Done
  <1>. QED  BY <1>2, <1>3, <1>4, SpentFacts

(* A request is done.                                                      *)
LEMMA FinishedKeeps ==
  ASSUME CofsInv, NEW i \in DOMAIN reqs, NEW ok \in BOOLEAN, NEW size \in Nat,
         Finished(i, ok, size)
  PROVE  /\ Alike(reqs', reqs)
         /\ Count(reqs') = Count(reqs) - Own(Holds(reqs[i]))
                            + Own(reqs[i].op = "open" /\ ok)
         /\ Count(reqs) \in Nat
  <1>1. reqs \in Seq(ReqRec)
    BY DEF CofsInv, Sound, Settled, Asked
  <1>2. DOMAIN reqs = 1..Len(reqs) /\ Len(reqs) \in Nat /\ Count(reqs) \in Nat
    BY <1>1, CountType
  <1>3. PICK r \in ReqRec : r = reqs[i]
    BY <1>1, <1>2
  <1>4. PICK d \in ReqRec : /\ d = Done(r, ok, size) /\ d.live = r.live /\ d.op = r.op
                            /\ d.at = "done" /\ d.ok = ok /\ (r.live => d.off = r.off)
    BY DoneFacts
  <1>5. reqs' = [reqs EXCEPT ![i] = d]
    BY <1>1, <1>3, <1>4 DEF Finished
  <1>6. PICK q \in Seq(ReqRec) : q = reqs'
    BY <1>1, <1>2, <1>5
  <1>7. Len(q) = Len(reqs) /\ q[i] = d /\ \A j \in 1..Len(reqs) : j # i => q[j] = reqs[j]
    BY <1>1, <1>2, <1>5, <1>6
  <1>8. Alike(q, reqs)
    BY <1>3, <1>4, <1>7 DEF Alike
  <1>9. Count(q) = Count(reqs) - Own(Holds(reqs[i])) + Own(Holds(q[i]))
    BY <1>1, <1>2, <1>7, CountChange
  <1>10. Holds(q[i]) <=> (reqs[i].op = "open" /\ ok)
    BY <1>3, <1>4, <1>7 DEF Holds
  <1>. QED  BY <1>2, <1>6, <1>8, <1>9, <1>10 DEF Own

(* A read is done: what other reads had in _buf changes too.               *)
LEMMA FilledKeeps ==
  ASSUME CofsInv, NEW i \in DOMAIN reqs, reqs[i].op = "read", NEW data \in Bytes,
         Filled(i, data)
  PROVE  Alike(reqs', reqs) /\ Count(reqs') = Count(reqs)
  <1>1. reqs \in Seq(ReqRec)
    BY DEF CofsInv, Sound, Settled, Asked
  <1>2. DOMAIN reqs = 1..Len(reqs) /\ Len(reqs) \in Nat
    BY <1>1, CountType
  <1>. DEFINE F(j) ==
         IF j = i THEN Done([reqs[i] EXCEPT !.str = data], TRUE, 0)
         ELSE IF reqs[i].mine /\ reqs[j].op = "read" /\ reqs[j].at = "done"
         THEN [reqs[j] EXCEPT !.str = Overlaid(@, data)]
         ELSE reqs[j]
  <1>3. reqs' = [j \in 1..Len(reqs) |-> F(j)]
    BY <1>2 DEF Filled
  <1>4. ASSUME NEW j \in 1..Len(reqs)
        PROVE  /\ F(j) \in ReqRec /\ F(j).live = reqs[j].live /\ F(j).op = reqs[j].op
               /\ reqs[j].live => F(j).off = reqs[j].off
               /\ Holds(F(j)) <=> Holds(reqs[j])
    <2>1. PICK r \in ReqRec : r = reqs[j]
      BY <1>1
    <2>2. CASE j = i
      <3>1. PICK d : d = [r EXCEPT !.str = data]
        OBVIOUS
      <3>2. d \in ReqRec
        BY <3>1 DEF ReqRec
      <3>3. d.live = r.live /\ d.op = r.op /\ d.off = r.off
        BY <3>1 DEF ReqRec
      <3>4. PICK e \in ReqRec : /\ e = Done(d, TRUE, 0) /\ e.live = d.live /\ e.op = d.op
                                /\ d.live => e.off = d.off
        BY <3>2, DoneFacts
      <3>5. F(j) = e
        BY <2>1, <2>2, <3>1, <3>4
      <3>6. ~Holds(e) /\ ~Holds(r)
        BY <2>1, <2>2, <3>3, <3>4 DEF Holds
      <3>. QED  BY <2>1, <3>3, <3>4, <3>5, <3>6
    <2>3. CASE j # i /\ reqs[i].mine /\ reqs[j].op = "read" /\ reqs[j].at = "done"
      <3>1. PICK o \in Bytes : o = Overlaid(r.str, data)
        <4>1. r.str \in Bytes
          BY DEF ReqRec
        <4>. QED  BY <4>1, OverlaidBytes
      <3>2. PICK d : d = [r EXCEPT !.str = o]
        OBVIOUS
      <3>3. d \in ReqRec
        BY <3>2 DEF ReqRec
      <3>4. d.live = r.live /\ d.op = r.op /\ d.off = r.off
        BY <3>2 DEF ReqRec
      <3>5. F(j) = d
        BY <2>1, <2>3, <3>1, <3>2
      <3>6. ~Holds(d) /\ ~Holds(r)
        BY <2>1, <2>3, <3>4 DEF Holds
      <3>. QED  BY <2>1, <3>3, <3>4, <3>5, <3>6
    <2>4. CASE ~(j = i) /\ ~(reqs[i].mine /\ reqs[j].op = "read" /\ reqs[j].at = "done")
      <3>1. F(j) = r
        BY <2>1, <2>4
      <3>. QED  BY <2>1, <3>1
    <2>. QED  BY <2>2, <2>3, <2>4
  <1>. HIDE DEF F
  <1>5. PICK q : q = [j \in 1..Len(reqs) |-> F(j)]
    OBVIOUS
  <1>6. q \in [1..Len(reqs) -> ReqRec] /\ \A j \in 1..Len(reqs) : q[j] = F(j)
    BY <1>4, <1>5
  <1>7. q \in Seq(ReqRec) /\ Len(q) = Len(reqs)
    BY <1>2, <1>6, SeqDef, LenProperties
  <1>8. Alike(q, reqs)
    BY <1>4, <1>6, <1>7 DEF Alike
  <1>9. Count(q) = Count(reqs)
    BY <1>1, <1>4, <1>6, <1>7, CountSame
  <1>. QED  BY <1>3, <1>5, <1>8, <1>9

LEMMA WorkerKeeps ==
  ASSUME CofsInv, NEW i \in DOMAIN reqs, Worker(i)
  PROVE  CofsInv'
  <1>0. /\ disk \in Bytes /\ Sound(self, call, reqs) /\ reqs \in Seq(ReqRec)
        /\ fds = Count(reqs) + Own(self.fd /\ call.op # "close")
    BY DEF CofsInv, Sound, Settled, Asked
  <1>1. self' = self /\ call' = call /\ reqs[i].at = "queued"
    BY DEF Worker
  <1>2. Count(reqs) \in Nat /\ Own(self.fd /\ call.op # "close") \in Nat
    BY <1>0, CountType DEF Own
  <1>3. PICK r \in ReqRec : r = reqs[i]
    BY <1>0
  <1>4. r.off \in Nat /\ r.n \in Nat /\ r.str \in Bytes
    BY DEF ReqRec
  <1>5. ASSUME Alike(reqs', reqs), disk' \in Bytes, fds' - fds = Count(reqs') - Count(reqs),
               fds' \in Int, Count(reqs') \in Int
        PROVE  CofsInv'
    <2>1. Sound(self', call', reqs')
      BY <1>0, <1>1, <1>5, AlikeSound
    <2>2. fds' = Count(reqs') + Own(self'.fd /\ call'.op # "close")
      BY <1>0, <1>1, <1>2, <1>5
    <2>3. Sound(self, call, reqs)' /\ (fds = Count(reqs) + Own(self.fd /\ call.op # "close"))'
      BY <2>1, <2>2
    <2>. QED  BY <1>5, <2>3 DEF CofsInv
  <1>6. ASSUME NEW ok \in BOOLEAN, NEW size \in Nat, Finished(i, ok, size), disk' \in Bytes,
               fds' = fds - Own(r.op = "close") + Own(r.op = "open" /\ ok)
        PROVE  CofsInv'
    <2>1. /\ Alike(reqs', reqs)
          /\ Count(reqs') = Count(reqs) - Own(Holds(reqs[i]))
                             + Own(reqs[i].op = "open" /\ ok)
      BY <1>6, FinishedKeeps
    <2>2. Holds(reqs[i]) <=> r.op = "close"
      BY <1>1, <1>3 DEF Holds
    <2>3. Own(Holds(reqs[i])) = Own(r.op = "close")
      BY <2>2 DEF Own
    <2>4. PICK a \in Nat : a = Own(r.op = "close")
      BY DEF Own
    <2>5. PICK b \in Nat : b = Own(r.op = "open" /\ ok)
      BY DEF Own
    <2>6. Count(reqs') = Count(reqs) - a + b
      BY <1>3, <2>1, <2>3, <2>4, <2>5
    <2>7. fds' = fds - a + b /\ fds \in Int
      BY <1>0, <1>2, <1>6, <2>4, <2>5
    <2>. QED  BY <1>2, <1>5, <1>6, <2>1, <2>6, <2>7
  <1>7. CASE r.op # "close" /\ Finished(i, FALSE, 0) /\ UNCHANGED <<disk, fds>>
    <2>1. fds' = fds - Own(r.op = "close") + Own(r.op = "open" /\ FALSE)
      BY <1>0, <1>2, <1>7 DEF Own
    <2>. QED  BY <1>0, <1>6, <1>7, <2>1
  <1>8. CASE r.op = "open" /\ Finished(i, TRUE, 0) /\ fds' = fds + 1 /\ disk' = disk
    <2>1. fds' = fds - Own(r.op = "close") + Own(r.op = "open" /\ TRUE)
      BY <1>0, <1>2, <1>8 DEF Own
    <2>. QED  BY <1>0, <1>6, <1>8, <2>1
  <1>9. ASSUME r.op = "close", NEW ok \in BOOLEAN, Finished(i, ok, 0), fds' = fds - 1,
               disk' = disk
        PROVE  CofsInv'
    <2>1. fds' = fds - Own(r.op = "close") + Own(r.op = "open" /\ ok)
      BY <1>0, <1>2, <1>9 DEF Own
    <2>. QED  BY <1>0, <1>6, <1>9, <2>1
  <1>10. CASE r.op = "read" /\ Filled(i, ReadAt(r.off, r.n)) /\ UNCHANGED <<disk, fds>>
    <2>1. PICK data \in Bytes : data = ReadAt(r.off, r.n)
      BY <1>0, <1>4, ReadAtBytes
    <2>2. Alike(reqs', reqs) /\ Count(reqs') = Count(reqs)
      BY <1>3, <1>10, <2>1, FilledKeeps
    <2>3. fds \in Int
      BY <1>0, <1>2
    <2>. QED  BY <1>0, <1>2, <1>5, <1>10, <2>2, <2>3
  <1>11. ASSUME r.op \in {"write", "truncate", "stat"}, NEW size \in Nat,
                Finished(i, TRUE, size), disk' \in Bytes, fds' = fds
         PROVE  CofsInv'
    <2>1. fds' = fds - Own(r.op = "close") + Own(r.op = "open" /\ TRUE)
      BY <1>0, <1>2, <1>11 DEF Own
    <2>. QED  BY <1>6, <1>11, <2>1
  <1>12. CASE r.op = "write" /\ disk' = Put(disk, r.off, r.str) /\ Finished(i, TRUE, 0)
              /\ fds' = fds
    BY <1>0, <1>4, <1>11, <1>12, PutBytes
  <1>13. CASE r.op = "truncate" /\ disk' = Upto(disk \o Zeros(r.off), r.off)
              /\ Finished(i, TRUE, 0) /\ fds' = fds
    BY <1>0, <1>4, <1>11, <1>13, TruncatedBytes
  <1>14. CASE r.op = "stat" /\ Finished(i, TRUE, Len(disk)) /\ UNCHANGED <<disk, fds>>
    BY <1>0, <1>11, <1>14, LenBytes
  <1>. QED  BY <1>3, <1>7, <1>8, <1>9, <1>10, <1>12, <1>13, <1>14 DEF Worker

(***************************************************************************)
(* Callbacks, and interrupt.                                               *)
(***************************************************************************)
LEMMA Together ==
  ASSUME disk' \in Bytes, Sound(self', call', reqs'),
         fds' = Count(reqs') + Own(self'.fd /\ call'.op # "close")
  PROVE  CofsInv'
  <1>1. Sound(self, call, reqs)' /\ (fds = Count(reqs) + Own(self.fd /\ call.op # "close"))'
    OBVIOUS
  <1>. QED  BY <1>1 DEF CofsInv

(* The callback of a call that is over.                                    *)
LEMMA LateKeeps ==
  ASSUME CofsInv, NEW i \in DOMAIN reqs, reqs[i].at = "done", ~reqs[i].live, Late(i)
  PROVE  CofsInv'
  <1>0. /\ disk \in Bytes /\ Sound(self, call, reqs) /\ reqs \in Seq(ReqRec)
        /\ fds = Count(reqs) + Own(self.fd /\ call.op # "close")
    BY DEF CofsInv, Sound, Settled, Asked
  <1>1. /\ self' = self /\ call' = call /\ disk' = disk /\ reqs' = RemoveAt(reqs, i)
        /\ fds' = IF reqs[i].op = "open" /\ reqs[i].ok THEN fds - 1 ELSE fds
    BY DEF Late
  <1>2. i \in 1..Len(reqs) /\ Len(reqs) \in Nat /\ Count(reqs) \in Nat
    BY <1>0, CountType
  <1>3. PICK q \in Seq(ReqRec) : q = RemoveAt(reqs, i)
    BY <1>0, <1>2, RemoveAtFacts
  <1>4. /\ Len(q) = Len(reqs) - 1
        /\ \A j \in 1..(Len(reqs) - 1) : q[j] = reqs[Skip(i, j)] /\ Skip(i, j) \in 1..Len(reqs)
    <2>1. /\ Len(RemoveAt(reqs, i)) = Len(reqs) - 1
          /\ \A j \in 1..(Len(reqs) - 1) : /\ RemoveAt(reqs, i)[j] = reqs[Skip(i, j)]
                                           /\ Skip(i, j) \in 1..Len(reqs)
      BY <1>0, <1>2, RemoveAtFacts
    <2>. QED  BY <1>3, <2>1
  <1>5. Count(q) = Count(reqs) - Own(Holds(reqs[i]))
    BY <1>0, <1>2, <1>3, CountRemove
  <1>6. Holds(reqs[i]) <=> (reqs[i].op = "open" /\ reqs[i].ok)
    BY DEF Holds
  <1>7. PICK k \in Nat : k = Own(self.fd /\ call.op # "close")
    BY DEF Own
  <1>8. fds' = Count(q) + k
    BY <1>0, <1>1, <1>2, <1>5, <1>6, <1>7 DEF Own
  <1>9. CASE call.op = "none"
    <2>1. Settled(q)
      BY <1>0, <1>4, <1>9 DEF Sound, Settled
    <2>2. Sound(self, call, q)
      BY <1>0, <1>9, <2>1 DEF Sound
    <2>. QED  BY <1>0, <1>1, <1>3, <1>7, <1>8, <2>2, Together
  <1>10. CASE call.op # "none"
    <2>1. Asked(self, call, reqs)
      BY <1>0, <1>10 DEF Sound
    <2>2. i < Len(reqs)
      BY <1>2, <2>1 DEF Asked
    <2>3. Len(q) # 0 /\ Len(q) \in 1..Len(q) /\ q[Len(q)] = reqs[Len(reqs)]
      <3>1. Len(q) \in 1..(Len(reqs) - 1) /\ Len(q) + 1 = Len(reqs)
        BY <1>2, <1>4, <2>2
      <3>2. Skip(i, Len(q)) = Len(reqs)
        BY <1>2, <1>4, <2>2, <3>1 DEF Skip
      <3>. QED  BY <1>2, <1>4, <3>1, <3>2
    <2>4. ASSUME NEW j \in 1..Len(q)
          PROVE  q[j].live <=> j = Len(q)
      <3>1. Skip(i, j) = Len(reqs) <=> j = Len(q)
        BY <1>2, <1>4, <2>2 DEF Skip
      <3>. QED  BY <1>4, <2>1, <3>1 DEF Asked
    <2>5. Asked(self, call, q)
      BY <2>1, <2>3, <2>4 DEF Asked
    <2>6. Sound(self, call, q)
      BY <1>0, <1>10, <2>5 DEF Sound
    <2>. QED  BY <1>0, <1>1, <1>3, <1>7, <1>8, <2>6, Together
  <1>. QED  BY <1>9, <1>10

(* When read_n returns, no byte that it has moved past is missing.         *)
Skipless ==
  call.op = "read_n" /\ call'.op = "none" =>
    self'.pos = call.from + Len(IF got'.val = Nothing THEN got'.part ELSE got'.val)

(* The callback of the call under way.                                     *)
LEMMA AnswerKeeps ==
  ASSUME CofsInv, NEW i \in DOMAIN reqs, reqs[i].at = "done", reqs[i].live, Answer(i)
  PROVE  CofsInv' /\ Skipless
  <1>0. /\ disk \in Bytes /\ Sound(self, call, reqs) /\ reqs \in Seq(ReqRec)
        /\ fds = Count(reqs) + Own(self.fd /\ call.op # "close")
        /\ self \in SelfRec /\ call \in CallRec
    BY DEF CofsInv, Sound, Settled, Asked
  <1>1. i \in 1..Len(reqs) /\ Len(reqs) \in Nat /\ Count(reqs) \in Nat
    BY <1>0, CountType
  <1>2. call.op # "none" /\ Asked(self, call, reqs) /\ i = Len(reqs)
    BY <1>0, <1>1 DEF Sound, Settled, Asked
  <1>3. PICK r \in ReqRec : r = reqs[i]
    BY <1>0, <1>1
  <1>4. r.op = Asks(call.op) /\ r.at = "done" /\ r.str \in Bytes /\ r.size \in Nat
    BY <1>2, <1>3 DEF Asked, ReqRec
  <1>5. PICK q \in Seq(ReqRec) : q = RemoveAt(reqs, i)
    BY <1>0, <1>1, RemoveAtFacts
  <1>6. Settled(q)
    <2>1. /\ Len(RemoveAt(reqs, i)) = Len(reqs) - 1
          /\ \A j \in 1..(Len(reqs) - 1) : /\ RemoveAt(reqs, i)[j] = reqs[Skip(i, j)]
                                           /\ Skip(i, j) \in 1..Len(reqs)
      BY <1>0, <1>1, RemoveAtFacts
    <2>2. \A j \in 1..(Len(reqs) - 1) : Skip(i, j) # Len(reqs)
      BY <1>1, <1>2 DEF Skip
    <2>. QED  BY <1>2, <1>5, <2>1, <2>2 DEF Settled, Asked
  <1>7. Count(q) = Count(reqs) - Own(Holds(r)) /\ Count(q) \in Nat
    BY <1>0, <1>1, <1>3, <1>5, CountRemove, CountType
  <1>8. disk' = disk /\ fds' = fds
    BY DEF Answer
  <1>9. CASE r.ok
    <2>1. PICK n \in Nat : n = self.pos + Len(r.str)
      <3>1. self.pos \in Nat /\ Len(r.str) \in Nat
        BY <1>0, <1>4, LenBytes DEF SelfRec
      <3>. QED  BY <3>1
    <2>2. PICK s : s = [self EXCEPT !.pos = n]
      OBVIOUS
    <2>3. s \in SelfRec
      BY <1>0, <2>2 DEF SelfRec
    <2>4. s.pos = n /\ s.fd = self.fd
      BY <1>0, <2>2 DEF SelfRec
    <2>5. PICK ok : ok = Value(r)
      OBVIOUS
    <2>6. Resume(s, q, ok, Nothing, "self")
      BY <1>3, <1>5, <1>9, <2>1, <2>2, <2>5 DEF Answer, Moved
    <2>7. call.op \in {"read_n", "read_line"} => ReadsOn(s, ok)
      <3>. SUFFICES ASSUME call.op \in {"read_n", "read_line"}
                    PROVE  ReadsOn(s, ok)
        OBVIOUS
      <3>1. r.op = "read"
        BY <1>4 DEF Asks
      <3>2. ok = IF r.str = << >> THEN Nothing ELSE r.str
        BY <2>5, <3>1 DEF Value
      <3>3. Data(ok) = r.str /\ (ok = Nothing \/ ok \in Bytes)
        BY <1>4, <3>2, CofsAssumption DEF Data, Bytes
      <3>4. /\ self.pos = call.from + Len(call.res)
            /\ call.op = "read_n" /\ call.n <= BUFFER_SIZE => call.res = << >>
        BY <1>0 DEF Sound, Reading
      <3>5. Len(call.res) \in Nat /\ call.from \in Nat /\ Len(r.str) \in Nat
        BY <1>0, <1>4, LenBytes DEF CallRec
      <3>. QED  BY <2>1, <2>4, <3>3, <3>4, <3>5 DEF ReadsOn
    <2>8. call.op = "seek_end" => ok = Nothing \/ ok \in Nat
      BY <1>4, <2>5 DEF Value, Asks
    <2>9. fds = Count(q) + Own(HasFile(s, ok))
      <3>1. CASE call.op = "open"
        <4>1. ok # Nothing
          BY <1>4, <2>5, <3>1, CofsAssumption DEF Value, Asks
        <4>2. HasFile(s, ok) /\ Holds(r)
          BY <1>4, <1>9, <3>1, <4>1 DEF HasFile, Holds, Asks
        <4>3. ~self.fd
          BY <1>0, <3>1 DEF Sound
        <4>. QED  BY <1>0, <1>1, <1>7, <4>2, <4>3 DEF Own
      <3>2. CASE call.op = "close"
        <4>1. ~HasFile(s, ok) /\ ~Holds(r)
          BY <1>4, <3>2 DEF HasFile, Holds, Asks
        <4>. QED  BY <1>0, <1>1, <1>7, <3>2, <4>1 DEF Own
      <3>3. CASE call.op \notin {"open", "close"}
        <4>1. HasFile(s, ok) = self.fd
          BY <2>4, <3>3 DEF HasFile
        <4>2. ~Holds(r)
          BY <1>4, <3>3 DEF Holds, Asks
        <4>. QED  BY <1>0, <1>1, <1>7, <3>3, <4>1, <4>2 DEF Own
      <3>. QED  BY <3>1, <3>2, <3>3
    <2>10. /\ Sound(self', call', reqs')
           /\ fds = Count(reqs') + Own(self'.fd /\ call'.op # "close")
           /\ Skipless
      BY <1>0, <1>2, <1>6, <2>3, <2>6, <2>7, <2>8, <2>9, ResumeKeeps DEF Skipless
    <2>. QED  BY <1>0, <1>8, <2>10, Together
  <1>10. CASE ~r.ok
    <2>1. Resume(self, q, Nothing, "error", "self")
      BY <1>3, <1>5, <1>10 DEF Answer
    <2>2. call.op \in {"read_n", "read_line"} => ReadsOn(self, Nothing)
      <3>1. Data(Nothing) = << >> /\ Len(<< >>) = 0
        BY EmptyBytes DEF Data
      <3>2. Len(call.res) \in Nat /\ call.from \in Nat
        BY <1>0, LenBytes DEF CallRec
      <3>. QED  BY <1>0, <3>1, <3>2 DEF ReadsOn, Sound, Reading
    <2>3. ~Holds(r)
      BY <1>4, <1>10 DEF Holds
    <2>4. HasFile(self, Nothing) <=> (self.fd /\ call.op # "close")
      BY <1>0 DEF HasFile, Sound
    <2>5. fds = Count(q) + Own(HasFile(self, Nothing))
      BY <1>0, <1>1, <1>7, <2>3, <2>4 DEF Own
    <2>6. /\ Sound(self', call', reqs')
          /\ fds = Count(reqs') + Own(self'.fd /\ call'.op # "close")
          /\ Skipless
      BY <1>0, <1>2, <1>6, <2>1, <2>2, <2>5, ResumeKeeps DEF Skipless
    <2>. QED  BY <1>0, <1>8, <2>6, Together
  <1>. QED  BY <1>9, <1>10

(* interrupt abandons the request, which stays in libuv.                   *)
LEMMA InterruptKeeps ==
  ASSUME CofsInv, interrupt
  PROVE  CofsInv' /\ Skipless
  <1>0. /\ disk \in Bytes /\ Sound(self, call, reqs) /\ reqs \in Seq(ReqRec)
        /\ fds = Count(reqs) + Own(self.fd /\ call.op # "close")
        /\ self \in SelfRec /\ call \in CallRec
    BY DEF CofsInv, Sound, Settled, Asked
  <1>1. self.wait /\ disk' = disk /\ fds' = fds /\ call.op # "none"
    BY <1>0 DEF interrupt, Sound
  <1>2. PICK err : Resume(self, Terminated(reqs), Nothing, err, "interrupt")
    BY DEF interrupt
  <1>3. DOMAIN reqs = 1..Len(reqs) /\ Len(reqs) \in Nat
    BY <1>0, CountType
  <1>. DEFINE F(j) == Spent([reqs[j] EXCEPT !.live = FALSE])
  <1>4. ASSUME NEW j \in 1..Len(reqs)
        PROVE  F(j) \in ReqRec /\ ~F(j).live /\ (Holds(F(j)) <=> Holds(reqs[j]))
    <2>1. PICK r \in ReqRec : r = reqs[j]
      BY <1>0
    <2>2. PICK d : d = [r EXCEPT !.live = FALSE]
      OBVIOUS
    <2>3. d \in ReqRec
      BY <2>2 DEF ReqRec
    <2>4. d.live = FALSE /\ d.op = r.op /\ d.at = r.at /\ d.ok = r.ok
      BY <2>2 DEF ReqRec
    <2>5. PICK e \in ReqRec : /\ e = Spent(d) /\ e.live = d.live /\ e.op = d.op
                              /\ e.at = d.at /\ e.ok = d.ok
      BY <2>3, SpentFacts
    <2>6. F(j) = e
      BY <2>1, <2>2, <2>5
    <2>7. Holds(e) <=> Holds(r)
      BY <2>4, <2>5 DEF Holds
    <2>. QED  BY <2>1, <2>4, <2>5, <2>6, <2>7
  <1>. HIDE DEF F
  <1>5. PICK q : q = [j \in 1..Len(reqs) |-> F(j)]
    OBVIOUS
  <1>6. q \in [1..Len(reqs) -> ReqRec] /\ \A j \in 1..Len(reqs) : q[j] = F(j)
    BY <1>4, <1>5
  <1>7. q \in Seq(ReqRec) /\ Len(q) = Len(reqs)
    BY <1>3, <1>6, SeqDef, LenProperties
  <1>8. Settled(q)
    BY <1>4, <1>6, <1>7 DEF Settled
  <1>9. Count(q) = Count(reqs)
    BY <1>0, <1>4, <1>6, <1>7, CountSame
  <1>10. Resume(self, q, Nothing, err, "interrupt")
    BY <1>2, <1>3, <1>5 DEF Terminated, F
  <1>11. call.op \in {"read_n", "read_line"} => ReadsOn(self, Nothing)
    <2>1. Data(Nothing) = << >> /\ Len(<< >>) = 0
      BY EmptyBytes DEF Data
    <2>2. Len(call.res) \in Nat /\ call.from \in Nat
      BY <1>0, LenBytes DEF CallRec
    <2>. QED  BY <1>0, <2>1, <2>2 DEF ReadsOn, Sound, Reading
  <1>12. HasFile(self, Nothing) <=> (self.fd /\ call.op # "close")
    BY <1>0 DEF HasFile, Sound
  <1>13. fds = Count(q) + Own(HasFile(self, Nothing))
    BY <1>0, <1>9, <1>12 DEF Own
  <1>14. /\ Sound(self', call', reqs')
         /\ fds = Count(reqs') + Own(self'.fd /\ call'.op # "close")
         /\ Skipless
    BY <1>0, <1>1, <1>8, <1>10, <1>11, <1>13, ResumeKeeps DEF Skipless
  <1>. QED  BY <1>0, <1>1, <1>14, Together

(***************************************************************************)
(* The calls.                                                              *)
(***************************************************************************)
LEMMA BeginsFacts ==
  ASSUME self \in SelfRec, NEW op \in CallOps
  PROVE  LET c == Begins(op)
         IN  c \in CallRec /\ c.op = op /\ c.from = self.pos /\ c.res = << >>
  <1>1. PICK b \in BOOLEAN : b = (reqs = << >>)
    OBVIOUS
  <1>2. PICK p \in Nat : p = self.pos
    BY DEF SelfRec
  <1>3. PICK c : c = [NoCall EXCEPT !.op = op, !.from = p, !.clean = b]
    OBVIOUS
  <1>4. c \in CallRec
    BY <1>3, NoCallFacts DEF CallRec
  <1>5. c.op = op /\ c.from = p /\ c.res = << >>
    BY <1>3, NoCallFacts DEF CallRec
  <1>6. Begins(op) = c
    BY <1>1, <1>2, <1>3 DEF Begins
  <1>. QED  BY <1>2, <1>4, <1>5, <1>6

(* A call that starts with a request.                                      *)
LEMMA CallKeeps ==
  ASSUME CofsInv, IsOpen, NEW c \in CallRec, c.op \notin {"none", "open"},
         c.from = self.pos, c.res = << >>, Asks(c.op) \in ReqOps,
         NEW off \in Nat, c.op \in {"read_n", "read_line", "write"} => off = self.pos,
         NEW n \in Nat, NEW str \in Bytes,
         Yield(self, c, reqs, NewRequest(Asks(c.op), off, n, str)),
         UNCHANGED <<disk, fds>>
  PROVE  CofsInv'
  <1>1. /\ disk \in Bytes /\ self \in SelfRec /\ self.fd /\ call.op = "none" /\ Settled(reqs)
        /\ fds = Count(reqs) + Own(self.fd /\ call.op # "close")
    BY DEF CofsInv, Sound, IsOpen, Idle
  <1>2. PICK op \in ReqOps : op = Asks(c.op)
    OBVIOUS
  <1>3. PICK r \in ReqRec : /\ r = NewRequest(op, off, n, str) /\ r.op = op /\ r.off = off
                            /\ r.live /\ (Holds(r) <=> op = "close")
    BY NewRequestFacts
  <1>4. Reading(self, c)
    <2>1. self.pos \in Nat /\ Len(<< >>) = 0
      BY <1>1, EmptyBytes DEF SelfRec
    <2>. QED  BY <2>1 DEF Reading
  <1>5. Yield(self, c, reqs, r)
    BY <1>2, <1>3
  <1>6. /\ Sound(self', call', reqs') /\ call' = c /\ self'.fd = self.fd
        /\ Count(reqs') = Count(reqs) + Own(Holds(r)) /\ Count(reqs) \in Nat
    BY <1>1, <1>2, <1>3, <1>4, <1>5, YieldKeeps
  <1>7. Holds(r) <=> c.op = "close"
    BY <1>2, <1>3 DEF Asks
  <1>8. Own(Holds(r)) + Own(self'.fd /\ call'.op # "close") = 1
    BY <1>1, <1>6, <1>7 DEF Own
  <1>9. PICK a \in Nat : a = Own(Holds(r))
    BY DEF Own
  <1>10. PICK b \in Nat : b = Own(self'.fd /\ call'.op # "close")
    BY DEF Own
  <1>11. fds' = Count(reqs) + 1
    BY <1>1 DEF Own
  <1>12. fds' = Count(reqs') + b
    BY <1>6, <1>8, <1>9, <1>10, <1>11
  <1>. QED  BY <1>1, <1>6, <1>10, <1>12, Together

(* The arguments of a call.                                                *)
LEMMA WithArguments ==
  ASSUME self \in SelfRec, NEW op \in CallOps, NEW n \in Int, NEW keep \in BOOLEAN,
         NEW arg \in Bytes,
         NEW c \in {[Begins(op) EXCEPT !.n = n], [Begins(op) EXCEPT !.keep = keep],
                    [Begins(op) EXCEPT !.arg = arg]}
  PROVE  c \in CallRec /\ c.op = op /\ c.from = self.pos /\ c.res = << >>
  <1>1. PICK b \in CallRec : /\ b = Begins(op) /\ b.op = op /\ b.from = self.pos
                             /\ b.res = << >>
    BY BeginsFacts
  <1>2. c \in {[b EXCEPT !.n = n], [b EXCEPT !.keep = keep], [b EXCEPT !.arg = arg]}
    BY <1>1
  <1>3. c \in CallRec
    BY <1>2 DEF CallRec
  <1>4. c.op = b.op /\ c.from = b.from /\ c.res = b.res
    BY <1>2 DEF CallRec
  <1>. QED  BY <1>1, <1>3, <1>4

LEMMA CloseKeeps ==
  ASSUME CofsInv, close
  PROVE  CofsInv'
  <1>1. self \in SelfRec /\ << >> \in Bytes
    BY EmptyBytes DEF CofsInv, Sound
  <1>2. PICK op \in CallOps : op = "close"
    BY DEF CallOps
  <1>3. PICK c \in CallRec : c = Begins(op) /\ c.op = op
                               /\ c.from = self.pos /\ c.res = << >>
    BY <1>1, BeginsFacts
  <1>4. Asks(c.op) = "close" /\ Asks(c.op) \in ReqOps
    BY <1>2, <1>3 DEF Asks, ReqOps
  <1>5. IsOpen /\ UNCHANGED <<disk, fds>>
        /\ Yield(self, c, reqs, NewRequest(Asks(c.op), 0, 0, << >>))
    BY <1>2, <1>3, <1>4 DEF close
  <1>. QED  BY <1>1, <1>2, <1>3, <1>4, <1>5, CallKeeps

LEMMA ReadNStarts ==
  ASSUME CofsInv, read_n
  PROVE  CofsInv'
  <1>1. self \in SelfRec /\ << >> \in Bytes /\ self.pos \in Nat
    BY EmptyBytes DEF CofsInv, Sound, SelfRec
  <1>2. PICK n \in Lengths \cup {Huge} :
          _read_some(self, [Begins("read_n") EXCEPT !.n = n], reqs, Least(BUFFER_SIZE, n))
    BY DEF read_n
  <1>3. n \in Nat /\ n \in Int /\ BUFFER_SIZE \in Nat
    BY CofsAssumption DEF Huge
  <1>4. PICK m \in Nat : m = Least(BUFFER_SIZE, n)
    BY <1>3 DEF Least
  <1>5. PICK op \in CallOps : op = "read_n"
    BY DEF CallOps
  <1>6. PICK c : c = [Begins(op) EXCEPT !.n = n]
    OBVIOUS
  <1>7. c \in CallRec /\ c.op = op /\ c.from = self.pos /\ c.res = << >>
    BY <1>1, <1>3, <1>6, WithArguments
  <1>8. Asks(c.op) = "read" /\ Asks(c.op) \in ReqOps
    BY <1>5, <1>7 DEF Asks, ReqOps
  <1>9. IsOpen /\ UNCHANGED <<disk, fds>>
    BY DEF read_n
  <1>10. Yield(self, c, reqs, NewRequest(Asks(c.op), self.pos, m, << >>))
    BY <1>2, <1>4, <1>5, <1>6, <1>8 DEF _read_some
  <1>. QED  BY <1>1, <1>5, <1>7, <1>8, <1>9, <1>10, CallKeeps

LEMMA ReadLineStarts ==
  ASSUME CofsInv, read_line
  PROVE  CofsInv'
  <1>1. self \in SelfRec /\ << >> \in Bytes /\ self.pos \in Nat /\ BUFFER_SIZE \in Nat
    BY EmptyBytes, CofsAssumption DEF CofsInv, Sound, SelfRec
  <1>2. PICK keep \in BOOLEAN :
          _read_some(self, [Begins("read_line") EXCEPT !.keep = keep], reqs, BUFFER_SIZE)
    BY DEF read_line
  <1>3. PICK op \in CallOps : op = "read_line"
    BY DEF CallOps
  <1>4. PICK c : c = [Begins(op) EXCEPT !.keep = keep]
    OBVIOUS
  <1>5. c \in CallRec /\ c.op = op /\ c.from = self.pos /\ c.res = << >>
    <2>1. 0 \in Int
      OBVIOUS
    <2>. QED  BY <1>1, <1>4, <2>1, WithArguments
  <1>6. Asks(c.op) = "read" /\ Asks(c.op) \in ReqOps
    BY <1>3, <1>5 DEF Asks, ReqOps
  <1>7. IsOpen /\ UNCHANGED <<disk, fds>>
    BY DEF read_line
  <1>8. Yield(self, c, reqs, NewRequest(Asks(c.op), self.pos, BUFFER_SIZE, << >>))
    BY <1>2, <1>3, <1>4, <1>6 DEF _read_some
  <1>. QED  BY <1>1, <1>3, <1>5, <1>6, <1>7, <1>8, CallKeeps

LEMMA WriteKeeps ==
  ASSUME CofsInv, write_string
  PROVE  CofsInv'
  <1>1. self \in SelfRec /\ self.pos \in Nat
    BY DEF CofsInv, Sound, SelfRec
  <1>2. PICK str \in Strings :
          Yield(self, [Begins("write") EXCEPT !.arg = str], reqs,
                NewRequest("write", self.pos, 0, str))
    BY DEF write_string
  <1>3. str \in Bytes
    BY CofsAssumption DEF Bytes
  <1>4. PICK op \in CallOps : op = "write"
    BY DEF CallOps
  <1>5. PICK c : c = [Begins(op) EXCEPT !.arg = str]
    OBVIOUS
  <1>6. c \in CallRec /\ c.op = op /\ c.from = self.pos /\ c.res = << >>
    <2>1. 0 \in Int
      OBVIOUS
    <2>. QED  BY <1>1, <1>3, <1>5, <2>1, WithArguments
  <1>7. Asks(c.op) = "write" /\ Asks(c.op) \in ReqOps
    BY <1>4, <1>6 DEF Asks, ReqOps
  <1>8. IsOpen /\ UNCHANGED <<disk, fds>>
    BY DEF write_string
  <1>9. Yield(self, c, reqs, NewRequest(Asks(c.op), self.pos, 0, str))
    BY <1>2, <1>4, <1>5, <1>7
  <1>. QED  BY <1>1, <1>3, <1>4, <1>6, <1>7, <1>8, <1>9, CallKeeps

LEMMA SeekEndKeeps ==
  ASSUME CofsInv, seek_end
  PROVE  CofsInv'
  <1>1. self \in SelfRec /\ << >> \in Bytes
    BY EmptyBytes DEF CofsInv, Sound
  <1>2. PICK o \in Offsets :
          Yield(self, [Begins("seek_end") EXCEPT !.n = o], reqs,
                NewRequest("stat", 0, 0, << >>))
    BY DEF seek_end
  <1>3. o \in Int
    BY CofsAssumption
  <1>4. PICK op \in CallOps : op = "seek_end"
    BY DEF CallOps
  <1>5. PICK c : c = [Begins(op) EXCEPT !.n = o]
    OBVIOUS
  <1>6. c \in CallRec /\ c.op = op /\ c.from = self.pos /\ c.res = << >>
    BY <1>1, <1>3, <1>5, WithArguments
  <1>7. Asks(c.op) = "stat" /\ Asks(c.op) \in ReqOps
    BY <1>4, <1>6 DEF Asks, ReqOps
  <1>8. IsOpen /\ UNCHANGED <<disk, fds>>
    BY DEF seek_end
  <1>9. Yield(self, c, reqs, NewRequest(Asks(c.op), 0, 0, << >>))
    BY <1>2, <1>4, <1>5, <1>7
  <1>. QED  BY <1>1, <1>4, <1>6, <1>7, <1>8, <1>9, CallKeeps

LEMMA TruncateKeeps ==
  ASSUME CofsInv, call_fs
  PROVE  CofsInv'
  <1>1. self \in SelfRec /\ << >> \in Bytes
    BY EmptyBytes DEF CofsInv, Sound
  <1>2. PICK n \in Cuts :
          Yield(self, [Begins("truncate") EXCEPT !.n = n], reqs,
                NewRequest("truncate", n, 0, << >>))
    BY DEF call_fs
  <1>3. n \in Nat /\ n \in Int
    BY CofsAssumption
  <1>4. PICK op \in CallOps : op = "truncate"
    BY DEF CallOps
  <1>5. PICK c : c = [Begins(op) EXCEPT !.n = n]
    OBVIOUS
  <1>6. c \in CallRec /\ c.op = op /\ c.from = self.pos /\ c.res = << >>
    BY <1>1, <1>3, <1>5, WithArguments
  <1>7. Asks(c.op) = "truncate" /\ Asks(c.op) \in ReqOps
    BY <1>4, <1>6 DEF Asks, ReqOps
  <1>8. IsOpen /\ UNCHANGED <<disk, fds>>
    BY DEF call_fs
  <1>9. Yield(self, c, reqs, NewRequest(Asks(c.op), n, 0, << >>))
    BY <1>2, <1>4, <1>5, <1>7
  <1>. QED  BY <1>1, <1>3, <1>4, <1>6, <1>7, <1>8, <1>9, CallKeeps

LEMMA SeekKeeps ==
  ASSUME CofsInv, seek
  PROVE  CofsInv'
  <1>0. /\ disk \in Bytes /\ Sound(self, call, reqs) /\ self \in SelfRec
        /\ fds = Count(reqs) + Own(self.fd /\ call.op # "close")
    BY DEF CofsInv, Sound
  <1>1. /\ call.op = "none" /\ disk' = disk /\ fds' = fds /\ reqs' = reqs /\ call' = call
    BY DEF seek, IsOpen, Idle
  <1>2. PICK p \in Nat : self' = [self EXCEPT !.pos = p]
    <2>1. self.pos \in Nat /\ Offsets \subseteq Int
      BY <1>0, CofsAssumption DEF SelfRec
    <2>2. PICK o \in Offsets, b \in {0, self.pos} :
            self' = [self EXCEPT !.pos = IF b + o < 0 THEN 0 ELSE b + o]
      BY DEF seek
    <2>3. (IF b + o < 0 THEN 0 ELSE b + o) \in Nat
      BY <2>1
    <2>. QED  BY <2>2, <2>3
  <1>3. self' \in SelfRec
    BY <1>0, <1>2 DEF SelfRec
  <1>4. self'.fd = self.fd /\ self'.wait = self.wait
    BY <1>0, <1>2 DEF SelfRec
  <1>5. Sound(self', call, reqs)
    BY <1>0, <1>1, <1>3, <1>4 DEF Sound, Reading
  <1>. QED  BY <1>0, <1>1, <1>4, <1>5, Together

(* open: requests of earlier Files keep what they own, and wake nobody.    *)
LEMMA OpenKeeps ==
  ASSUME CofsInv, open
  PROVE  CofsInv'
  <1>0. /\ disk \in Bytes /\ self \in SelfRec /\ call.op = "none" /\ ~self.fd
        /\ reqs \in Seq(ReqRec) /\ (\A i \in 1..Len(reqs) : ~reqs[i].live)
        /\ fds = Count(reqs) + Own(self.fd /\ call.op # "close")
        /\ disk' = disk /\ fds' = fds
    BY DEF CofsInv, Sound, Settled, open, Idle
  <1>1. DOMAIN reqs = 1..Len(reqs) /\ Len(reqs) \in Nat /\ Count(reqs) \in Nat
    BY <1>0, CountType
  <1>2. PICK old : old = [i \in 1..Len(reqs) |-> [reqs[i] EXCEPT !.mine = FALSE]]
    OBVIOUS
  <1>3. PICK eol \in FileEols :
          Yield(NewSelf(eol), Begins("open"), old, NewRequest("open", 0, 0, << >>))
    BY <1>1, <1>2 DEF open
  <1>4. ASSUME NEW j \in 1..Len(reqs)
        PROVE  old[j] \in ReqRec /\ ~old[j].live /\ (Holds(old[j]) <=> Holds(reqs[j]))
    <2>1. PICK r \in ReqRec : r = reqs[j]
      BY <1>0
    <2>2. PICK d : d = [r EXCEPT !.mine = FALSE]
      OBVIOUS
    <2>3. d \in ReqRec
      BY <2>2 DEF ReqRec
    <2>4. d.live = r.live /\ d.op = r.op /\ d.at = r.at /\ d.ok = r.ok
      BY <2>2 DEF ReqRec
    <2>5. old[j] = d
      BY <1>2, <2>1, <2>2
    <2>6. Holds(d) <=> Holds(r)
      BY <2>4 DEF Holds
    <2>. QED  BY <1>0, <2>1, <2>3, <2>4, <2>5, <2>6
  <1>5. old \in Seq(ReqRec) /\ Len(old) = Len(reqs)
    <2>1. old \in [1..Len(reqs) -> ReqRec]
      <3>1. DOMAIN old = 1..Len(reqs) /\ old = [i \in 1..Len(reqs) |-> old[i]]
        BY <1>2
      <3>. QED  BY <1>4, <3>1
    <2>. QED  BY <1>1, <2>1, SeqDef, LenProperties
  <1>6. Settled(old) /\ Count(old) = Count(reqs)
    BY <1>0, <1>4, <1>5, CountSame DEF Settled
  <1>7. PICK s : s = NewSelf(eol)
    OBVIOUS
  <1>8. s \in SelfRec /\ ~s.fd
    BY <1>7 DEF NewSelf, SelfRec
  <1>9. PICK op \in CallOps : op = "open"
    BY DEF CallOps
  <1>10. PICK c \in CallRec : c = Begins(op) /\ c.op = op
    BY <1>0, BeginsFacts
  <1>11. PICK r \in ReqRec : /\ r = NewRequest("open", 0, 0, << >>) /\ r.op = "open" /\ r.live
                             /\ ~Holds(r)
    <2>1. "open" \in ReqOps /\ 0 \in Nat /\ << >> \in Bytes /\ "open" # "close"
      BY EmptyBytes DEF ReqOps
    <2>. QED  BY <2>1, NewRequestFacts
  <1>12. r.op = Asks(c.op) /\ Reading(s, c) /\ c.op = "open"
    BY <1>9, <1>10, <1>11 DEF Asks, Reading
  <1>13. Yield(s, c, old, r)
    BY <1>3, <1>7, <1>9, <1>10, <1>11
  <1>14. /\ Sound(self', call', reqs') /\ call' = c /\ self'.fd = s.fd
         /\ Count(reqs') = Count(old) + Own(Holds(r))
    BY <1>6, <1>8, <1>11, <1>12, <1>13, YieldKeeps
  <1>15. Own(Holds(r)) = 0 /\ Own(self'.fd /\ call'.op # "close") = 0
         /\ Own(self.fd /\ call.op # "close") = 0
    BY <1>0, <1>8, <1>11, <1>14 DEF Own
  <1>16. fds' = Count(reqs') + 0
    BY <1>0, <1>1, <1>6, <1>14, <1>15
  <1>. QED  BY <1>0, <1>14, <1>15, <1>16, Together

(***************************************************************************)
(* The specification.                                                      *)
(***************************************************************************)
LEMMA CofsInit ==
  ASSUME FileInit
  PROVE  CofsInv
  <1>1. disk \in Bytes /\ reqs = << >> /\ fds = 0 /\ call = NoCall
        /\ self = NewSelf("none")
    BY CofsAssumption DEF FileInit, Bytes
  <1>2. self \in SelfRec /\ ~self.wait /\ ~self.fd
    BY <1>1 DEF NewSelf, SelfRec
  <1>3. Settled(reqs) /\ DOMAIN reqs = {}
    BY <1>1 DEF Settled
  <1>4. Count(reqs) = 0
    <2>1. {i \in DOMAIN reqs : Holds(reqs[i])} = {}
      BY <1>3
    <2>. QED  BY <2>1, FS_EmptySet DEF Count
  <1>5. Own(self.fd /\ call.op # "close") = 0
    BY <1>2 DEF Own
  <1>6. call \in CallRec /\ call.op = "none"
    BY <1>1, NoCallFacts
  <1>7. Sound(self, call, reqs)
    BY <1>2, <1>3, <1>6 DEF Sound, Reading
  <1>. QED  BY <1>1, <1>4, <1>5, <1>7 DEF CofsInv

LEMMA CofsStep ==
  ASSUME CofsInv, [FileNext]_fileVars
  PROVE  CofsInv' /\ Skipless
  <1>1. CASE FileCalls
    <2>1. call.op = "none"
      BY <1>1 DEF FileCalls, open, close, read_n, read_line, write_string, seek, seek_end,
                  call_fs, IsOpen, Idle
    <2>2. Skipless
      BY <2>1 DEF Skipless
    <2>3. CofsInv'
      BY <1>1, OpenKeeps, CloseKeeps, ReadNStarts, ReadLineStarts, WriteKeeps, SeekKeeps,
         SeekEndKeeps, TruncateKeeps DEF FileCalls
    <2>. QED  BY <2>2, <2>3
  <1>2. CASE interrupt
    BY <1>2, InterruptKeeps
  <1>3. ASSUME NEW i \in DOMAIN reqs, Worker(i)
        PROVE  CofsInv' /\ Skipless
    <2>1. call' = call
      BY <1>3 DEF Worker
    <2>. QED  BY <1>3, <2>1, WorkerKeeps DEF Skipless
  <1>4. ASSUME NEW i \in DOMAIN reqs, callback(i)
        PROVE  CofsInv' /\ Skipless
    <2>1. CASE reqs[i].live /\ Answer(i)
      BY <1>4, <2>1, AnswerKeeps DEF callback
    <2>2. CASE ~reqs[i].live /\ Late(i)
      <3>1. call' = call
        BY <2>2 DEF Late
      <3>. QED  BY <1>4, <2>2, <3>1, LateKeeps DEF callback, Skipless
    <2>. QED  BY <1>4, <2>1, <2>2 DEF callback
  <1>5. CASE UNCHANGED fileVars
    <2>1. /\ disk' = disk /\ fds' = fds /\ reqs' = reqs /\ self' = self /\ call' = call
      BY <1>5 DEF fileVars
    <2>2. CofsInv'
      BY <2>1, Together DEF CofsInv
    <2>. QED  BY <2>1, <2>2 DEF Skipless
  <1>. QED  BY <1>1, <1>2, <1>3, <1>4, <1>5 DEF FileNext

(* In every state a call waits for exactly the request it started last,    *)
(* its position is where what it has read ends, and each descriptor of the *)
(* kernel has an owner.                                                    *)
THEOREM CofsInvariant == FileSpec => []CofsInv
  <1>1. FileInit => CofsInv
    BY CofsInit
  <1>2. CofsInv /\ [FileNext]_fileVars => CofsInv'
    BY CofsStep
  <1>. QED  BY <1>1, <1>2, PTL DEF FileSpec

(* A callback answers the call that asked for it: of all the requests that *)
(* interrupted calls left in libuv, none wakes the coroutine.              *)
THEOREM AnswerIsForTheCall == FileSpec => []OneAnswer
  <1>1. CofsInv => OneAnswer
    <2>. SUFFICES ASSUME CofsInv
                  PROVE  OneAnswer
      OBVIOUS
    <2>0. Sound(self, call, reqs) /\ (self.wait <=> call.op # "none")
      BY DEF CofsInv, Sound
    <2>1. reqs \in Seq(ReqRec) /\ self \in SelfRec
      BY <2>0 DEF Sound, Settled, Asked
    <2>2. DOMAIN reqs = 1..Len(reqs) /\ Len(reqs) \in Nat
      BY <2>1, CountType
    <2>3. CASE call.op = "none"
      <3>1. Awaited = {}
        BY <2>0, <2>2, <2>3 DEF Awaited, Sound, Settled
      <3>2. Cardinality(Awaited) = 0
        BY <3>1, FS_EmptySet
      <3>. QED  BY <2>0, <2>3, <3>1, <3>2 DEF OneAnswer
    <2>4. CASE call.op # "none"
      <3>0. Asked(self, call, reqs)
        BY <2>0, <2>4 DEF Sound
      <3>1. Awaited = {Len(reqs)}
        BY <2>2, <3>0 DEF Awaited, Asked
      <3>2. Cardinality(Awaited) = 1
        BY <3>1, FS_Singleton
      <3>3. call.op \in CallOps
        BY <2>0 DEF Sound, CallRec
      <3>4. reqs[Len(reqs)].op \in {"read", "write"}
              => call.op \in {"read_n", "read_line", "write"}
        BY <2>4, <3>0, <3>3 DEF Asked, Asks, CallOps
      <3>5. \A i \in Awaited :
              /\ i = Len(reqs)
              /\ reqs[i].op \in {"read", "write"} => reqs[i].off = self.pos
        BY <3>0, <3>1, <3>4 DEF Asked
      <3>. QED  BY <2>0, <2>4, <3>2, <3>5 DEF OneAnswer
    <2>. QED  BY <2>3, <2>4
  <1>. QED  BY <1>1, CofsInvariant, PTL

(* Interrupting open or close loses no descriptor.                         *)
THEOREM DescriptorsAreKept == FileSpec => []NoDescriptorLost
  <1>1. CofsInv => NoDescriptorLost
    BY DEF CofsInv, NoDescriptorLost, Count, Own
  <1>. QED  BY <1>1, CofsInvariant, PTL

(* A read_n hands over every byte that it has moved past, however it ends. *)
THEOREM ReadsSkipNothing == FileSpec => NothingIsSkipped
  <1>1. CofsInv /\ [FileNext]_fileVars
          => [Returns /\ call.op = "read_n" =>
                self'.pos = call.from + Len(IF got'.val = Nothing THEN got'.part
                                                              ELSE got'.val)]_fileVars
    BY CofsStep DEF Skipless, Returns
  <1>. QED  BY <1>1, CofsInvariant, PTL DEF FileSpec, NothingIsSkipped

(***************************************************************************)
(* Transfers.  In a call that found no request in libuv the only request   *)
(* is its own, and nobody else changes the bytes of the file.  What has    *)
(* been read is where the call began, the request asks for what follows    *)
(* it, and a line that is read on does not end yet.                        *)
(***************************************************************************)
AheadOf(d, c) == From(d, c.from + 1)

Transfers == {"read_n", "read_line", "write"}

Asks_n(c) == IF c.op = "read_line" THEN BUFFER_SIZE
             ELSE Least(BUFFER_SIZE, c.n - Len(c.res))

ExactRead(s, c, r, d) ==
  /\ Len(c.res) <= Len(AheadOf(d, c)) /\ c.res = Upto(AheadOf(d, c), Len(c.res))
  /\ r.n = Asks_n(c)
  /\ r.at = "done" /\ r.ok =>
       r.str = SubSeq(d, r.off + 1, Least(r.off + r.n, Len(d)))
  /\ c.op = "read_line" => s.eol \in FileEols /\ ~Has(c.res, s.eol)
  /\ c.op = "read_n" => c.n \in Nat /\ (c.n > BUFFER_SIZE => Len(c.res) < c.n)

ExactWrite(s, c, r, d) ==
  /\ r.str = c.arg /\ r.off = c.from
  /\ s.pos = c.from
  /\ r.at = "done" /\ r.ok => d = Put(d, r.off, r.str)

Exact(s, c, rs, d) ==
  c.op \in Transfers /\ c.clean =>
    /\ Len(rs) = 1
    /\ c.op # "write" => ExactRead(s, c, rs[1], d)
    /\ c.op = "write" => ExactWrite(s, c, rs[1], d)

HasEol(s, c) == s.fd \/ c.op = "open" => s.eol \in FileEols

ExactInv == HasEol(self, call) /\ Exact(self, call, reqs, disk)

(* What is ahead of a place, and what a read of n bytes finds after the l  *)
(* that have been read.                                                    *)
LEMMA AheadBytes ==
  ASSUME NEW d \in Bytes, NEW c \in CallRec
  PROVE  AheadOf(d, c) \in Bytes /\ Len(AheadOf(d, c)) \in Nat
  <1>1. PICK n \in Nat : n = c.from
    BY DEF CallRec
  <1>2. n \in Int /\ n >= 0
    OBVIOUS
  <1>3. From(d, n + 1) \in Bytes
    BY <1>2, UptoFrom
  <1>. QED  BY <1>1, <1>3, LenBytes DEF AheadOf

IsReadAt(d, from, w, l, n, off, str) ==
  /\ d \in Bytes /\ from \in Nat /\ w \in Bytes /\ w = From(d, from + 1)
  /\ l \in 0..Len(w) /\ n \in Nat /\ off \in Nat /\ off = from + l
  /\ str = SubSeq(d, off + 1, Least(off + n, Len(d)))

(* It ends behind the first k bytes of w.                                  *)
EndsAt(w, l, n, str, k) ==
  /\ k \in l..Len(w) /\ k = Least(l + n, Len(w)) /\ str \in Bytes
  /\ Len(str) = k - l /\ Upto(w, l) \o str = Upto(w, k)

LEMMA Follows ==
  ASSUME NEW d, NEW from, NEW w, NEW l, NEW n, NEW off, NEW str,
         IsReadAt(d, from, w, l, n, off, str)
  PROVE  \E k : EndsAt(w, l, n, str, k)
  <1>. /\ d \in Bytes /\ from \in Nat /\ w \in Bytes /\ w = From(d, from + 1)
       /\ l \in 0..Len(w) /\ n \in Nat /\ off \in Nat /\ off = from + l
       /\ str = SubSeq(d, off + 1, Least(off + n, Len(d)))
    BY DEF IsReadAt
  <1>1. Len(d) \in Nat /\ Len(w) \in Nat
    BY LenBytes
  <1>2. CASE from <= Len(d)
    <2>1. PICK i \in 0..Len(d) : i = from
      BY <1>1, <1>2
    <2>2. /\ Len(w) = Len(d) - from
          /\ \A j \in 1..(Len(d) - from) : w[j] = d[from + j]
      BY <2>1, CutSeq DEF Bytes
    <2>3. PICK k \in l..Len(w) : k = Least(l + n, Len(w)) /\ k - l \in Nat
      BY <1>1 DEF Least
    <2>4. Least(off + n, Len(d)) = from + k
      BY <1>1, <2>2, <2>3 DEF Least
    <2>5. PICK data : data = SubSeq(d, off + 1, from + k)
      OBVIOUS
    <2>6. PICK more : more = SubSeq(w, l + 1, k)
      OBVIOUS
    <2>7. /\ data \in Bytes /\ Len(data) = k - l
          /\ \A j \in 1..(k - l) : data[j] = d[off + j]
      <3>1. off + 1 \in Int /\ from + k \in Int
        OBVIOUS
      <3>2. \A j \in (off + 1)..(from + k) : d[j] \in Byte
        BY <1>1, <2>2, <2>3, SMTT(30) DEF Bytes
      <3>3. /\ data \in Seq(Byte)
            /\ Len(data) = IF off + 1 <= from + k THEN (from + k) - (off + 1) + 1 ELSE 0
            /\ \A j \in 1..((from + k) - (off + 1) + 1) : data[j] = d[(off + 1) + j - 1]
        BY <2>5, <3>1, <3>2, SubSeqProperties
      <3>4. Len(data) = k - l
        BY <2>3, <3>3, SMTT(30)
      <3>5. ASSUME NEW j \in 1..(k - l)
            PROVE  data[j] = d[off + j]
        <4>1. j \in 1..((from + k) - (off + 1) + 1) /\ (off + 1) + j - 1 = off + j
          BY <2>3, SMTT(30)
        <4>. QED  BY <3>3, <4>1
      <3>. QED  BY <3>3, <3>4, <3>5 DEF Bytes
    <2>8. /\ more \in Bytes /\ Len(more) = k - l
          /\ \A j \in 1..(k - l) : more[j] = w[l + j]
      <3>1. l + 1 \in Int /\ k \in Int
        OBVIOUS
      <3>2. \A j \in (l + 1)..k : w[j] \in Byte
        BY <1>1, <2>3 DEF Bytes
      <3>3. /\ more \in Seq(Byte)
            /\ Len(more) = IF l + 1 <= k THEN k - (l + 1) + 1 ELSE 0
            /\ \A j \in 1..(k - (l + 1) + 1) : more[j] = w[(l + 1) + j - 1]
        BY <2>6, <3>1, <3>2, SubSeqProperties
      <3>4. Len(more) = k - l
        BY <2>3, <3>3, SMTT(30)
      <3>5. ASSUME NEW j \in 1..(k - l)
            PROVE  more[j] = w[l + j]
        <4>1. j \in 1..(k - (l + 1) + 1) /\ (l + 1) + j - 1 = l + j
          BY <2>3
        <4>. QED  BY <3>3, <4>1
      <3>. QED  BY <3>3, <3>4, <3>5 DEF Bytes
    <2>9. data = more
      <3>1. ASSUME NEW j \in 1..(k - l)
            PROVE  data[j] = more[j]
        <4>1. l + j \in 1..(Len(d) - from) /\ from + (l + j) = off + j
          BY <1>1, <2>2, <2>3, SMTT(30)
        <4>. QED  BY <2>2, <2>7, <2>8, <4>1
      <3>. QED  BY <2>7, <2>8, <3>1, SeqEqual DEF Bytes
    <2>10. Upto(w, l) \o more = Upto(w, k)
      <3>1. 1 \in 1..(Len(w) + 1) /\ l \in (1 - 1)..Len(w) /\ k \in l..Len(w)
        BY <1>1
      <3>2. SubSeq(w, 1, l) \o SubSeq(w, l + 1, k) = SubSeq(w, 1, k)
        BY <3>1, ConcatAdjacentSubSeq DEF Bytes
      <3>. QED  BY <2>6, <3>2 DEF Upto
    <2>. QED  BY <2>3, <2>4, <2>5, <2>7, <2>9, <2>10 DEF EndsAt
  <1>3. CASE ~(from <= Len(d))
    <2>1. w = << >>
      BY <1>1, <1>3, SubSeqEmpty DEF From, Bytes
    <2>2. l = 0 /\ Len(w) = 0 /\ Least(l + n, Len(w)) = 0
      BY <1>1, <2>1, EmptyBytes DEF Least
    <2>3. PICK e \in Int : e = Least(off + n, Len(d)) /\ e < off + 1
      BY <1>1, <1>3 DEF Least
    <2>4. SubSeq(d, off + 1, e) = << >>
      BY <2>3, SubSeqEmpty DEF Bytes
    <2>5. Upto(w, 0) = << >> /\ << >> \o << >> = << >>
      BY SubSeqEmpty, ConcatEmptySeq, EmptyBytes DEF Upto, Bytes
    <2>6. 0 \in l..Len(w) /\ 0 - l = 0
      BY <2>2
    <2>. QED  BY <2>2, <2>3, <2>4, <2>5, <2>6, EmptyBytes DEF EndsAt
  <1>. QED  BY <1>2, <1>3

(* What has been written once is not changed by writing it again.          *)
LEMMA PutTwice ==
  ASSUME NEW d \in Bytes, NEW off \in Nat, NEW s \in Bytes
  PROVE  Put(Put(d, off, s), off, s) = Put(d, off, s)
  <1>. DEFINE room == IF off >= Full THEN << >> ELSE Upto(s, Least(Len(s), Full - off))
              gap  == IF off > Len(d) THEN Zeros(off - Len(d)) ELSE << >>
              head == Upto(d, Least(off, Len(d))) \o gap
              tail == From(d, Len(head) + Len(room) + 1)
              e    == (head \o room) \o tail
  <1>1. Len(d) \in Nat /\ Len(s) \in Nat /\ Full \in Nat
    BY LenBytes, CofsAssumption
  <1>2. room \in Bytes
    <2>1. Full - off \in Int
      BY <1>1
    <2>2. Upto(s, Least(Len(s), Full - off)) \in Bytes
      BY <1>1, <2>1, UptoFrom, LeastCommutes
    <2>. QED  BY <2>2, EmptyBytes
  <1>3. gap \in Bytes /\ Len(gap) = IF off > Len(d) THEN off - Len(d) ELSE 0
    <2>1. CASE off > Len(d)
      <3>1. off - Len(d) \in Nat
        BY <1>1, <2>1
      <3>. QED  BY <2>1, <3>1, ZerosBytes
    <2>2. CASE ~(off > Len(d))
      BY <2>2, EmptyBytes
    <2>. QED  BY <2>1, <2>2
  <1>4. PICK a \in Bytes : a = Upto(d, Least(off, Len(d))) /\ Len(a) = Least(off, Len(d))
    <2>1. PICK i \in 0..Len(d) : i = Least(off, Len(d))
      BY <1>1 DEF Least
    <2>. QED  BY <2>1, CutSeq DEF Bytes
  <1>5. head \in Bytes /\ Len(head) = off
    <2>1. PICK g \in Bytes : g = gap /\ Len(g) = IF off > Len(d) THEN off - Len(d) ELSE 0
      BY <1>3
    <2>2. a \o g \in Bytes /\ Len(a \o g) = Len(a) + Len(g)
      BY CutConcat
    <2>. HIDE DEF gap
    <2>. QED  BY <1>1, <1>4, <2>1, <2>2 DEF Least
  <1>. HIDE DEF gap, head, room
  <1>6. PICK k \in Nat : k = Len(head) + Len(room) /\ k = off + Len(room) /\ Len(room) \in Nat
    BY <1>2, <1>5, LenBytes
  <1>7. tail \in Bytes
    <2>1. k \in Int /\ k >= 0
      OBVIOUS
    <2>2. From(d, k + 1) \in Bytes
      BY <2>1, UptoFrom
    <2>. QED  BY <1>6, <2>2
  <1>. HIDE DEF tail
  <1>8. Put(d, off, s) = IF room = << >> THEN d ELSE e
    BY DEF Put, room, gap, head, tail
  <1>9. CASE room = << >>
    BY <1>8, <1>9 DEF Put, room
  <1>10. CASE room # << >>
    <2>1. head \o room \in Bytes /\ Len(head \o room) = k
      BY <1>2, <1>5, <1>6, CutConcat
    <2>2. /\ e \in Bytes /\ Len(e) = k + Len(tail) /\ Len(tail) \in Nat
          /\ From(e, k + 1) = tail
      <3>1. PICK h \in Bytes : h = head \o room /\ Len(h) = k
        BY <2>1
      <3>2. /\ h \o tail \in Bytes /\ Len(h \o tail) = Len(h) + Len(tail)
            /\ Len(tail) \in Nat /\ From(h \o tail, Len(h) + 1) = tail
        BY <1>7, CutConcat
      <3>. QED  BY <3>1, <3>2
    <2>3. Upto(e, off) = head
      <3>1. /\ e = head \o (room \o tail) /\ room \o tail \in Bytes
        <4>1. (head \o room) \o tail = head \o (room \o tail)
          <5>1. PICK x \in Bytes : x = head
            BY <1>5
          <5>2. PICK y \in Bytes : y = room
            BY <1>2
          <5>3. PICK z \in Bytes : z = tail
            BY <1>7
          <5>4. (x \o y) \o z = x \o (y \o z)
            BY ONLY BytesAssociate, SMTT(30)
          <5>. QED  BY <5>1, <5>2, <5>3, <5>4
        <4>2. room \o tail \in Bytes
          BY <1>2, <1>7, CutConcat
        <4>. QED  BY <4>1, <4>2
      <3>2. Upto(head \o (room \o tail), Len(head)) = head
        BY <1>5, <3>1, CutConcat
      <3>. QED  BY <1>5, <3>1, <3>2
    <2>4. off <= Len(e)
      BY <1>6, <2>2
    <2>. DEFINE gap2  == IF off > Len(e) THEN Zeros(off - Len(e)) ELSE << >>
                head2 == Upto(e, Least(off, Len(e))) \o gap2
    <2>5. head2 = head
      <3>1. Least(off, Len(e)) = off /\ gap2 = << >>
        BY <2>2, <2>4 DEF Least
      <3>2. head \o << >> = head
        BY <1>5, ConcatEmptySeq DEF Bytes
      <3>. HIDE DEF e
      <3>. QED  BY <2>3, <3>1, <3>2
    <2>6. Put(e, off, s) = (head2 \o room) \o From(e, Len(head2) + Len(room) + 1)
      BY <1>10 DEF Put, room
    <2>7. Put(e, off, s) = e
      <3>1. From(e, Len(head) + Len(room) + 1) = tail
        BY <1>6, <2>2
      <3>. HIDE DEF head2
      <3>. QED  BY <2>5, <2>6, <3>1
    <2>. QED  BY <1>8, <1>10, <2>7
  <1>. QED  BY <1>9, <1>10

(***************************************************************************)
(* Resuming, seen from the transfer.                                       *)
(***************************************************************************)

(* Whatever the call, only a loop that has got a value does not return.    *)
Resumes(s0, ok, err, by) ==
  /\ self'.eol = s0.eol /\ (self'.fd => s0.fd \/ call.op = "open")
  /\ call.op \notin {"read_n", "read_line"} \/ ok = Nothing => call' = NoCall
  /\ ok = Nothing => got'.err = err /\ got'.by = by
  /\ call'.op # "none" => call'.op = call.op /\ call'.clean = call.clean

LEMMA ReturnFields ==
  ASSUME NEW s \in SelfRec, NEW rs, NEW val, NEW err, NEW part, NEW by,
         Return(s, rs, val, err, part, by)
  PROVE  /\ self' = s /\ reqs' = rs /\ call' = NoCall /\ call'.op = "none"
         /\ got'.val = val /\ got'.err = err /\ got'.by = by
  BY NoCallFacts DEF Return, Answered

LEMMA YieldFields ==
  ASSUME NEW s \in SelfRec, NEW c, NEW rs, NEW r, Yield(s, c, rs, r)
  PROVE  /\ self'.eol = s.eol /\ self'.fd = s.fd /\ self'.pos = s.pos
         /\ call' = c /\ reqs' = Append(rs, r)
  BY DEF Yield, SelfRec

LEMMA ResumeShape ==
  ASSUME NEW s0 \in SelfRec, call \in CallRec, call.op # "none",
         NEW rs, NEW ok, NEW err, NEW by, Resume(s0, rs, ok, err, by)
  PROVE  Resumes(s0, ok, err, by)
  <1>1. PICK s : s = [s0 EXCEPT !.wait = FALSE]
    OBVIOUS
  <1>2. s \in SelfRec /\ s.eol = s0.eol /\ s.fd = s0.fd
    BY <1>1 DEF SelfRec
  <1>3. ASSUME NEW u \in SelfRec, u.eol = s0.eol, u.fd => s0.fd \/ call.op = "open",
               NEW val, NEW er, NEW part, Return(u, rs, val, er, part, by),
               er = err \/ ok # Nothing
        PROVE  Resumes(s0, ok, err, by)
    <2>1. /\ self' = u /\ call' = NoCall /\ call'.op = "none"
          /\ got'.err = er /\ got'.by = by
      BY <1>3, ReturnFields
    <2>. QED  BY <1>3, <2>1 DEF Resumes
  <1>4. ASSUME call.op \in {"read_n", "read_line"}, ok # Nothing,
               NEW res, NEW n, _read_some(s, [call EXCEPT !.res = res], rs, n)
        PROVE  Resumes(s0, ok, err, by)
    <2>1. PICK r : Yield(s, [call EXCEPT !.res = res], rs, r)
      BY <1>4 DEF _read_some
    <2>2. /\ self'.eol = s.eol /\ self'.fd = s.fd /\ call' = [call EXCEPT !.res = res]
      BY <1>2, <2>1, YieldFields
    <2>3. call'.op = call.op /\ call'.clean = call.clean
      BY <2>2 DEF CallRec
    <2>. QED  BY <1>2, <1>4, <2>2, <2>3 DEF Resumes
  <1>5. CASE call.op = "read_n"
    <2>0. ResumeReadN(s, rs, ok, err, by)
      BY <1>1, <1>5 DEF Resume
    <2>1. \/ \E val, part : Return(s, rs, val, err, part, by)
          \/ ok # Nothing /\ \E res, n : _read_some(s, [call EXCEPT !.res = res], rs, n)
      BY <2>0 DEF ResumeReadN
    <2>. QED  BY <1>2, <1>3, <1>4, <1>5, <2>1
  <1>6. CASE call.op = "read_line"
    <2>0. ResumeReadLine(s, rs, ok, err, by)
      BY <1>1, <1>6 DEF Resume
    <2>1. PICK res : res = IF ok = Nothing THEN call.res ELSE call.res \o ok
      OBVIOUS
    <2>2. CASE ok # Nothing /\ ~Has(res, s.eol)
      <3>1. _read_some(s, [call EXCEPT !.res = res], rs, BUFFER_SIZE)
        BY <2>0, <2>1, <2>2 DEF ResumeReadLine
      <3>. QED  BY <1>4, <1>6, <2>2, <3>1
    <2>3. CASE ok = Nothing
      <3>1. \E val : Return(s, rs, val, err, << >>, by)
        BY <2>0, <2>1, <2>3 DEF ResumeReadLine
      <3>. QED  BY <1>2, <1>3, <3>1
    <2>4. CASE ok # Nothing /\ Has(res, s.eol)
      <3>1. PICK n : n = Len(res) - Find(res, s.eol)[2]
        OBVIOUS
      <3>2. PICK p : p = s.pos - n
        OBVIOUS
      <3>3. PICK u : u = [s EXCEPT !.pos = p]
        OBVIOUS
      <3>4. PICK val : Return(u, rs, val, Nothing, << >>, by)
        BY <2>0, <2>1, <2>4, <3>1, <3>2, <3>3 DEF ResumeReadLine
      <3>5. self' = u /\ call' = NoCall
        BY <3>4 DEF Return
      <3>6. u.eol = s.eol /\ u.fd = s.fd
        BY <1>2, <3>3 DEF SelfRec
      <3>. QED  BY <1>2, <1>6, <2>4, <3>5, <3>6, NoCallFacts DEF Resumes
    <2>. QED  BY <2>2, <2>3, <2>4
  <1>7. CASE call.op = "seek_end"
    <2>0. ResumeSeekEnd(s, rs, ok, err, by)
      BY <1>1, <1>7 DEF Resume
    <2>1. CASE ok = Nothing
      BY <1>2, <1>3, <2>0, <2>1 DEF ResumeSeekEnd
    <2>2. CASE ok # Nothing
      <3>1. PICK p : p = IF ok + call.n < 0 THEN 0 ELSE ok + call.n
        OBVIOUS
      <3>2. PICK u : u = [s EXCEPT !.pos = p]
        OBVIOUS
      <3>3. Return(u, rs, p, Nothing, << >>, by)
        BY <2>0, <2>2, <3>1, <3>2 DEF ResumeSeekEnd
      <3>4. /\ self' = u /\ call' = NoCall /\ got'.err = Nothing /\ got'.by = by
        BY <3>3 DEF Return, Answered
      <3>5. u.eol = s.eol /\ u.fd = s.fd
        BY <1>2, <3>2 DEF SelfRec
      <3>. QED  BY <1>2, <1>7, <2>2, <3>4, <3>5, NoCallFacts DEF Resumes
    <2>. QED  BY <2>1, <2>2
  <1>8. CASE call.op = "open"
    <2>1. PICK f \in BOOLEAN : f = (ok # Nothing)
      OBVIOUS
    <2>2. PICK u : u = [s EXCEPT !.fd = f]
      OBVIOUS
    <2>3. u \in SelfRec /\ u.eol = s.eol
      BY <1>2, <2>2 DEF SelfRec
    <2>4. Return(u, rs, ok, err, << >>, by)
      BY <1>1, <1>8, <2>1, <2>2 DEF Resume
    <2>. QED  BY <1>2, <1>3, <1>8, <2>3, <2>4
  <1>9. CASE call.op = "close"
    <2>1. PICK u : u = [s EXCEPT !.fd = FALSE, !.pos = 0]
      OBVIOUS
    <2>2. u \in SelfRec /\ u.eol = s.eol /\ ~u.fd
      BY <1>2, <2>1 DEF SelfRec
    <2>3. Return(u, rs, ok, err, << >>, by)
      BY <1>1, <1>9, <2>1 DEF Resume
    <2>. QED  BY <1>2, <1>3, <2>2, <2>3
  <1>10. CASE call.op \notin {"read_n", "read_line", "seek_end", "open", "close"}
    <2>1. Return(s, rs, ok, err, << >>, by)
      BY <1>1, <1>10 DEF Resume
    <2>. QED  BY <1>2, <1>3, <2>1
  <1>. QED  BY <1>5, <1>6, <1>7, <1>8, <1>9, <1>10


(* A read goes on behind the first k bytes that are ahead.                 *)
LEMMA GoesOn ==
  ASSUME disk \in Bytes, call \in CallRec, call.op \in {"read_n", "read_line"},
         NEW w \in Bytes, w = Ahead, NEW k \in 0..Len(w), NEW res \in Bytes,
         res = Upto(w, k), NEW s \in SelfRec, NEW n,
         n = IF call.op = "read_line" THEN BUFFER_SIZE ELSE Least(BUFFER_SIZE, call.n - k),
         call.op = "read_line" => s.eol \in FileEols /\ ~Has(res, s.eol),
         call.op = "read_n" => call.n \in Nat /\ k < call.n,
         _read_some(s, [call EXCEPT !.res = res], << >>, n)
  PROVE  Exact(self', call', reqs', disk) /\ call'.op # "none"
  <1>1. PICK c : c = [call EXCEPT !.res = res]
    OBVIOUS
  <1>2. /\ c.op = call.op /\ c.from = call.from /\ c.res = res /\ c.n = call.n
        /\ c.arg = call.arg
    BY <1>1 DEF CallRec
  <1>3. AheadOf(disk, c) = w
    BY <1>2 DEF AheadOf, Ahead
  <1>4. Len(res) = k /\ k <= Len(w)
    <2>1. Len(Upto(w, k)) = k /\ Len(w) \in Nat
      BY CutSeq, LenBytes DEF Bytes
    <2>. QED  BY <2>1
  <1>5. PICK r : r = NewRequest("read", s.pos, n, << >>)
    OBVIOUS
  <1>6. r.n = n /\ r.at = "queued"
    BY <1>5 DEF NewRequest
  <1>7. Yield(s, c, << >>, r)
    BY <1>1, <1>5 DEF _read_some
  <1>8. self'.eol = s.eol /\ call' = c /\ reqs' = Append(<< >>, r)
    BY <1>7, YieldFields
  <1>9. Len(reqs') = 1 /\ reqs'[1] = r
    BY <1>8
  <1>10. n = Asks_n(c)
    BY <1>2, <1>4 DEF Asks_n
  <1>11. ExactRead(self', c, r, disk)
    BY <1>2, <1>3, <1>4, <1>6, <1>8, <1>10 DEF ExactRead
  <1>. QED  BY <1>2, <1>8, <1>9, <1>11 DEF Exact

(* What a read that is answered returns.                                   *)
Taken ==
  /\ self'.pos = call.from + Len(Wanted)
  /\ got'.val = IF Wanted = << >> THEN Nothing ELSE Shown

(* str follows the first l bytes of w, and then k of them are known; the   *)
(* coroutine is resumed with ok.                                           *)
Chunk(w, l, k, str, ok) ==
  /\ ok = IF str = << >> THEN Nothing ELSE str
  /\ w \in Bytes /\ Len(w) \in Nat /\ l \in 0..Len(w) /\ k \in l..Len(w)
  /\ str \in Bytes /\ Len(str) = k - l
  /\ Upto(w, l) \o str = Upto(w, k)
  /\ Upto(w, k) \in Bytes /\ Len(Upto(w, k)) = k
  /\ Upto(w, l) \in Bytes /\ Len(Upto(w, l)) = l

LEMMA ChunkFacts ==
  ASSUME NEW w, NEW l, NEW k, NEW str, NEW ok, Chunk(w, l, k, str, ok)
  PROVE  /\ ok = Nothing <=> k = l
         /\ Upto(w, k) = IF ok = Nothing THEN Upto(w, l) ELSE Upto(w, l) \o ok
         /\ Upto(w, k) = << >> <=> k = 0
  <1>1. str \in Bytes /\ str # Nothing /\ Len(str) = k - l /\ k \in Nat /\ l \in Nat
    BY CofsAssumption DEF Chunk, Bytes
  <1>2. str = << >> <=> Len(str) = 0
    BY <1>1, EmptySeq DEF Bytes
  <1>3. ok = Nothing <=> k = l
    BY <1>1, <1>2 DEF Chunk
  <1>4. PICK u \in Bytes : u = Upto(w, k) /\ Len(u) = k
    BY DEF Chunk
  <1>5. u = << >> <=> Len(u) = 0
    BY EmptySeq DEF Bytes
  <1>6. Upto(w, l) \o str = Upto(w, k)
    BY DEF Chunk
  <1>7. ok = IF str = << >> THEN Nothing ELSE str
    BY DEF Chunk
  <1>. QED  BY <1>1, <1>3, <1>4, <1>5, <1>6, <1>7


(* The loop of read_n.                                                     *)
LEMMA ReadNExact ==
  ASSUME disk \in Bytes, call \in CallRec, call.op = "read_n", call.n \in Nat,
         NEW w, w = Ahead, NEW l, NEW k, NEW str, NEW ok, Chunk(w, l, k, str, ok),
         call.res = Upto(w, l),
         call.n <= BUFFER_SIZE => l = 0, call.n > BUFFER_SIZE => l < call.n,
         k = Least(l + Least(BUFFER_SIZE, call.n - l), Len(w)),
         NEW s \in SelfRec, s.pos = call.from + k, NEW by,
         ResumeReadN(s, << >>, ok, Nothing, by)
  PROVE  Exact(self', call', reqs', disk) /\ (call'.op = "none" => Taken)
  <1>1. /\ ok = Nothing <=> k = l
        /\ Upto(w, k) = IF ok = Nothing THEN Upto(w, l) ELSE Upto(w, l) \o ok
        /\ Upto(w, k) = << >> <=> k = 0
    BY ONLY Chunk(w, l, k, str, ok), ChunkFacts
  <1>2. /\ w \in Bytes /\ Len(w) \in Nat /\ l \in 0..Len(w) /\ k \in l..Len(w)
        /\ str \in Bytes /\ Len(str) = k - l /\ Upto(w, l) \o str = Upto(w, k)
        /\ Upto(w, k) \in Bytes /\ Len(Upto(w, k)) = k
        /\ ok = IF str = << >> THEN Nothing ELSE str
    BY DEF Chunk
  <1>3. BUFFER_SIZE \in Nat \ {0} /\ call.from \in Nat
    BY CofsAssumption DEF CallRec
  <1>4. PICK res \in Bytes : res = Upto(w, k) /\ Len(res) = k /\ (res = << >> <=> k = 0)
    BY <1>1, <1>2
  <1>5. res = IF ok = Nothing THEN call.res ELSE call.res \o ok
    BY <1>1, <1>4
  <1>6. ASSUME k = Least(call.n, Len(w)), NEW part,
               Return(s, << >>, IF res = << >> THEN Nothing ELSE res, Nothing, part, by)
        PROVE  Exact(self', call', reqs', disk) /\ Taken
    <2>1. /\ self' = s /\ call' = NoCall /\ call'.op = "none"
          /\ got'.val = IF res = << >> THEN Nothing ELSE res
      BY <1>6, ReturnFields
    <2>2. Wanted = res /\ Shown = res
      BY <1>2, <1>4, <1>6 DEF Wanted, Shown
    <2>. QED  BY <1>4, <2>1, <2>2 DEF Exact, Transfers, Taken
  <1>7. CASE call.n <= BUFFER_SIZE
    <2>1. Return(s, << >>, ok, Nothing, << >>, by)
      BY <1>3, <1>7 DEF ResumeReadN
    <2>2. l = 0 /\ k = Least(call.n, Len(w))
      BY <1>2, <1>3, <1>7 DEF Least
    <2>3. res = str
      <3>1. Upto(w, 0) = << >>
        BY <1>2, SubSeqEmpty DEF Upto, Bytes
      <3>2. << >> \o str = str
        BY <1>2, ConcatEmptySeq DEF Bytes
      <3>. QED  BY <1>2, <1>4, <2>2, <3>1, <3>2
    <2>4. ok = IF res = << >> THEN Nothing ELSE res
      BY <1>2, <2>3
    <2>. QED  BY <1>6, <2>1, <2>2, <2>4
  <1>8. CASE call.n > BUFFER_SIZE /\ ok # Nothing /\ k < call.n
    <2>1. call.n - Len(res) > 0 /\ ~(call.n <= BUFFER_SIZE)
      BY <1>2, <1>3, <1>4, <1>8
    <2>2. PICK n : n = Least(BUFFER_SIZE, call.n - k)
      OBVIOUS
    <2>3. _read_some(s, [call EXCEPT !.res = res], << >>, n)
      BY <1>4, <1>5, <1>8, <2>1, <2>2 DEF ResumeReadN
    <2>4. k \in 0..Len(w)
      BY <1>2
    <2>. QED  BY <1>2, <1>4, <1>8, <2>2, <2>3, <2>4, GoesOn
  <1>9. CASE call.n > BUFFER_SIZE /\ ~(ok # Nothing /\ k < call.n)
    <2>1. ~(ok # Nothing /\ call.n - Len(res) > 0) /\ ~(call.n <= BUFFER_SIZE)
      BY <1>2, <1>3, <1>4, <1>9
    <2>2. Return(s, << >>, IF res = << >> THEN Nothing ELSE res, Nothing, << >>, by)
      BY <1>5, <2>1 DEF ResumeReadN
    <2>3. k = Least(call.n, Len(w))
      BY <1>1, <1>2, <1>3, <1>9, SMTT(30) DEF Least
    <2>. QED  BY <1>6, <2>2, <2>3
  <1>. QED  BY <1>3, <1>7, <1>8, <1>9

(* The loop of read_line: the line that is found in what has been read is  *)
(* the one that is found in all that is ahead.                             *)
LEMMA ReadLineExact ==
  ASSUME disk \in Bytes, call \in CallRec, call.op = "read_line",
         NEW w, w = Ahead, NEW l, NEW k, NEW str, NEW ok, Chunk(w, l, k, str, ok),
         call.res = Upto(w, l), k = Least(l + BUFFER_SIZE, Len(w)),
         NEW s \in SelfRec, s.pos = call.from + k, s.eol = self.eol, s.eol \in FileEols,
         ~Has(call.res, s.eol), NEW by, ResumeReadLine(s, << >>, ok, Nothing, by)
  PROVE  Exact(self', call', reqs', disk) /\ (call'.op = "none" => Taken)
  <1>1. /\ ok = Nothing <=> k = l
        /\ Upto(w, k) = IF ok = Nothing THEN Upto(w, l) ELSE Upto(w, l) \o ok
        /\ Upto(w, k) = << >> <=> k = 0
    BY ONLY Chunk(w, l, k, str, ok), ChunkFacts
  <1>2. /\ w \in Bytes /\ Len(w) \in Nat /\ l \in 0..Len(w) /\ k \in l..Len(w)
        /\ Upto(w, k) \in Bytes /\ Len(Upto(w, k)) = k
    BY DEF Chunk
  <1>3. BUFFER_SIZE \in Nat \ {0} /\ call.from \in Nat
    BY CofsAssumption DEF CallRec
  <1>4. PICK res \in Bytes : res = Upto(w, k) /\ Len(res) = k /\ (res = << >> <=> k = 0)
    BY <1>1, <1>2
  <1>5. res = IF ok = Nothing THEN call.res ELSE call.res \o ok
    BY <1>1, <1>4
  <1>6. PICK eol \in Eols : eol = s.eol
    BY CofsAssumption
  <1>7. CASE ok # Nothing /\ ~Has(res, eol)
    <2>1. _read_some(s, [call EXCEPT !.res = res], << >>, BUFFER_SIZE)
      BY <1>5, <1>6, <1>7 DEF ResumeReadLine
    <2>2. k \in 0..Len(w)
      BY <1>2
    <2>. QED  BY <1>2, <1>4, <1>6, <1>7, <2>1, <2>2, GoesOn
  <1>8. CASE ok = Nothing
    <2>1. Return(s, << >>, IF res = << >> THEN Nothing ELSE res, Nothing, << >>, by)
      BY <1>5, <1>8 DEF ResumeReadLine
    <2>2. /\ self' = s /\ call' = NoCall /\ call'.op = "none"
          /\ got'.val = IF res = << >> THEN Nothing ELSE res
      BY <2>1, ReturnFields
    <2>3. k = Len(w) /\ k = l
      BY <1>1, <1>2, <1>3, <1>8 DEF Least
    <2>4. res = w /\ ~Has(w, eol)
      <3>1. Upto(w, Len(w)) = w
        BY <1>2, SubSeqFull DEF Upto, Bytes
      <3>. QED  BY <1>4, <1>6, <2>3, <3>1
    <2>5. Wanted = res /\ Shown = res
      BY <1>6, <2>4 DEF Wanted, Shown
    <2>. QED  BY <1>4, <2>2, <2>5 DEF Exact, Transfers, Taken
  <1>9. CASE ok # Nothing /\ Has(res, eol)
    <2>1. PICK t \in Bytes : w = res \o t
      <3>1. k \in 0..Len(w)
        BY <1>2
      <3>2. PICK n \in 0..Len(w) : n = k
        BY <3>1
      <3>3. From(w, n + 1) \in Bytes /\ Upto(w, n) \o From(w, n + 1) = w
        BY <1>2, CutSeq DEF Bytes
      <3>. QED  BY <1>4, <3>2, <3>3
    <2>2. PICK i, j \in 1..Len(res) : Find(res, eol) = <<i, j>> /\ i <= j
      BY <1>9, FindFacts
    <2>3. Has(w, eol) /\ Find(w, eol) = <<i, j>>
      BY <1>9, <2>1, <2>2, FindPrefix
    <2>4. PICK h \in 0..Len(res) : h = i - 1
      BY <1>2, <1>4, <2>2
    <2>5. /\ Upto(res, j) = Upto(w, j) /\ Upto(res, h) = Upto(w, h)
          /\ Len(Upto(w, j)) = j /\ Upto(w, j) # << >>
      <3>1. j \in 0..Len(res) /\ j \in 0..Len(w) /\ j # 0
        BY <1>2, <1>4
      <3>2. Upto(res, j) = Upto(w, j) /\ Upto(res, h) = Upto(w, h)
        BY <2>1, <3>1, CutInFirst
      <3>3. Len(Upto(w, j)) = j
        BY <1>2, <3>1, CutSeq DEF Bytes
      <3>. QED  BY <3>1, <3>2, <3>3, EmptyBytes
    <2>6. PICK p \in Nat : p = call.from + j /\ p = s.pos - (Len(res) - j)
      BY <1>2, <1>3, <1>4, SMTT(30)
    <2>7. PICK u : u = [s EXCEPT !.pos = p]
      OBVIOUS
    <2>8. u \in SelfRec
      BY <2>7 DEF SelfRec
    <2>9. u.pos = p
      BY <2>7 DEF SelfRec
    <2>10. PICK val : val = Upto(res, IF call.keep THEN j ELSE h)
      OBVIOUS
    <2>11. Return(u, << >>, val, Nothing, << >>, by)
      <3>1. PICK m : m = Find(res, s.eol) /\ m[1] = i /\ m[2] = j
        BY <1>6, <2>2
      <3>2. Return([s EXCEPT !.pos = @ - (Len(res) - m[2])], << >>,
                   Upto(res, IF call.keep THEN m[2] ELSE m[1] - 1), Nothing, << >>, by)
        BY <1>5, <1>6, <1>9, <3>1 DEF ResumeReadLine
      <3>. QED  BY <2>4, <2>6, <2>7, <2>10, <3>1, <3>2
    <2>12. self' = u /\ call' = NoCall /\ call'.op = "none" /\ got'.val = val
      BY <2>8, <2>11, ReturnFields
    <2>13. Wanted = Upto(w, j) /\ Shown = val
      <3>1. Find(w, eol)[2] = j /\ Find(w, eol)[1] - 1 = h
        BY <2>3, <2>4
      <3>. QED  BY <1>6, <2>3, <2>5, <2>10, <3>1 DEF Wanted, Shown
    <2>. QED  BY <2>5, <2>6, <2>9, <2>12, <2>13 DEF Exact, Transfers, Taken
  <1>. QED  BY <1>7, <1>8, <1>9


(***************************************************************************)
(* The steps, seen from the transfer.                                      *)
(***************************************************************************)

(* What TransfersAreExact says of a step.                                  *)
Transferred ==
  Succeeds /\ call.clean =>
    /\ call.op \in {"read_n", "read_line"} => Taken
    /\ call.op = "write" => /\ disk' = Put(disk, call.from, call.arg)
                            /\ self'.pos = call.from + Len(call.arg)

(* The one request of a transfer.                                          *)
LEMMA OneRequest ==
  ASSUME CofsInv, ExactInv, call.op \in Transfers, call.clean, NEW i \in DOMAIN reqs
  PROVE  /\ i = 1 /\ Len(reqs) = 1 /\ reqs \in Seq(ReqRec) /\ reqs[1] \in ReqRec
         /\ reqs[1].live /\ reqs[1].off = self.pos
         /\ call.op # "write" => /\ reqs[1].op = "read"
                                 /\ ExactRead(self, call, reqs[1], disk)
                                 /\ self.pos = call.from + Len(call.res)
         /\ call.op = "write" => /\ reqs[1].op = "write"
                                 /\ ExactWrite(self, call, reqs[1], disk)
  <1>1. Asked(self, call, reqs) /\ Reading(self, call)
    BY DEF CofsInv, Sound, Transfers
  <1>2. /\ Len(reqs) = 1
        /\ call.op # "write" => ExactRead(self, call, reqs[1], disk)
        /\ call.op = "write" => ExactWrite(self, call, reqs[1], disk)
    BY DEF ExactInv, Exact
  <1>3. reqs \in Seq(ReqRec) /\ i = 1 /\ reqs[1] \in ReqRec
    <2>1. reqs \in Seq(ReqRec)
      BY <1>1 DEF Asked
    <2>2. DOMAIN reqs = 1..Len(reqs) /\ 1..1 = {1}
      BY <2>1
    <2>. QED  BY <1>2, <2>1, <2>2
  <1>. QED  BY <1>1, <1>2, <1>3 DEF Asked, Reading, Asks, Transfers

(* The state in which a call goes on when its request is done well.        *)
LEMMA MovedFacts ==
  ASSUME self \in SelfRec, NEW r \in ReqRec
  PROVE  LET s == [Moved(self, r) EXCEPT !.wait = FALSE]
         IN  /\ Moved(self, r) \in SelfRec /\ s \in SelfRec
             /\ s.pos = self.pos + Len(r.str) /\ s.eol = self.eol /\ s.fd = self.fd
             /\ Moved(self, r).eol = self.eol /\ Moved(self, r).fd = self.fd
  <1>1. PICK n \in Nat : n = self.pos + Len(r.str)
    <2>1. self.pos \in Nat /\ r.str \in Bytes
      BY DEF SelfRec, ReqRec
    <2>. QED  BY <2>1, LenBytes
  <1>2. PICK m : m = [self EXCEPT !.pos = n]
    OBVIOUS
  <1>3. m \in SelfRec
    BY <1>2 DEF SelfRec
  <1>4. m.pos = n /\ m.eol = self.eol /\ m.fd = self.fd
    BY <1>2 DEF SelfRec
  <1>5. PICK s : s = [m EXCEPT !.wait = FALSE]
    OBVIOUS
  <1>6. s \in SelfRec
    BY <1>3, <1>5 DEF SelfRec
  <1>7. s.pos = m.pos /\ s.eol = m.eol /\ s.fd = m.fd
    BY <1>3, <1>5 DEF SelfRec
  <1>8. Moved(self, r) = m
    BY <1>1, <1>2 DEF Moved
  <1>. QED  BY <1>1, <1>3, <1>4, <1>5, <1>6, <1>7, <1>8

(* A transfer is answered.                                                 *)
LEMMA ReadAnswered ==
  ASSUME CofsInv, ExactInv, call.op \in {"read_n", "read_line"}, call.clean,
         NEW i \in DOMAIN reqs, reqs[i].at = "done", reqs[i].ok, Answer(i)
  PROVE  Exact(self', call', reqs', disk) /\ (call'.op = "none" => Taken)
  <1>1. PICK r \in ReqRec :
          /\ r = reqs[1] /\ i = 1 /\ Len(reqs) = 1 /\ reqs \in Seq(ReqRec)
          /\ r.off = self.pos /\ r.op = "read" /\ ExactRead(self, call, r, disk)
          /\ self.pos = call.from + Len(call.res)
    <2>1. call.op \in Transfers /\ call.op # "write"
      BY DEF Transfers
    <2>. QED  BY <2>1, OneRequest
  <1>2. disk \in Bytes /\ self \in SelfRec /\ call \in CallRec
    BY DEF CofsInv, Sound
  <1>3. PICK w \in Bytes : w = AheadOf(disk, call) /\ w = Ahead /\ Len(w) \in Nat
    BY <1>2, AheadBytes DEF AheadOf, Ahead
  <1>4. /\ call.from \in Nat /\ call.res \in Bytes /\ Len(call.res) \in Nat
        /\ BUFFER_SIZE \in Nat \ {0} /\ call.n \in Int /\ r.off \in Nat /\ r.n \in Nat
    BY <1>2, LenBytes, CofsAssumption DEF CallRec, ReqRec
  <1>5. PICK l \in 0..Len(w) : l = Len(call.res) /\ call.res = Upto(w, l)
    BY <1>1, <1>3, <1>4 DEF ExactRead
  <1>10. PICK ok : ok = IF r.str = << >> THEN Nothing ELSE r.str
    OBVIOUS
  <1>6. PICK k \in l..Len(w) :
          k = Least(l + r.n, Len(w)) /\ Chunk(w, l, k, r.str, ok)
    <2>1. w = From(disk, call.from + 1) /\ r.off = call.from + l
      BY <1>1, <1>3, <1>5 DEF AheadOf
    <2>2. r.str = SubSeq(disk, r.off + 1, Least(r.off + r.n, Len(disk)))
      BY <1>1 DEF ExactRead
    <2>3. PICK from, n, off, str :
            from = call.from /\ n = r.n /\ off = r.off /\ str = r.str
      OBVIOUS
    <2>7. PICK k : EndsAt(w, l, n, str, k)
      <3>1. IsReadAt(disk, from, w, l, n, off, str)
        BY <1>2, <1>4, <2>1, <2>2, <2>3 DEF IsReadAt
      <3>. QED  BY ONLY <3>1, Follows
    <2>4. /\ k \in l..Len(w) /\ k = Least(l + n, Len(w)) /\ str \in Bytes
          /\ Len(str) = k - l /\ Upto(w, l) \o str = Upto(w, k)
      BY <2>7 DEF EndsAt
    <2>5. k \in 0..Len(w)
      BY <1>3, <2>4
    <2>6. /\ Upto(w, k) \in Bytes /\ Len(Upto(w, k)) = k
          /\ Upto(w, l) \in Bytes /\ Len(Upto(w, l)) = l
      BY <2>5, CutSeq DEF Bytes
    <2>. QED  BY <1>3, <1>10, <2>3, <2>4, <2>6 DEF Chunk
  <1>7. PICK s \in SelfRec : /\ s = [Moved(self, r) EXCEPT !.wait = FALSE]
                             /\ s.pos = self.pos + Len(r.str) /\ s.eol = self.eol
    BY <1>2, MovedFacts
  <1>8. s.pos = call.from + k
    <2>1. Len(r.str) = k - l
      BY <1>6 DEF Chunk
    <2>2. self.pos = call.from + l /\ l \in Nat /\ k \in Nat
      BY <1>1, <1>3, <1>5
    <2>3. s.pos = self.pos + (k - l)
      BY <1>7, <2>1
    <2>. QED  BY <1>4, <2>2, <2>3
  <1>9. RemoveAt(reqs, 1) = << >>
    <2>1. RemoveAt(reqs, 1) \in Seq(ReqRec) /\ Len(RemoveAt(reqs, 1)) = 0
      <3>1. 1 \in 1..Len(reqs) /\ Len(reqs) - 1 = 0
        BY <1>1
      <3>. QED  BY <1>1, <3>1, RemoveAtFacts
    <2>. QED  BY <2>1, EmptySeq
  <1>11. Resume(Moved(self, r), << >>, ok, Nothing, "self")
    BY <1>1, <1>9, <1>10 DEF Answer, Value
  <1>12. CASE call.op = "read_n"
    <2>1. ResumeReadN(s, << >>, ok, Nothing, "self")
      BY <1>7, <1>11, <1>12 DEF Resume
    <2>2. call.n \in Nat /\ r.n = Least(BUFFER_SIZE, call.n - l)
      BY <1>1, <1>5, <1>12 DEF ExactRead, Asks_n
    <2>3. call.n > BUFFER_SIZE => l < call.n
      BY <1>1, <1>5, <1>12 DEF ExactRead
    <2>4. call.n <= BUFFER_SIZE => l = 0
      BY <1>5, <1>12, EmptyBytes DEF CofsInv, Sound, Reading
    <2>5. k = Least(l + Least(BUFFER_SIZE, call.n - l), Len(w))
      BY <1>6, <2>2
    <2>. QED  BY <1>2, <1>3, <1>5, <1>6, <1>8, <1>12, <2>1, <2>2, <2>3, <2>4, <2>5,
                 ReadNExact
  <1>13. CASE call.op = "read_line"
    <2>1. ResumeReadLine(s, << >>, ok, Nothing, "self")
      BY <1>7, <1>11, <1>13 DEF Resume
    <2>2. r.n = BUFFER_SIZE /\ s.eol \in FileEols /\ ~Has(call.res, s.eol)
      BY <1>1, <1>7, <1>13 DEF ExactRead, Asks_n
    <2>3. k = Least(l + BUFFER_SIZE, Len(w)) /\ s.eol = self.eol
      BY <1>6, <1>7, <2>2
    <2>. QED  BY <1>2, <1>3, <1>5, <1>6, <1>8, <1>13, <2>1, <2>2, <2>3, ReadLineExact
  <1>. QED  BY <1>12, <1>13

LEMMA WriteAnswered ==
  ASSUME CofsInv, ExactInv, call.op = "write", call.clean,
         NEW i \in DOMAIN reqs, reqs[i].at = "done", reqs[i].ok, Answer(i)
  PROVE  /\ call' = NoCall /\ self'.pos = call.from + Len(call.arg)
         /\ disk' = Put(disk, call.from, call.arg)
  <1>1. PICK r \in ReqRec :
          /\ r = reqs[1] /\ i = 1 /\ r.op = "write" /\ ExactWrite(self, call, r, disk)
    <2>1. call.op \in Transfers
      BY DEF Transfers
    <2>. QED  BY <2>1, OneRequest
  <1>2. self \in SelfRec
    BY DEF CofsInv, Sound
  <1>3. PICK s \in SelfRec : /\ s = [Moved(self, r) EXCEPT !.wait = FALSE]
                             /\ s.pos = self.pos + Len(r.str)
    BY <1>2, MovedFacts
  <1>4. Resume(Moved(self, r), RemoveAt(reqs, 1), TRUE, Nothing, "self") /\ disk' = disk
    BY <1>1 DEF Answer, Value
  <1>5. Return(s, RemoveAt(reqs, 1), TRUE, Nothing, << >>, "self")
    BY <1>3, <1>4 DEF Resume
  <1>6. self' = s /\ call' = NoCall
    BY <1>5 DEF Return
  <1>. QED  BY <1>1, <1>3, <1>4, <1>6 DEF ExactWrite


(* A call begins.                                                          *)
LEMMA Begun ==
  ASSUME CofsInv, ExactInv, IsOpen, NEW c \in CallRec, c.op \notin {"none", "open"},
         c.from = self.pos, c.res = << >>, c.clean => reqs = << >>,
         NEW r, r.at = "queued", Yield(self, c, reqs, r),
         c.op \in {"read_n", "read_line"} => r.n = Asks_n(c),
         c.op = "read_n" => c.n \in Nat,
         c.op = "write" => r.str = c.arg /\ r.off = self.pos
  PROVE  HasEol(self', call') /\ Exact(self', call', reqs', disk)
  <1>1. disk \in Bytes /\ self \in SelfRec /\ self.fd /\ self.eol \in FileEols
    BY DEF CofsInv, Sound, ExactInv, HasEol, IsOpen
  <1>2. /\ self'.eol = self.eol /\ self'.fd = self.fd /\ self'.pos = self.pos
        /\ call' = c /\ reqs' = Append(reqs, r)
    BY <1>1, YieldFields
  <1>3. HasEol(self', call')
    BY <1>1, <1>2 DEF HasEol
  <1>4. ASSUME c.op \in Transfers, c.clean
        PROVE  Exact(self', c, reqs', disk)
    <2>1. Len(reqs') = 1 /\ reqs'[1] = r
      BY <1>2, <1>4
    <2>2. CASE c.op = "write"
      BY <1>2, <2>1, <2>2 DEF Exact, ExactWrite
    <2>3. CASE c.op # "write"
      <3>1. c.op \in {"read_n", "read_line"}
        BY <1>4, <2>3 DEF Transfers
      <3>2. PICK w \in Bytes : w = AheadOf(disk, c) /\ Len(w) \in Nat
        BY <1>1, AheadBytes
      <3>3. Upto(w, 0) = << >> /\ Len(<< >>) = 0 /\ << >> \in Bytes
        BY SubSeqEmpty, EmptyBytes DEF Upto, Bytes
      <3>4. ~Has(<< >>, self.eol)
        BY <3>3 DEF Has, MatchesOf
      <3>5. BUFFER_SIZE \in Nat
        BY CofsAssumption
      <3>6. ExactRead(self', c, r, disk)
        BY <1>1, <1>2, <3>1, <3>2, <3>3, <3>4, <3>5 DEF ExactRead
      <3>. QED  BY <2>1, <2>3, <3>6 DEF Exact
    <2>. QED  BY <2>2, <2>3
  <1>. QED  BY <1>2, <1>3, <1>4 DEF Exact

LEMMA BeginsClean ==
  ASSUME self \in SelfRec, NEW op \in CallOps, NEW x, NEW c
  PROVE  /\ c = [Begins(op) EXCEPT !.n = x] => c.n = x /\ (c.clean => reqs = << >>)
         /\ c = [Begins(op) EXCEPT !.arg = x] => c.arg = x /\ (c.clean => reqs = << >>)
         /\ c = [Begins(op) EXCEPT !.keep = x] => (c.clean => reqs = << >>)
  <1>1. PICK b \in CallRec : b = Begins(op)
    BY BeginsFacts
  <1>2. b.clean = (reqs = << >>)
    BY <1>1 DEF Begins, NoCall
  <1>3. c = [b EXCEPT !.n = x] => c.n = x /\ c.clean = b.clean
    BY DEF CallRec
  <1>4. c = [b EXCEPT !.arg = x] => c.arg = x /\ c.clean = b.clean
    BY DEF CallRec
  <1>5. c = [b EXCEPT !.keep = x] => c.clean = b.clean
    BY DEF CallRec
  <1>. QED  BY <1>1, <1>2, <1>3, <1>4, <1>5

LEMMA TransferBegins ==
  ASSUME CofsInv, ExactInv, read_n \/ read_line \/ write_string
  PROVE  HasEol(self', call') /\ Exact(self', call', reqs', disk)
  <1>1. /\ self \in SelfRec /\ << >> \in Bytes /\ self.pos \in Nat /\ 0 \in Int
        /\ BUFFER_SIZE \in Nat
    BY EmptyBytes, CofsAssumption DEF CofsInv, Sound, SelfRec
  <1>2. Len(<< >>) = 0
    BY EmptyBytes
  <1>3. CASE read_n
    <2>1. PICK n \in Nat : 
            _read_some(self, [Begins("read_n") EXCEPT !.n = n], reqs, Least(BUFFER_SIZE, n))
      BY <1>3, CofsAssumption DEF read_n, Huge
    <2>2. PICK op \in CallOps : op = "read_n"
      BY DEF CallOps
    <2>3. PICK c : c = [Begins(op) EXCEPT !.n = n]
      OBVIOUS
    <2>4. n \in Int
      OBVIOUS
    <2>5. c \in CallRec /\ c.op = op /\ c.from = self.pos /\ c.res = << >>
      BY <1>1, <2>3, <2>4, WithArguments
    <2>6. c.n = n /\ (c.clean => reqs = << >>)
      BY <1>1, <2>3, BeginsClean
    <2>7. PICK r : r = NewRequest("read", self.pos, Least(BUFFER_SIZE, n), << >>)
      OBVIOUS
    <2>8. r.at = "queued" /\ r.n = Asks_n(c)
      <3>1. r.at = "queued" /\ r.n = Least(BUFFER_SIZE, n)
        BY <2>7 DEF NewRequest
      <3>2. c.n - Len(c.res) = n
        BY <1>2, <2>5, <2>6
      <3>. QED  BY <2>2, <2>5, <3>1, <3>2 DEF Asks_n
    <2>9. IsOpen /\ Yield(self, c, reqs, r)
      BY <1>3, <2>1, <2>2, <2>3, <2>7 DEF read_n, _read_some
    <2>. QED  BY <2>2, <2>5, <2>6, <2>8, <2>9, Begun
  <1>4. CASE read_line
    <2>1. PICK keep \in BOOLEAN :
            _read_some(self, [Begins("read_line") EXCEPT !.keep = keep], reqs, BUFFER_SIZE)
      BY <1>4 DEF read_line
    <2>2. PICK op \in CallOps : op = "read_line"
      BY DEF CallOps
    <2>3. PICK c : c = [Begins(op) EXCEPT !.keep = keep]
      OBVIOUS
    <2>5. c \in CallRec /\ c.op = op /\ c.from = self.pos /\ c.res = << >>
      BY <1>1, <2>3, WithArguments
    <2>6. c.clean => reqs = << >>
      BY <1>1, <2>3, BeginsClean
    <2>7. PICK r : r = NewRequest("read", self.pos, BUFFER_SIZE, << >>)
      OBVIOUS
    <2>8. r.at = "queued" /\ r.n = Asks_n(c)
      BY <2>2, <2>5, <2>7 DEF NewRequest, Asks_n
    <2>9. IsOpen /\ Yield(self, c, reqs, r)
      BY <1>4, <2>1, <2>2, <2>3, <2>7 DEF read_line, _read_some
    <2>. QED  BY <2>2, <2>5, <2>6, <2>8, <2>9, Begun
  <1>5. CASE write_string
    <2>1. PICK str \in Bytes :
            Yield(self, [Begins("write") EXCEPT !.arg = str], reqs,
                  NewRequest("write", self.pos, 0, str))
      BY <1>5, CofsAssumption DEF write_string, Bytes
    <2>2. PICK op \in CallOps : op = "write"
      BY DEF CallOps
    <2>3. PICK c : c = [Begins(op) EXCEPT !.arg = str]
      OBVIOUS
    <2>5. c \in CallRec /\ c.op = op /\ c.from = self.pos /\ c.res = << >>
      BY <1>1, <2>3, WithArguments
    <2>6. c.arg = str /\ (c.clean => reqs = << >>)
      BY <1>1, <2>3, BeginsClean
    <2>7. PICK r : r = NewRequest("write", self.pos, 0, str)
      OBVIOUS
    <2>8. r.at = "queued" /\ r.str = c.arg /\ r.off = self.pos
      BY <2>6, <2>7 DEF NewRequest
    <2>9. IsOpen /\ Yield(self, c, reqs, r)
      BY <1>5, <2>1, <2>2, <2>3, <2>7 DEF write_string
    <2>. QED  BY <2>2, <2>5, <2>6, <2>8, <2>9, Begun
  <1>. QED  BY <1>3, <1>4, <1>5

(* The other calls transfer nothing.                                       *)
LEMMA OtherBegins ==
  ASSUME CofsInv, ExactInv, open \/ close \/ seek \/ seek_end \/ call_fs
  PROVE  HasEol(self', call') /\ Exact(self', call', reqs', disk)
  <1>1. self \in SelfRec /\ << >> \in Bytes /\ 0 \in Int /\ call.op = "none"
    BY EmptyBytes DEF CofsInv, Sound, open, close, seek, seek_end, call_fs, IsOpen, Idle
  <1>2. CASE open
    <2>1. PICK eol \in FileEols : \E old, r : Yield(NewSelf(eol), Begins("open"), old, r)
      BY <1>2 DEF open
    <2>2. self'.eol = eol /\ call' = Begins("open")
      BY <2>1 DEF Yield, NewSelf
    <2>3. call'.op = "open"
      <3>1. "open" \in CallOps
        BY DEF CallOps
      <3>. QED  BY <1>1, <2>2, <3>1, BeginsFacts
    <2>. QED  BY <2>2, <2>3 DEF HasEol, Exact, Transfers
  <1>3. CASE seek
    <2>1. PICK p : self' = [self EXCEPT !.pos = p] /\ call' = call
      BY <1>3 DEF seek
    <2>2. self'.eol = self.eol /\ self'.fd = self.fd
      BY <1>1, <2>1 DEF SelfRec
    <2>. QED  BY <1>1, <2>1, <2>2 DEF ExactInv, HasEol, Exact, Transfers
  <1>4. ASSUME IsOpen, NEW c \in CallRec, c.op \notin Transfers, c.op # "open", NEW r,
               Yield(self, c, reqs, r)
        PROVE  HasEol(self', call') /\ Exact(self', call', reqs', disk)
    <2>1. self'.eol = self.eol /\ self'.fd = self.fd /\ call' = c
      BY <1>1, <1>4, YieldFields
    <2>2. self.eol \in FileEols
      BY <1>4 DEF IsOpen, ExactInv, HasEol
    <2>. QED  BY <1>4, <2>1, <2>2 DEF HasEol, Exact
  <1>5. CASE close
    <2>1. PICK op \in CallOps : op = "close"
      BY DEF CallOps
    <2>2. PICK c \in CallRec : c = Begins(op) /\ c.op = op
      BY <1>1, BeginsFacts
    <2>3. IsOpen /\ \E r : Yield(self, c, reqs, r)
      BY <1>5, <2>1, <2>2 DEF close
    <2>. QED  BY <1>4, <2>1, <2>2, <2>3 DEF Transfers
  <1>6. CASE seek_end
    <2>1. PICK op \in CallOps : op = "seek_end"
      BY DEF CallOps
    <2>2. PICK o \in Int : /\ IsOpen
                           /\ \E r : Yield(self, [Begins(op) EXCEPT !.n = o], reqs, r)
      BY <1>6, <2>1, CofsAssumption DEF seek_end
    <2>3. PICK c \in CallRec : c = [Begins(op) EXCEPT !.n = o] /\ c.op = op
      BY <1>1, WithArguments
    <2>. QED  BY <1>4, <2>1, <2>2, <2>3 DEF Transfers
  <1>7. CASE call_fs
    <2>1. PICK op \in CallOps : op = "truncate"
      BY DEF CallOps
    <2>2. PICK o \in Int : /\ IsOpen
                           /\ \E r : Yield(self, [Begins(op) EXCEPT !.n = o], reqs, r)
      BY <1>7, <2>1, CofsAssumption DEF call_fs
    <2>3. PICK c \in CallRec : c = [Begins(op) EXCEPT !.n = o] /\ c.op = op
      BY <1>1, WithArguments
    <2>. QED  BY <1>4, <2>1, <2>2, <2>3 DEF Transfers
  <1>. QED  BY <1>1, <1>2, <1>3, <1>5, <1>6, <1>7


(* libuv carries out the request of a transfer.                            *)
LEMMA DoneData ==
  ASSUME NEW r \in ReqRec, r.live, NEW ok \in BOOLEAN, NEW size \in Nat, NEW q,
         q = Done(r, ok, size)
  PROVE  q.n = r.n /\ q.off = r.off /\ q.str = r.str /\ q.at = "done" /\ q.ok = ok
  <1>1. PICK d : d = [r EXCEPT !.at = "done", !.ok = ok, !.size = size]
    OBVIOUS
  <1>2. /\ d.n = r.n /\ d.off = r.off /\ d.str = r.str /\ d.at = "done" /\ d.ok = ok
        /\ d.live = r.live
    BY <1>1 DEF ReqRec
  <1>3. Done(r, ok, size) = d
    BY <1>1, <1>2 DEF Done, Spent
  <1>. QED  BY <1>2, <1>3

LEMMA WorkerExact ==
  ASSUME CofsInv, ExactInv, NEW i \in DOMAIN reqs, Worker(i)
  PROVE  HasEol(self', call') /\ Exact(self', call', reqs', disk')
  <1>1. self' = self /\ call' = call /\ HasEol(self, call)
    BY DEF Worker, ExactInv
  <1>2. SUFFICES ASSUME call.op \in Transfers, call.clean
                 PROVE  Exact(self, call, reqs', disk')
    BY <1>1 DEF Exact
  <1>3. PICK r \in ReqRec :
          /\ r = reqs[1] /\ i = 1 /\ Len(reqs) = 1 /\ reqs \in Seq(ReqRec) /\ r.live
          /\ call.op # "write" => r.op = "read" /\ ExactRead(self, call, r, disk)
          /\ call.op = "write" => r.op = "write" /\ ExactWrite(self, call, r, disk)
    BY <1>2, OneRequest
  <1>4. DOMAIN reqs = {1} /\ disk \in Bytes
    BY <1>3 DEF CofsInv
  <1>9. r \in ReqRec /\ r.live
    BY <1>3
  <1>5. ASSUME NEW q, reqs' = [reqs EXCEPT ![1] = q] \/ reqs' = [j \in {1} |-> q],
               call.op # "write" => ExactRead(self, call, q, disk'),
               call.op = "write" => ExactWrite(self, call, q, disk')
        PROVE  Exact(self, call, reqs', disk')
    <2>1. reqs' = <<q>>
      <3>1. [reqs EXCEPT ![1] = q] = [j \in {1} |-> q]
        BY <1>3, <1>4
      <3>2. [j \in 1..1 |-> q] = <<q>> /\ 1..1 = {1}
        OBVIOUS
      <3>. QED  BY <1>5, <3>1, <3>2
    <2>2. Len(reqs') = 1 /\ reqs'[1] = q
      BY <2>1
    <2>. QED  BY <1>5, <2>2 DEF Exact
  <1>6. CASE Finished(1, FALSE, 0) /\ disk' = disk
    <2>0. PICK q : q = Done(r, FALSE, 0)
      OBVIOUS
    <2>1. /\ q = Done(r, FALSE, 0) /\ q.n = r.n /\ q.off = r.off /\ q.str = r.str
          /\ q.ok = FALSE
      BY <1>9, <2>0, DoneData
    <2>2. reqs' = [reqs EXCEPT ![1] = q]
      BY <1>3, <1>6, <2>1 DEF Finished
    <2>3. call.op # "write" => ExactRead(self, call, q, disk')
      BY <1>3, <1>6, <2>1 DEF ExactRead
    <2>4. call.op = "write" => ExactWrite(self, call, q, disk')
      BY <1>3, <1>6, <2>1 DEF ExactWrite
    <2>. QED  BY <1>5, <2>2, <2>3, <2>4
  <1>7. CASE r.op = "read" /\ Filled(1, ReadAt(r.off, r.n)) /\ disk' = disk
    <2>1. PICK data : data = SubSeq(disk, r.off + 1, Least(r.off + r.n, Len(disk)))
      OBVIOUS
    <2>2. data = ReadAt(r.off, r.n) /\ data \in Bytes
      <3>1. r.off \in Nat /\ r.n \in Nat
        BY DEF ReqRec
      <3>. QED  BY <1>4, <2>1, <3>1, ReadAtBytes DEF ReadAt
    <2>3. PICK d : d = [r EXCEPT !.str = data]
      OBVIOUS
    <2>4. d \in ReqRec
      BY <2>2, <2>3 DEF ReqRec
    <2>5. d.n = r.n /\ d.off = r.off /\ d.str = data /\ d.live
      BY <1>3, <2>3 DEF ReqRec
    <2>0. PICK q : q = Done(d, TRUE, 0)
      OBVIOUS
    <2>6. /\ q = Done(d, TRUE, 0) /\ q.n = r.n /\ q.off = r.off /\ q.str = data
      BY <2>0, <2>4, <2>5, DoneData
    <2>7. reqs' = [j \in {1} |-> q]
      <3>1. reqs' = [j \in DOMAIN reqs |->
                       IF j = 1 THEN Done([reqs[1] EXCEPT !.str = data], TRUE, 0)
                       ELSE IF reqs[1].mine /\ reqs[j].op = "read" /\ reqs[j].at = "done"
                       THEN [reqs[j] EXCEPT !.str = Overlaid(@, data)]
                       ELSE reqs[j]]
        BY <1>7, <2>2 DEF Filled
      <3>2. Done([reqs[1] EXCEPT !.str = data], TRUE, 0) = q
        BY <1>3, <2>3, <2>6
      <3>. QED  BY <1>4, <3>1, <3>2
    <2>8. ExactRead(self, call, q, disk') /\ call.op # "write"
      BY <1>3, <1>7, <2>1, <2>6 DEF ExactRead
    <2>. QED  BY <1>5, <2>7, <2>8
  <1>8. CASE r.op = "write" /\ disk' = Put(disk, r.off, r.str) /\ Finished(1, TRUE, 0)
    <2>0. PICK q : q = Done(r, TRUE, 0)
      OBVIOUS
    <2>1. q = Done(r, TRUE, 0) /\ q.off = r.off /\ q.str = r.str
      BY <1>9, <2>0, DoneData
    <2>2. reqs' = [reqs EXCEPT ![1] = q]
      BY <1>3, <1>8, <2>1 DEF Finished
    <2>3. disk' = Put(disk', r.off, r.str)
      <3>1. r.off \in Nat /\ r.str \in Bytes
        BY DEF ReqRec
      <3>. QED  BY <1>4, <1>8, <3>1, PutTwice
    <2>4. call.op = "write" /\ ExactWrite(self, call, q, disk')
      BY <1>3, <1>8, <2>1, <2>3 DEF ExactWrite
    <2>. QED  BY <1>5, <2>2, <2>4
  <1>10. r.op \in {"read", "write"}
    BY <1>3
  <1>. QED  BY <1>3, <1>6, <1>7, <1>8, <1>10 DEF Worker

(* The callback of a call that is over does not meet a clean transfer.     *)
LEMMA LateExact ==
  ASSUME CofsInv, ExactInv, NEW i \in DOMAIN reqs, ~reqs[i].live, Late(i)
  PROVE  HasEol(self', call') /\ Exact(self', call', reqs', disk')
  <1>1. self' = self /\ call' = call /\ HasEol(self, call)
    BY DEF Late, ExactInv
  <1>2. ~(call.op \in Transfers /\ call.clean)
    BY OneRequest
  <1>. QED  BY <1>1, <1>2 DEF Exact

LEMMA InterruptExact ==
  ASSUME CofsInv, ExactInv, interrupt
  PROVE  HasEol(self', call') /\ Exact(self', call', reqs', disk') /\ Transferred
  <1>1. self \in SelfRec /\ call \in CallRec /\ call.op # "none"
    BY DEF CofsInv, Sound, interrupt
  <1>2. PICK err : Resume(self, Terminated(reqs), Nothing, err, "interrupt")
    BY DEF interrupt
  <1>3. Resumes(self, Nothing, err, "interrupt")
    BY <1>1, <1>2, ResumeShape
  <1>4. call' = NoCall /\ call'.op = "none" /\ got'.by = "interrupt"
    BY <1>3, NoCallFacts DEF Resumes
  <1>5. HasEol(self', call')
    BY <1>3, <1>4 DEF Resumes, HasEol, ExactInv
  <1>. QED  BY <1>4, <1>5 DEF Exact, Transfers, Transferred, Succeeds

LEMMA AnswerExact ==
  ASSUME CofsInv, ExactInv, NEW i \in DOMAIN reqs, reqs[i].at = "done", reqs[i].live,
         Answer(i)
  PROVE  HasEol(self', call') /\ Exact(self', call', reqs', disk') /\ Transferred
  <1>1. /\ self \in SelfRec /\ call \in CallRec /\ reqs \in Seq(ReqRec)
        /\ disk' = disk /\ HasEol(self, call)
    BY DEF CofsInv, Sound, Settled, Asked, ExactInv, Answer
  <1>2. call.op # "none"
    BY <1>1 DEF CofsInv, Sound, Settled
  <1>3. PICK r \in ReqRec : r = reqs[i]
    BY <1>1
  <1>4. ASSUME NEW s0 \in SelfRec, s0.eol = self.eol, s0.fd = self.fd, NEW ok, NEW err,
               Resumes(s0, ok, err, "self")
        PROVE  HasEol(self', call')
    BY <1>1, <1>4 DEF HasEol, Resumes
  <1>5. CASE ~r.ok
    <2>1. Resumes(self, Nothing, "error", "self")
      BY <1>1, <1>2, <1>3, <1>5, ResumeShape DEF Answer
    <2>2. call'.op = "none" /\ got'.err = "error" /\ "error" # Nothing
      BY <2>1, NoCallFacts, CofsAssumption DEF Resumes
    <2>3. HasEol(self', call')
      BY <1>1, <1>4, <2>1
    <2>. QED  BY <2>2, <2>3 DEF Exact, Transfers, Transferred, Succeeds
  <1>6. CASE r.ok
    <2>1. PICK s0 \in SelfRec : s0 = Moved(self, r) /\ s0.eol = self.eol /\ s0.fd = self.fd
      BY <1>1, MovedFacts
    <2>2. Resumes(s0, Value(r), Nothing, "self")
      BY <1>1, <1>2, <1>3, <1>6, <2>1, ResumeShape DEF Answer
    <2>3. HasEol(self', call')
      BY <1>4, <2>1, <2>2
    <2>4. CASE call.op \in {"read_n", "read_line"} /\ call.clean
      <3>1. Exact(self', call', reqs', disk) /\ (call'.op = "none" => Taken)
        BY <1>3, <1>6, <2>4, ReadAnswered
      <3>. QED  BY <1>1, <2>3, <2>4, <3>1 DEF Transferred, Succeeds, Returns
    <2>5. CASE call.op = "write" /\ call.clean
      <3>1. /\ call' = NoCall /\ self'.pos = call.from + Len(call.arg)
            /\ disk' = Put(disk, call.from, call.arg)
        BY <1>3, <1>6, <2>5, WriteAnswered
      <3>. QED  BY <2>3, <2>5, <3>1, NoCallFacts DEF Transferred, Exact, Transfers
    <2>6. CASE ~(call.op \in Transfers /\ call.clean)
      <3>1. ~(call'.op \in Transfers /\ call'.clean)
        BY <2>2, <2>6, NoCallFacts DEF Resumes, Transfers
      <3>. QED  BY <2>3, <2>6, <3>1 DEF Exact, Transferred, Transfers
    <2>. QED  BY <2>4, <2>5, <2>6 DEF Transfers
  <1>. QED  BY <1>5, <1>6

LEMMA ExactStep ==
  ASSUME CofsInv, ExactInv, [FileNext]_fileVars
  PROVE  ExactInv' /\ Transferred
  <1>1. ASSUME HasEol(self', call'), Exact(self', call', reqs', disk')
        PROVE  ExactInv'
    <2>1. HasEol(self, call)' /\ Exact(self, call, reqs, disk)'
      BY <1>1
    <2>. QED  BY <2>1 DEF ExactInv
  <1>2. CASE FileCalls
    <2>1. call.op = "none" /\ disk' = disk
      BY <1>2 DEF FileCalls, open, close, read_n, read_line, write_string, seek, seek_end,
                  call_fs, IsOpen, Idle
    <2>2. Transferred
      BY <2>1 DEF Transferred, Succeeds, Returns
    <2>3. HasEol(self', call') /\ Exact(self', call', reqs', disk)
      BY <1>2, TransferBegins, OtherBegins DEF FileCalls
    <2>. QED  BY <1>1, <2>1, <2>2, <2>3
  <1>3. CASE interrupt
    BY <1>1, <1>3, InterruptExact
  <1>4. ASSUME NEW i \in DOMAIN reqs, Worker(i)
        PROVE  ExactInv' /\ Transferred
    <2>1. call' = call
      BY <1>4 DEF Worker
    <2>2. Transferred
      BY <2>1 DEF Transferred, Succeeds, Returns
    <2>. QED  BY <1>1, <1>4, <2>2, WorkerExact
  <1>5. ASSUME NEW i \in DOMAIN reqs, callback(i)
        PROVE  ExactInv' /\ Transferred
    <2>1. CASE reqs[i].live /\ Answer(i)
      <3>1. reqs[i].at = "done"
        BY <1>5 DEF callback
      <3>. QED  BY <1>1, <1>5, <2>1, <3>1, AnswerExact
    <2>2. CASE ~reqs[i].live /\ Late(i)
      <3>1. call' = call
        BY <2>2 DEF Late
      <3>2. Transferred
        BY <3>1 DEF Transferred, Succeeds, Returns
      <3>. QED  BY <1>1, <1>5, <2>2, <3>2, LateExact
    <2>. QED  BY <1>5, <2>1, <2>2 DEF callback
  <1>6. CASE UNCHANGED fileVars
    <2>1. disk' = disk /\ reqs' = reqs /\ self' = self /\ call' = call
      BY <1>6 DEF fileVars
    <2>2. Transferred
      BY <2>1 DEF Transferred, Succeeds, Returns
    <2>. QED  BY <1>1, <2>1, <2>2 DEF ExactInv
  <1>. QED  BY <1>2, <1>3, <1>4, <1>5, <1>6 DEF FileNext

(* A transfer that meets no abandoned request is exact, however its bytes  *)
(* fall into chunks: a read returns the line, or as many bytes as it asked *)
(* for, at its position and leaves the position behind them, and a write   *)
(* has put its string there.                                               *)
THEOREM TransfersExact == FileSpec => TransfersAreExact
  <1>1. FileInit => ExactInv
    <2>1. NewSelf("none").fd = FALSE
      BY DEF NewSelf
    <2>. QED  BY <2>1, NoCallFacts DEF FileInit, ExactInv, HasEol, Exact, Transfers
  <1>2. CofsInv /\ ExactInv /\ [FileNext]_fileVars => ExactInv' /\ Transferred
    BY ExactStep
  <1>3. Transferred =>
          [Succeeds /\ call.clean =>
             /\ call.op \in {"read_n", "read_line"} =>
                  /\ self'.pos = call.from + Len(Wanted)
                  /\ got'.val = IF Wanted = << >> THEN Nothing ELSE Shown
             /\ call.op = "write" =>
                  /\ disk' = Put(disk, call.from, call.arg)
                  /\ self'.pos = call.from + Len(call.arg)]_fileVars
    BY DEF Transferred, Taken
  <1>. QED  BY <1>1, <1>2, <1>3, CofsInvariant, PTL DEF FileSpec, TransfersAreExact
=============================================================================
