--------------------------- MODULE LuaStringProofs --------------------------
(***************************************************************************)
(* Facts about strings and about lists of chunks, which the proofs about   *)
(* Buffer and about the files of cofs.lua share: what is cut from a string,*)
(* what all chunks together are, and that the first end of line of a       *)
(* string does not depend on what comes after it.                          *)
(*                                                                         *)
(* What holds for every number is proved by way of the least number for    *)
(* which it does not hold.                                                 *)
(***************************************************************************)
EXTENDS LuaString, SequencesExt, SequenceTheorems, WellFoundedInduction, TLAPS

Bytes  == Seq(Byte)
Chunks == Seq(Bytes)

(***************************************************************************)
(* Numbers and sequences.                                                  *)
(***************************************************************************)

(* A set of numbers has a least.                                           *)
LEMMA LeastNumber ==
  ASSUME NEW T \in SUBSET Nat, T # {}
  PROVE  \E m \in T : \A k \in T : m <= k
  <1>1. PICK R : R = OpToRel(<, Nat)
    OBVIOUS
  <1>2. IsWellFoundedOn(R, Nat)
    BY <1>1, NatLessThanWellFounded
  <1>3. PICK m \in T : \A k \in T : ~(<<k, m>> \in R)
    BY <1>2, WFMin
  <1>4. \A a, b \in Nat : a < b => <<a, b>> \in R
    BY <1>1 DEF OpToRel
  <1>5. ASSUME NEW k \in T
        PROVE  m <= k
    <2>1. k \in Nat /\ m \in Nat
      OBVIOUS
    <2>2. ~(k < m)
      BY <1>3, <1>4, <2>1
    <2>. QED  BY <2>1, <2>2
  <1>. QED  BY <1>5

(* So a set that has 0 and the successor of each of its numbers has all.   *)
LEMMA AllNumbers ==
  ASSUME NEW T, 0 \in T, \A n \in Nat : n \in T => n + 1 \in T
  PROVE  \A n \in Nat : n \in T
  <1>1. SUFFICES ASSUME Nat \ T # {}
                 PROVE  FALSE
    OBVIOUS
  <1>2. PICK m \in Nat \ T : \A k \in Nat \ T : m <= k
    BY <1>1, LeastNumber
  <1>3. m # 0 /\ m - 1 \in Nat
    BY <1>2
  <1>4. m - 1 \in T
    BY <1>2, <1>3
  <1>. QED  BY <1>2, <1>3, <1>4

(***************************************************************************)
(* Chunks.  flatten of FlattenSeq is a recursive function; that there is   *)
(* one has to be shown.                                                    *)
(***************************************************************************)
IsFlat(f, l) == f = [i \in 1..Len(l) |-> IF i = 1 THEN l[i] ELSE f[i - 1] \o l[i]]

LEMMA FlatExists ==
  ASSUME NEW l \in Chunks
  PROVE  \E f : IsFlat(f, l)
  <1>. DEFINE Partial(n, f) ==
                f = [i \in 1..n |-> IF i = 1 THEN l[i] ELSE f[i - 1] \o l[i]]
              T == {n \in Nat : \E f : Partial(n, f)}
  <1>1. 0 \in T
    <2>1. PICK f : f = [i \in 1..0 |-> l[i]]
      OBVIOUS
    <2>2. Partial(0, f)
      BY <2>1
    <2>. QED  BY <2>2
  <1>2. ASSUME NEW n \in Nat, n \in T
        PROVE  n + 1 \in T
    <2>1. PICK f : Partial(n, f)
      BY <1>2
    <2>. DEFINE g == [i \in 1..(n + 1) |->
                        IF i = 1 THEN l[i]
                        ELSE IF i = n + 1 THEN f[n] \o l[i] ELSE f[i]]
    <2>2. ASSUME NEW i \in 1..(n + 1), i # 1
          PROVE  g[i] = g[i - 1] \o l[i]
      <3>1. i - 1 \in 1..n /\ i - 1 \in 1..(n + 1) /\ i - 1 # n + 1
        BY <2>2
      <3>2. g[i - 1] = f[i - 1]
        <4>1. CASE i - 1 = 1
          BY <2>1, <3>1, <4>1
        <4>2. CASE i - 1 # 1
          BY <3>1, <4>2
        <4>. QED  BY <4>1, <4>2
      <3>3. CASE i = n + 1
        <4>1. n \in Nat /\ i - 1 = n /\ i \in 1..(n + 1)
          BY <3>3
        <4>2. g[i] = f[n] \o l[i]
          BY <2>2, <3>3, <4>1
        <4>. QED  BY <3>2, <4>1, <4>2
      <3>4. CASE i # n + 1
        <4>1. i \in 1..n
          BY <3>4
        <4>2. g[i] = f[i] /\ f[i] = f[i - 1] \o l[i]
          BY <2>1, <2>2, <3>4, <4>1
        <4>. QED  BY <3>2, <4>2
      <3>. QED  BY <3>3, <3>4
    <2>3. g = [i \in 1..(n + 1) |-> IF i = 1 THEN l[i] ELSE g[i - 1] \o l[i]]
      BY <2>2
    <2>4. Partial(n + 1, g)
      BY <2>3
    <2>. HIDE DEF Partial, g
    <2>. QED  BY <2>4
  <1>. HIDE DEF T
  <1>3. Len(l) \in T
    BY <1>1, <1>2, AllNumbers DEF Chunks
  <1>. QED  BY <1>3 DEF T, IsFlat

LEMMA FlatDef ==
  ASSUME NEW l \in Chunks
  PROVE  \E f : IsFlat(f, l) /\ FlattenSeq(l) = IF Len(l) = 0 THEN << >> ELSE f[Len(l)]
  <1>. DEFINE F == CHOOSE f : f = [i \in 1..Len(l) |->
                                     IF i = 1 THEN l[i] ELSE f[i - 1] \o l[i]]
  <1>1. IsFlat(F, l)
    BY FlatExists DEF IsFlat
  <1>2. FlattenSeq(l) = IF Len(l) = 0 THEN l ELSE F[Len(l)]
    BY DEF FlattenSeq
  <1>3. Len(l) = 0 => l = << >>
    BY DEF Chunks
  <1>. QED  BY <1>1, <1>2, <1>3

(* Two lists that begin in the same way are flattened in the same way.     *)
LEMMA FlatAgree ==
  ASSUME NEW l \in Chunks, NEW k \in Chunks, NEW f, NEW g,
         IsFlat(f, l), IsFlat(g, k),
         NEW n \in Nat, n <= Len(l), n <= Len(k), \A i \in 1..n : l[i] = k[i]
  PROVE  \A i \in 1..n : f[i] = g[i]
  <1>. DEFINE T == {i \in Nat : i \in 1..n => f[i] = g[i]}
  <1>1. 0 \in T
    OBVIOUS
  <1>2. ASSUME NEW i \in Nat, i \in T
        PROVE  i + 1 \in T
    <2>1. SUFFICES ASSUME i + 1 \in 1..n
                   PROVE  f[i + 1] = g[i + 1]
      OBVIOUS
    <2>2. i + 1 \in 1..Len(l) /\ i + 1 \in 1..Len(k) /\ l[i + 1] = k[i + 1]
      BY <2>1 DEF Chunks
    <2>3. CASE i = 0
      BY <2>2, <2>3 DEF IsFlat
    <2>4. CASE i # 0
      <3>1. i \in 1..n /\ i + 1 # 1 /\ (i + 1) - 1 = i
        BY <2>1, <2>4
      <3>2. f[i] = g[i]
        BY <1>2, <3>1
      <3>3. f[i + 1] = f[i] \o l[i + 1] /\ g[i + 1] = g[i] \o k[i + 1]
        BY <2>2, <3>1 DEF IsFlat
      <3>. QED  BY <2>2, <3>2, <3>3
    <2>. QED  BY <2>3, <2>4
  <1>. HIDE DEF T
  <1>3. \A i \in Nat : i \in T
    BY <1>1, <1>2, AllNumbers
  <1>. QED  BY <1>3 DEF T

LEMMA FlatType ==
  ASSUME NEW l \in Chunks, NEW f, IsFlat(f, l)
  PROVE  \A i \in 1..Len(l) : f[i] \in Bytes
  <1>. DEFINE T == {i \in Nat : i \in 1..Len(l) => f[i] \in Bytes}
  <1>1. 0 \in T
    OBVIOUS
  <1>2. ASSUME NEW i \in Nat, i \in T
        PROVE  i + 1 \in T
    <2>1. SUFFICES ASSUME i + 1 \in 1..Len(l)
                   PROVE  f[i + 1] \in Bytes
      OBVIOUS
    <2>2. l[i + 1] \in Bytes
      BY <2>1 DEF Chunks
    <2>3. CASE i = 0
      BY <2>1, <2>2, <2>3 DEF IsFlat
    <2>4. CASE i # 0
      <3>1. i \in 1..Len(l) /\ i + 1 # 1 /\ (i + 1) - 1 = i
        BY <2>1, <2>4 DEF Chunks
      <3>2. f[i] \in Bytes
        BY <1>2, <3>1
      <3>3. f[i + 1] = f[i] \o l[i + 1]
        BY <2>1, <3>1 DEF IsFlat
      <3>. QED  BY <2>2, <3>2, <3>3, ConcatProperties DEF Bytes
    <2>. QED  BY <2>3, <2>4
  <1>. HIDE DEF T
  <1>3. \A i \in Nat : i \in T
    BY <1>1, <1>2, AllNumbers
  <1>. QED  BY <1>3 DEF T, Chunks

LEMMA FlatEmpty == FlattenSeq(<< >>) = << >> /\ << >> \in Chunks /\ << >> \in Bytes
  <1>1. << >> \in Chunks /\ << >> \in Bytes /\ Len(<< >>) = 0
    BY DEF Chunks, Bytes
  <1>2. FlattenSeq(<< >>) = << >>
    BY <1>1 DEF FlattenSeq
  <1>. QED  BY <1>1, <1>2

LEMMA FlatBytes ==
  ASSUME NEW l \in Chunks
  PROVE  FlattenSeq(l) \in Bytes
  <1>1. PICK f : IsFlat(f, l) /\ FlattenSeq(l) = IF Len(l) = 0 THEN << >> ELSE f[Len(l)]
    BY FlatDef
  <1>2. CASE Len(l) = 0
    BY <1>1, <1>2, FlatEmpty
  <1>3. CASE Len(l) # 0
    <2>1. Len(l) \in 1..Len(l)
      BY <1>3 DEF Chunks
    <2>. QED  BY <1>1, <1>3, <2>1, FlatType
  <1>. QED  BY <1>2, <1>3

LEMMA FlatAppend ==
  ASSUME NEW l \in Chunks, NEW s \in Bytes
  PROVE  /\ Append(l, s) \in Chunks
         /\ FlattenSeq(Append(l, s)) = FlattenSeq(l) \o s
  <1>. DEFINE k == Append(l, s)
  <1>1. /\ k \in Chunks /\ Len(k) = Len(l) + 1 /\ Len(l) \in Nat
        /\ \A i \in 1..Len(l) : k[i] = l[i]
        /\ k[Len(l) + 1] = s
    BY AppendProperties DEF Chunks
  <1>. HIDE DEF k
  <1>2. PICK f : IsFlat(f, l) /\ FlattenSeq(l) = IF Len(l) = 0 THEN << >> ELSE f[Len(l)]
    BY FlatDef
  <1>3. PICK g : IsFlat(g, k) /\ FlattenSeq(k) = IF Len(k) = 0 THEN << >> ELSE g[Len(k)]
    BY <1>1, FlatDef
  <1>4. FlattenSeq(k) = g[Len(l) + 1]
    BY <1>1, <1>3
  <1>5. CASE Len(l) = 0
    <2>1. g[Len(l) + 1] = s
      BY <1>1, <1>3, <1>5 DEF IsFlat
    <2>. QED  BY <1>1, <1>2, <1>4, <1>5, <2>1, ConcatEmptySeq DEF k, Bytes
  <1>6. CASE Len(l) # 0
    <2>1. Len(l) \in 1..Len(l) /\ Len(l) + 1 \in 1..Len(k) /\ Len(l) + 1 # 1
          /\ (Len(l) + 1) - 1 = Len(l)
      BY <1>1, <1>6
    <2>2. g[Len(l) + 1] = g[Len(l)] \o k[Len(l) + 1]
      BY <1>3, <2>1 DEF IsFlat
    <2>3. \A i \in 1..Len(l) : l[i] = k[i]
      BY <1>1
    <2>4. \A i \in 1..Len(l) : f[i] = g[i]
      BY <1>1, <1>2, <1>3, <2>3, FlatAgree
    <2>. QED  BY <1>1, <1>2, <1>4, <1>6, <2>1, <2>2, <2>4 DEF k
  <1>. QED  BY <1>5, <1>6

LEMMA BytesAssociate ==
  ASSUME NEW x \in Bytes, NEW y \in Bytes, NEW z \in Bytes
  PROVE  (x \o y) \o z = x \o (y \o z)
  BY ConcatAssociative, SMTT(30) DEF Bytes

LEMMA ChunksAssociate ==
  ASSUME NEW x \in Chunks, NEW y \in Chunks, NEW z \in Chunks
  PROVE  (x \o y) \o z = x \o (y \o z)
  BY ConcatAssociative, SMTT(30) DEF Chunks

LEMMA FlatConcat ==
  ASSUME NEW l \in Chunks, NEW m \in Chunks
  PROVE  l \o m \in Chunks /\ FlattenSeq(l \o m) = FlattenSeq(l) \o FlattenSeq(m)
  <1>. DEFINE T == {n \in Nat : \A k \in Chunks : Len(k) = n =>
                      FlattenSeq(l \o k) = FlattenSeq(l) \o FlattenSeq(k)}
  <1>1. 0 \in T
    <2>. SUFFICES ASSUME NEW k \in Chunks, Len(k) = 0
                  PROVE  FlattenSeq(l \o k) = FlattenSeq(l) \o FlattenSeq(k)
      OBVIOUS
    <2>1. k = << >>
      BY DEF Chunks
    <2>2. l \o << >> = l
      BY ConcatEmptySeq DEF Chunks
    <2>3. FlattenSeq(l) \o << >> = FlattenSeq(l)
      BY FlatBytes, ConcatEmptySeq DEF Bytes
    <2>. QED  BY <2>1, <2>2, <2>3, FlatEmpty
  <1>2. ASSUME NEW n \in Nat, n \in T
        PROVE  n + 1 \in T
    <2>. SUFFICES ASSUME NEW k \in Chunks, Len(k) = n + 1
                  PROVE  FlattenSeq(l \o k) = FlattenSeq(l) \o FlattenSeq(k)
      OBVIOUS
    <2>1. PICK h \in Chunks, e \in Bytes : k = Append(h, e)
      <3>1. k # << >>
        BY DEF Chunks
      <3>. QED  BY <3>1, SequenceEmptyOrAppend DEF Chunks
    <2>2. Len(h) = n
      BY <2>1 DEF Chunks
    <2>3. /\ FlattenSeq(l \o h) = FlattenSeq(l) \o FlattenSeq(h)
          /\ FlattenSeq(k) = FlattenSeq(h) \o e
      BY <1>2, <2>1, <2>2, FlatAppend
    <2>4. l \o h \in Chunks
      BY ConcatProperties DEF Chunks
    <2>5. l \o k = Append(l \o h, e)
      <3>1. k = h \o <<e>> /\ Append(l \o h, e) = (l \o h) \o <<e>> /\ <<e>> \in Chunks
        BY <2>1, <2>4, AppendIsConcat DEF Chunks
      <3>2. (l \o h) \o <<e>> = l \o (h \o <<e>>)
        BY <3>1, ChunksAssociate, SMTT(30)
      <3>. QED  BY <3>1, <3>2
    <2>6. FlattenSeq(l \o k) = FlattenSeq(l \o h) \o e
      BY <2>4, <2>5, FlatAppend
    <2>7. FlattenSeq(l) \in Bytes /\ FlattenSeq(h) \in Bytes
      BY FlatBytes
    <2>8. (FlattenSeq(l) \o FlattenSeq(h)) \o e = FlattenSeq(l) \o (FlattenSeq(h) \o e)
      BY <2>7, BytesAssociate
    <2>. QED  BY <2>3, <2>6, <2>8
  <1>. HIDE DEF T
  <1>3. Len(m) \in T
    BY <1>1, <1>2, AllNumbers DEF Chunks
  <1>4. l \o m \in Chunks
    BY ConcatProperties DEF Chunks
  <1>. QED  BY <1>3, <1>4 DEF T

(***************************************************************************)
(* Cutting a sequence in two, and a list of chunks.                        *)
(***************************************************************************)
LEMMA CutSeq ==
  ASSUME NEW S, NEW s \in Seq(S), NEW i \in 0..Len(s)
  PROVE  /\ Upto(s, i) \in Seq(S) /\ Len(Upto(s, i)) = i
         /\ From(s, i + 1) \in Seq(S) /\ Len(From(s, i + 1)) = Len(s) - i
         /\ \A k \in 1..i : Upto(s, i)[k] = s[k]
         /\ \A k \in 1..(Len(s) - i) : From(s, i + 1)[k] = s[i + k]
         /\ Upto(s, i) \o From(s, i + 1) = s
  <1>1. Len(s) \in Nat /\ i \in Nat /\ i + 1 \in Int /\ \A k \in 1..Len(s) : s[k] \in S
    OBVIOUS
  <1>2. /\ Upto(s, i) \in Seq(S) /\ Len(Upto(s, i)) = i
        /\ \A k \in 1..i : Upto(s, i)[k] = s[k]
    <2>1. \A k \in 1..i : s[k] \in S
      BY <1>1
    <2>2. /\ SubSeq(s, 1, i) \in Seq(S)
          /\ Len(SubSeq(s, 1, i)) = IF 1 <= i THEN i - 1 + 1 ELSE 0
          /\ \A k \in 1..(i - 1 + 1) : SubSeq(s, 1, i)[k] = s[1 + k - 1]
      BY <1>1, <2>1, SubSeqProperties
    <2>. QED  BY <1>1, <2>2 DEF Upto
  <1>3. /\ From(s, i + 1) \in Seq(S) /\ Len(From(s, i + 1)) = Len(s) - i
        /\ \A k \in 1..(Len(s) - i) : From(s, i + 1)[k] = s[i + k]
    <2>1. \A k \in (i + 1)..Len(s) : s[k] \in S
      BY <1>1
    <2>2. /\ SubSeq(s, i + 1, Len(s)) \in Seq(S)
          /\ Len(SubSeq(s, i + 1, Len(s))) =
               IF i + 1 <= Len(s) THEN Len(s) - (i + 1) + 1 ELSE 0
          /\ \A k \in 1..(Len(s) - (i + 1) + 1) :
               SubSeq(s, i + 1, Len(s))[k] = s[(i + 1) + k - 1]
      BY <1>1, <2>1, SubSeqProperties
    <2>3. \A k \in 1..(Len(s) - i) :
             k \in 1..(Len(s) - (i + 1) + 1) /\ (i + 1) + k - 1 = i + k
      BY <1>1
    <2>. QED  BY <1>1, <2>2, <2>3 DEF From
  <1>4. Upto(s, i) \o From(s, i + 1) = s
    <2>1. 1 \in 1..(Len(s) + 1) /\ i \in (1 - 1)..Len(s) /\ Len(s) \in i..Len(s)
      BY <1>1
    <2>2. SubSeq(s, 1, i) \o SubSeq(s, i + 1, Len(s)) = SubSeq(s, 1, Len(s))
      BY <2>1, ConcatAdjacentSubSeq
    <2>3. SubSeq(s, 1, Len(s)) = s
      BY SubSeqFull
    <2>. QED  BY <2>2, <2>3 DEF Upto, From
  <1>. QED  BY <1>2, <1>3, <1>4

(* What was joined can be cut again.                                       *)
LEMMA CutConcat ==
  ASSUME NEW a \in Bytes, NEW b \in Bytes
  PROVE  /\ a \o b \in Bytes /\ Len(a \o b) = Len(a) + Len(b)
         /\ Len(a) \in Nat /\ Len(b) \in Nat
         /\ Upto(a \o b, Len(a)) = a /\ From(a \o b, Len(a) + 1) = b
  <1>. DEFINE s == a \o b
  <1>1. /\ s \in Bytes /\ Len(s) = Len(a) + Len(b)
        /\ \A k \in 1..(Len(a) + Len(b)) :
             s[k] = IF k <= Len(a) THEN a[k] ELSE b[k - Len(a)]
    BY ConcatProperties DEF Bytes
  <1>. HIDE DEF s
  <1>2. PICK n \in 0..Len(s) : n = Len(a) /\ n \in Nat /\ Len(b) = Len(s) - n /\ Len(b) \in Nat
    <2>1. Len(a) \in Nat /\ Len(b) \in Nat
      BY DEF Bytes
    <2>. QED  BY <1>1, <2>1
  <1>3. /\ Upto(s, n) \in Bytes /\ Len(Upto(s, n)) = n
        /\ From(s, n + 1) \in Bytes /\ Len(From(s, n + 1)) = Len(b)
        /\ \A k \in 1..n : Upto(s, n)[k] = s[k]
        /\ \A k \in 1..Len(b) : From(s, n + 1)[k] = s[n + k]
    <2>1. s \in Seq(Byte) /\ n \in 0..Len(s)
      BY <1>1, <1>2 DEF Bytes
    <2>2. /\ Upto(s, n) \in Seq(Byte) /\ Len(Upto(s, n)) = n
          /\ From(s, n + 1) \in Seq(Byte) /\ Len(From(s, n + 1)) = Len(s) - n
          /\ \A k \in 1..n : Upto(s, n)[k] = s[k]
          /\ \A k \in 1..(Len(s) - n) : From(s, n + 1)[k] = s[n + k]
      BY ONLY <2>1, CutSeq
    <2>. QED  BY <1>2, <2>2 DEF Bytes
  <1>4. \A k \in 1..n : Upto(s, n)[k] = a[k]
    BY <1>1, <1>2, <1>3
  <1>5. \A k \in 1..Len(b) : From(s, n + 1)[k] = b[k]
    <2>1. \A k \in 1..Len(b) : /\ n + k \in 1..(Len(a) + Len(b))
                               /\ ~(n + k <= Len(a)) /\ (n + k) - Len(a) = k
      BY <1>2
    <2>. QED  BY <1>1, <1>3, <2>1
  <1>6. Upto(s, n) = a
    BY <1>2, <1>3, <1>4, SeqEqual DEF Bytes
  <1>7. From(s, n + 1) = b
    BY <1>3, <1>5, SeqEqual DEF Bytes
  <1>. QED  BY <1>1, <1>2, <1>6, <1>7 DEF s

LEMMA ConcatBytes ==
  ASSUME NEW a \in Bytes, NEW b \in Bytes, NEW c \in Bytes
  PROVE  a \o b \in Bytes /\ (a \o b) \o c = a \o (b \o c)
  <1>1. a \o b \in Bytes
    BY ConcatProperties DEF Bytes
  <1>. QED  BY <1>1, BytesAssociate, SMTT(30)

(* All chunks but the first i.                                             *)
LEMMA FlatCut ==
  ASSUME NEW l \in Chunks, NEW i \in 0..Len(l)
  PROVE  /\ Upto(l, i) \in Chunks /\ From(l, i + 1) \in Chunks
         /\ FlattenSeq(Upto(l, i)) \in Bytes /\ FlattenSeq(From(l, i + 1)) \in Bytes
         /\ FlattenSeq(l) = FlattenSeq(Upto(l, i)) \o FlattenSeq(From(l, i + 1))
  <1>1. /\ Upto(l, i) \in Chunks /\ From(l, i + 1) \in Chunks
        /\ Upto(l, i) \o From(l, i + 1) = l
    BY CutSeq DEF Chunks
  <1>. QED  BY <1>1, FlatConcat, FlatBytes

LEMMA FlatOne ==
  ASSUME NEW s \in Bytes
  PROVE  <<s>> \in Chunks /\ FlattenSeq(<<s>>) = s
  <1>1. Append(<< >>, s) = <<s>>
    OBVIOUS
  <1>2. << >> \o s = s
    BY ConcatEmptySeq DEF Bytes
  <1>. QED  BY <1>1, <1>2, FlatEmpty, FlatAppend

(* Chunk i after those before it.                                          *)
LEMMA FlatNext ==
  ASSUME NEW l \in Chunks, NEW i \in 1..Len(l)
  PROVE  FlattenSeq(Upto(l, i)) = FlattenSeq(Upto(l, i - 1)) \o l[i]
  <1>1. 1 \in 1..Len(l) /\ i - 1 \in 0..Len(l) /\ Len(l) \in Nat
    BY DEF Chunks
  <1>2. SubSeq(l, 1, i) = SubSeq(l, 1, i - 1) \o <<l[i]>>
    BY <1>1, SubSeqRecursiveSecond DEF Chunks
  <1>3. Upto(l, i) = Upto(l, i - 1) \o <<l[i]>>
    BY <1>2 DEF Upto
  <1>4. PICK a \in Chunks : a = Upto(l, i - 1)
    <2>1. PICK n \in 0..Len(l) : n = i - 1
      BY <1>1
    <2>2. Upto(l, n) \in Chunks
      BY CutSeq DEF Chunks
    <2>. QED  BY <2>1, <2>2
  <1>5. PICK b \in Bytes : b = l[i]
    BY DEF Chunks
  <1>6. <<b>> \in Chunks /\ FlattenSeq(<<b>>) = b
    BY FlatOne
  <1>7. FlattenSeq(a \o <<b>>) = FlattenSeq(a) \o b
    BY <1>6, FlatConcat
  <1>. QED  BY <1>3, <1>4, <1>5, <1>7

(* A byte that is in no chunk.                                             *)
Lacks(s, b) == \A k \in 1..Len(s) : s[k] # b

LEMMA LacksConcat ==
  ASSUME NEW s \in Bytes, NEW t \in Bytes, NEW b
  PROVE  Lacks(s \o t, b) <=> Lacks(s, b) /\ Lacks(t, b)
  <1>. DEFINE u == s \o t
  <1>1. /\ u \in Bytes /\ Len(u) = Len(s) + Len(t)
        /\ \A k \in 1..(Len(s) + Len(t)) :
             u[k] = IF k <= Len(s) THEN s[k] ELSE t[k - Len(s)]
    BY ConcatProperties DEF Bytes
  <1>. HIDE DEF u
  <1>2. Len(s) \in Nat /\ Len(t) \in Nat
    BY DEF Bytes
  <1>3. ASSUME Lacks(u, b)
        PROVE  Lacks(s, b) /\ Lacks(t, b)
    <2>1. ASSUME NEW k \in 1..Len(s)
          PROVE  s[k] # b
      BY <1>1, <1>2, <1>3 DEF Lacks
    <2>2. ASSUME NEW k \in 1..Len(t)
          PROVE  t[k] # b
      <3>1. PICK j \in 1..(Len(s) + Len(t)) : j = Len(s) + k
        BY <1>2
      <3>2. u[j] = t[k]
        BY <1>1, <1>2, <3>1
      <3>. QED  BY <1>1, <1>3, <3>2 DEF Lacks
    <2>. QED  BY <2>1, <2>2 DEF Lacks
  <1>4. ASSUME Lacks(s, b), Lacks(t, b), NEW k \in 1..Len(u)
        PROVE  u[k] # b
    <2>1. CASE k <= Len(s)
      BY <1>1, <1>2, <1>4, <2>1 DEF Lacks
    <2>2. CASE ~(k <= Len(s))
      <3>1. PICK j \in 1..Len(t) : j = k - Len(s)
        BY <1>1, <1>2, <2>2
      <3>. QED  BY <1>1, <1>4, <2>2, <3>1 DEF Lacks
    <2>. QED  BY <2>1, <2>2
  <1>5. Lacks(s, b) /\ Lacks(t, b) => Lacks(u, b)
    BY <1>4 DEF Lacks
  <1>. QED  BY <1>3, <1>5 DEF u

LEMMA FlatLacks ==
  ASSUME NEW l \in Chunks, NEW b, \A i \in 1..Len(l) : Lacks(l[i], b)
  PROVE  Lacks(FlattenSeq(l), b)
  <1>. DEFINE T == {n \in Nat : n <= Len(l) => Lacks(FlattenSeq(Upto(l, n)), b)}
  <1>1. 0 \in T
    <2>1. Upto(l, 0) = << >>
      BY SubSeqEmpty DEF Upto
    <2>. QED  BY <2>1, FlatEmpty DEF Lacks
  <1>2. ASSUME NEW n \in Nat, n \in T
        PROVE  n + 1 \in T
    <2>. SUFFICES ASSUME n + 1 <= Len(l)
                  PROVE  Lacks(FlattenSeq(Upto(l, n + 1)), b)
      OBVIOUS
    <2>1. PICK i \in 1..Len(l) : i = n + 1 /\ i - 1 = n /\ n \in 0..Len(l)
      BY DEF Chunks
    <2>2. FlattenSeq(Upto(l, i)) = FlattenSeq(Upto(l, n)) \o l[i]
      BY <2>1, FlatNext
    <2>3. FlattenSeq(Upto(l, n)) \in Bytes /\ l[i] \in Bytes
      BY <2>1, FlatCut DEF Chunks
    <2>4. Lacks(FlattenSeq(Upto(l, n)), b) /\ Lacks(l[i], b)
      BY <1>2, <2>1
    <2>5. Lacks(FlattenSeq(Upto(l, n)) \o l[i], b)
      BY <2>3, <2>4, LacksConcat
    <2>6. Upto(l, n + 1) = Upto(l, i)
      BY <2>1
    <2>. QED  BY <2>2, <2>5, <2>6
  <1>. HIDE DEF T
  <1>3. Len(l) \in Nat /\ Len(l) \in T
    BY <1>1, <1>2, AllNumbers DEF Chunks
  <1>4. Upto(l, Len(l)) = l
    BY SubSeqFull DEF Upto, Chunks
  <1>. QED  BY <1>3, <1>4 DEF T

(***************************************************************************)
(* Ends of line.                                                           *)
(***************************************************************************)

LEMMA MatchCases ==
  ASSUME NEW s, NEW i, NEW j
  PROVE  /\ Matches(s, "n", i, j) <=> s[j] = "n" /\ i = j
         /\ Matches(s, "rn", i, j) <=> s[j] = "n" /\ i = j - 1 /\ s[i] = "r"
         /\ Matches(s, "r*n", i, j) <=>
              s[j] = "n" /\ i <= j /\ \A k \in i..(j - 1) : s[k] = "r"
  <1>1. Matches(s, "n", i, j) <=> s[j] = "n" /\ i = j
    BY DEF Matches
  <1>2. Matches(s, "rn", i, j) <=> s[j] = "n" /\ i = j - 1 /\ s[i] = "r"
    BY DEF Matches
  <1>3. Matches(s, "r*n", i, j) <=>
              s[j] = "n" /\ i <= j /\ \A k \in i..(j - 1) : s[k] = "r"
    BY DEF Matches
  <1>. QED  BY <1>1, <1>2, <1>3

(* A match is a stretch of the string, and depends on it alone: d says how *)
(* far the stretch of u that is the same is from that of s.                *)
LEMMA MatchShift ==
  ASSUME NEW s, NEW u, NEW eol \in Eols, NEW i \in Int, NEW j \in Int, NEW d \in Int,
         i <= j, \A k \in i..j : u[k + d] = s[k]
  PROVE  Matches(s, eol, i, j) <=> Matches(u, eol, i + d, j + d)
  <1>1. u[j + d] = s[j] /\ u[i + d] = s[i] /\ (i + d = j + d <=> i = j)
    <2>1. i \in i..j /\ j \in i..j
      OBVIOUS
    <2>. QED  BY <2>1
  <1>2. CASE eol = "n"
    BY <1>1, <1>2 DEF Matches
  <1>3. CASE eol = "rn"
    <2>1. i + d = (j + d) - 1 <=> i = j - 1
      OBVIOUS
    <2>. QED  BY <1>1, <1>3, <2>1 DEF Matches
  <1>4. CASE eol = "r*n"
    <2>1. ASSUME \A k \in i..(j - 1) : s[k] = "r", NEW k \in (i + d)..((j + d) - 1)
          PROVE  u[k] = "r"
      <3>1. PICK h \in i..j : h = k - d /\ h \in i..(j - 1) /\ h + d = k
        OBVIOUS
      <3>2. u[h + d] = s[h]
        OBVIOUS
      <3>. QED  BY <2>1, <3>1, <3>2
    <2>2. ASSUME \A k \in (i + d)..((j + d) - 1) : u[k] = "r", NEW k \in i..(j - 1)
          PROVE  s[k] = "r"
      <3>1. PICK h \in (i + d)..((j + d) - 1) : h = k + d
        OBVIOUS
      <3>2. k \in i..j /\ u[k + d] = s[k]
        OBVIOUS
      <3>. QED  BY <2>2, <3>1, <3>2
    <2>3. (\A k \in i..(j - 1) : s[k] = "r") <=>
          (\A k \in (i + d)..((j + d) - 1) : u[k] = "r")
      BY <2>1, <2>2
    <2>4. i <= j /\ i + d <= j + d
      OBVIOUS
    <2>. QED  BY <1>1, <1>4, <2>3, <2>4 DEF Matches
  <1>. QED  BY <1>2, <1>3, <1>4 DEF Eols

(* The pairs of MatchesOf, by number.                                      *)
LEMMA MatchFacts ==
  ASSUME NEW s \in Bytes, NEW eol \in Eols, NEW i, NEW j
  PROVE  /\ <<i, j>> \in MatchesOf(s, eol) <=>
              i \in 1..Len(s) /\ j \in 1..Len(s) /\ Matches(s, eol, i, j)
         /\ <<i, j>> \in MatchesOf(s, eol) => i <= j /\ s[j] = "n"
  <1>1. <<i, j>> \in MatchesOf(s, eol) <=>
          i \in 1..Len(s) /\ j \in 1..Len(s) /\ Matches(s, eol, i, j)
    BY DEF MatchesOf
  <1>2. ASSUME i \in Int, j \in Int, Matches(s, eol, i, j)
        PROVE  i <= j /\ s[j] = "n"
    <2>1. CASE eol = "n"
      BY <1>2, <2>1, MatchCases
    <2>2. CASE eol = "rn"
      BY <1>2, <2>2, MatchCases
    <2>3. CASE eol = "r*n"
      BY <1>2, <2>3, MatchCases
    <2>. QED  BY <2>1, <2>2, <2>3 DEF Eols
  <1>3. \A k \in 1..Len(s) : k \in Int
    OBVIOUS
  <1>. QED  BY <1>1, <1>2, <1>3

(* Where a match begins says where it ends.                                *)
LEMMA OneEnd ==
  ASSUME NEW s \in Bytes, NEW eol \in Eols, NEW i, NEW j, NEW k,
         <<i, j>> \in MatchesOf(s, eol), <<i, k>> \in MatchesOf(s, eol)
  PROVE  j = k
  <1>1. /\ i \in Int /\ j \in Int /\ k \in Int /\ i <= j /\ i <= k
        /\ s[j] = "n" /\ s[k] = "n" /\ Matches(s, eol, i, j) /\ Matches(s, eol, i, k)
    BY MatchFacts
  <1>2. CASE eol = "n"
    BY <1>1, <1>2, MatchCases
  <1>4. CASE eol = "rn"
    <2>1. i = j - 1 /\ i = k - 1
      BY <1>1, <1>4, MatchCases
    <2>. QED  BY <1>1, <2>1
  <1>3. CASE eol = "r*n"
    <2>1. /\ \A h \in i..(j - 1) : s[h] = "r"
          /\ \A h \in i..(k - 1) : s[h] = "r"
      BY <1>1, <1>3, MatchCases
    <2>2. ~(j < k)
      <3>1. j < k => j \in i..(k - 1)
        BY <1>1
      <3>. QED  BY <1>1, <2>1, <3>1
    <2>3. ~(k < j)
      <3>1. k < j => k \in i..(j - 1)
        BY <1>1
      <3>. QED  BY <1>1, <2>1, <3>1
    <2>. QED  BY <1>1, <2>2, <2>3
  <1>. QED  BY <1>2, <1>3, <1>4 DEF Eols

(* What Find returns is the leftmost match, and no other match is.         *)
IsFirst(s, eol, i, j) ==
  /\ <<i, j>> \in MatchesOf(s, eol)
  /\ \A h, k : <<h, k>> \in MatchesOf(s, eol) => i <= h

LEMMA FindFacts ==
  ASSUME NEW s \in Bytes, NEW eol \in Eols, Has(s, eol)
  PROVE  \E i, j \in 1..Len(s) : /\ Find(s, eol) = <<i, j>> /\ i <= j
                                 /\ IsFirst(s, eol, i, j)
  <1>. DEFINE M == MatchesOf(s, eol)
              B == {h \in 1..Len(s) : \E k \in 1..Len(s) : <<h, k>> \in M}
  <1>1. \A o \in M : o = <<o[1], o[2]>> /\ o[1] \in 1..Len(s) /\ o[2] \in 1..Len(s)
    BY DEF MatchesOf
  <1>2. B \in SUBSET Nat /\ B # {}
    <2>1. PICK o : o \in M
      BY DEF Has
    <2>. QED  BY <1>1, <2>1
  <1>3. PICK i \in B : \A h \in B : i <= h
    BY <1>2, LeastNumber
  <1>4. PICK k \in 1..Len(s) : <<i, k>> \in M
    BY <1>3
  <1>5. \A o \in M : o[1] \in B
    BY <1>1
  <1>. HIDE DEF M, B
  <1>6. \E m \in M : \A o \in M : m[1] <= o[1]
    BY <1>3, <1>4, <1>5
  <1>7. Find(s, eol) \in M /\ \A o \in M : Find(s, eol)[1] <= o[1]
    BY <1>6 DEF Find, M
  <1>8. PICK a, b \in 1..Len(s) : Find(s, eol) = <<a, b>>
    BY <1>1, <1>7
  <1>9. <<a, b>> \in M /\ \A h, l : <<h, l>> \in M => a <= h
    BY <1>7, <1>8
  <1>10. a <= b
    BY <1>9, MatchFacts DEF M
  <1>. QED  BY <1>8, <1>9, <1>10 DEF M, IsFirst

LEMMA FirstIsFind ==
  ASSUME NEW s \in Bytes, NEW eol \in Eols, NEW i, NEW j, IsFirst(s, eol, i, j)
  PROVE  Has(s, eol) /\ Find(s, eol) = <<i, j>>
  <1>1. Has(s, eol)
    BY DEF Has, IsFirst
  <1>2. PICK a, b \in 1..Len(s) : Find(s, eol) = <<a, b>> /\ IsFirst(s, eol, a, b)
    BY <1>1, FindFacts
  <1>3. i <= a /\ a <= i /\ i \in 1..Len(s)
    BY <1>2, MatchFacts DEF IsFirst
  <1>4. a = i
    BY <1>3
  <1>5. b = j
    BY <1>2, <1>4, OneEnd DEF IsFirst
  <1>. QED  BY <1>1, <1>2, <1>4, <1>5

(* Without a newline there is no end of line; with one there is, unless it *)
(* has to come after a carriage return.                                    *)
LEMMA NoNewline ==
  ASSUME NEW s \in Bytes, NEW eol \in Eols
  PROVE  /\ Lacks(s, "n") => ~Has(s, eol)
         /\ ~Lacks(s, "n") /\ eol # "rn" => Has(s, eol)
  <1>1. ASSUME Lacks(s, "n"), Has(s, eol)
        PROVE  FALSE
    <2>1. PICK i, j \in 1..Len(s) : <<i, j>> \in MatchesOf(s, eol)
      BY <1>1, FindFacts DEF IsFirst
    <2>2. s[j] = "n"
      BY <2>1, MatchFacts
    <2>. QED  BY <1>1, <2>2 DEF Lacks
  <1>2. ASSUME ~Lacks(s, "n"), eol # "rn"
        PROVE  Has(s, eol)
    <2>1. PICK j \in 1..Len(s) : s[j] = "n"
      BY <1>2 DEF Lacks
    <2>2. j \in Int
      OBVIOUS
    <2>3. CASE eol = "n"
      <3>1. Matches(s, eol, j, j)
        BY <2>1, <2>3, MatchCases
      <3>2. <<j, j>> \in MatchesOf(s, eol)
        BY <3>1, MatchFacts
      <3>. QED  BY <3>2 DEF Has
    <2>4. CASE eol = "r*n"
      <3>1. \A k \in j..(j - 1) : s[k] = "r"
        BY <2>2
      <3>2. Matches(s, eol, j, j)
        BY <2>1, <2>2, <2>4, <3>1, MatchCases
      <3>3. <<j, j>> \in MatchesOf(s, eol)
        BY <3>2, MatchFacts
      <3>. QED  BY <3>3 DEF Has
    <2>. QED  BY <1>2, <2>3, <2>4 DEF Eols
  <1>. QED  BY <1>1, <1>2

(* The first end of line stays the first, whatever comes after it.         *)
LEMMA FindPrefix ==
  ASSUME NEW s \in Bytes, NEW t \in Bytes, NEW eol \in Eols, Has(s, eol)
  PROVE  Has(s \o t, eol) /\ Find(s \o t, eol) = Find(s, eol)
  <1>. DEFINE u == s \o t
  <1>1. /\ u \in Bytes /\ Len(u) = Len(s) + Len(t)
        /\ Len(s) \in Nat /\ Len(t) \in Nat
        /\ \A k \in 1..Len(s) : u[k] = s[k]
    <2>1. /\ u \in Bytes /\ Len(u) = Len(s) + Len(t)
          /\ \A k \in 1..(Len(s) + Len(t)) :
               u[k] = IF k <= Len(s) THEN s[k] ELSE t[k - Len(s)]
      BY ConcatProperties DEF Bytes
    <2>2. Len(s) \in Nat /\ Len(t) \in Nat
      BY DEF Bytes
    <2>. QED  BY <2>1, <2>2
  <1>. HIDE DEF u
  <1>2. PICK i, j \in 1..Len(s) : Find(s, eol) = <<i, j>> /\ i <= j /\ IsFirst(s, eol, i, j)
    BY FindFacts
  <1>3. ASSUME NEW h \in 1..Len(s), NEW k \in 1..Len(s), h <= k
        PROVE  <<h, k>> \in MatchesOf(s, eol) <=> <<h, k>> \in MatchesOf(u, eol)
    <2>1. h \in Int /\ k \in Int /\ h + 0 = h /\ k + 0 = k
      OBVIOUS
    <2>2. \A l \in h..k : u[l + 0] = s[l]
      <3>1. \A l \in h..k : l + 0 = l /\ l \in 1..Len(s)
        BY <1>1
      <3>. QED  BY <1>1, <3>1
    <2>3. Matches(s, eol, h, k) <=> Matches(u, eol, h + 0, k + 0)
      <3>1. PICK d \in Int : d = 0
        OBVIOUS
      <3>2. \A l \in h..k : u[l + d] = s[l]
        BY <2>2, <3>1
      <3>3. Matches(s, eol, h, k) <=> Matches(u, eol, h + d, k + d)
        BY <1>3, <2>1, <3>2, MatchShift
      <3>. QED  BY <3>1, <3>3
    <2>4. h \in 1..Len(u) /\ k \in 1..Len(u)
      BY <1>1
    <2>. QED  BY <1>1, <2>1, <2>3, <2>4, MatchFacts
  <1>4. <<i, j>> \in MatchesOf(u, eol)
    BY <1>2, <1>3 DEF IsFirst
  <1>5. PICK a, b \in 1..Len(u) : a <= b /\ Find(u, eol) = <<a, b>> /\ IsFirst(u, eol, a, b)
    <2>1. Has(u, eol)
      BY <1>4 DEF Has
    <2>. QED  BY <1>1, <2>1, FindFacts
  <1>6. a <= i /\ u[j] = "n"
    BY <1>1, <1>4, <1>5, MatchFacts DEF IsFirst
  <1>7. b <= Len(s)
    <2>1. SUFFICES ASSUME b > Len(s)
                   PROVE  FALSE
      BY <1>1
    <2>2. a <= j /\ j < b
      BY <1>1, <1>2, <1>6, <2>1
    <2>3. Matches(u, eol, a, b)
      BY <1>1, <1>5, MatchFacts DEF IsFirst
    <2>4. CASE eol = "n"
      <3>1. a = b
        BY <2>3, <2>4, MatchCases
      <3>. QED  BY <1>1, <2>2, <3>1
    <2>5. CASE eol = "rn"
      <3>1. a = b - 1 /\ i = j - 1
        <4>1. Matches(s, eol, i, j)
          BY <1>2, MatchFacts DEF IsFirst
        <4>. QED  BY <2>3, <2>5, <4>1, MatchCases
      <3>. QED  BY <1>1, <1>2, <1>6, <2>2, <3>1
    <2>6. CASE eol = "r*n"
      <3>1. \A k \in a..(b - 1) : u[k] = "r"
        BY <2>3, <2>6, MatchCases
      <3>2. j \in a..(b - 1)
        BY <2>2
      <3>. QED  BY <1>6, <3>1, <3>2
    <2>. QED  BY <2>4, <2>5, <2>6 DEF Eols
  <1>8. a \in 1..Len(s) /\ b \in 1..Len(s) /\ a <= b
    BY <1>1, <1>5, <1>7
  <1>9. <<a, b>> \in MatchesOf(s, eol)
    BY <1>3, <1>5, <1>8 DEF IsFirst
  <1>10. a = i
    <2>1. i <= a
      BY <1>2, <1>9 DEF IsFirst
    <2>. QED  BY <1>2, <1>6, <1>8, <2>1
  <1>11. b = j
    <2>1. <<i, j>> \in MatchesOf(s, eol) /\ <<i, b>> \in MatchesOf(s, eol)
      BY <1>2, <1>9, <1>10 DEF IsFirst
    <2>. QED  BY <2>1, OneEnd
  <1>12. Has(u, eol) /\ Find(u, eol) = Find(s, eol)
    BY <1>2, <1>4, <1>5, <1>10, <1>11 DEF Has
  <1>. QED  BY <1>12 DEF u

(* A match in the second of two strings is one in both together.           *)
LEMMA MatchAfter ==
  ASSUME NEW s \in Bytes, NEW t \in Bytes, NEW eol \in Eols,
         NEW i \in 1..Len(t), NEW j \in 1..Len(t), <<i, j>> \in MatchesOf(t, eol)
  PROVE  <<Len(s) + i, Len(s) + j>> \in MatchesOf(s \o t, eol)
  <1>. DEFINE u == s \o t
  <1>1. /\ u \in Bytes /\ Len(u) = Len(s) + Len(t)
        /\ \A k \in 1..(Len(s) + Len(t)) :
             u[k] = IF k <= Len(s) THEN s[k] ELSE t[k - Len(s)]
    BY ConcatProperties DEF Bytes
  <1>. HIDE DEF u
  <1>2. PICK d \in Int : d = Len(s) /\ d >= 0 /\ Len(t) \in Nat
    BY DEF Bytes
  <1>3. i <= j /\ i \in Int /\ j \in Int
    BY MatchFacts
  <1>4. ASSUME NEW k \in i..j
        PROVE  u[k + d] = t[k]
    <2>1. /\ k + d \in 1..(Len(s) + Len(t)) /\ ~(k + d <= Len(s)) /\ (k + d) - Len(s) = k
      BY <1>2, <1>3
    <2>. QED  BY <1>1, <2>1
  <1>5. Matches(t, eol, i, j)
    BY MatchFacts
  <1>6. Matches(u, eol, i + d, j + d)
    BY <1>3, <1>4, <1>5, MatchShift
  <1>7. i + d = Len(s) + i /\ j + d = Len(s) + j /\ i + d \in 1..Len(u) /\ j + d \in 1..Len(u)
    BY <1>1, <1>2, <1>3
  <1>8. <<i + d, j + d>> \in MatchesOf(u, eol)
    BY <1>1, <1>6, <1>7, MatchFacts
  <1>. QED  BY <1>7, <1>8 DEF u

(* A newline comes first, if what is before has none.                      *)
LEMMA FindAfter ==
  ASSUME NEW s \in Bytes, NEW t \in Bytes, Lacks(s, "n"),
         NEW i \in 1..Len(t), NEW j \in 1..Len(t), IsFirst(t, "n", i, j)
  PROVE  IsFirst(s \o t, "n", Len(s) + i, Len(s) + j)
  <1>. DEFINE u == s \o t
  <1>1. /\ u \in Bytes /\ Len(u) = Len(s) + Len(t)
        /\ \A k \in 1..(Len(s) + Len(t)) :
             u[k] = IF k <= Len(s) THEN s[k] ELSE t[k - Len(s)]
    BY ConcatProperties DEF Bytes
  <1>. HIDE DEF u
  <1>2. Len(s) \in Nat /\ Len(t) \in Nat /\ "n" \in Eols
    BY DEF Bytes, Eols
  <1>3. <<Len(s) + i, Len(s) + j>> \in MatchesOf(u, "n")
    BY <1>2, MatchAfter DEF IsFirst, u
  <1>4. ASSUME NEW h, NEW k, <<h, k>> \in MatchesOf(u, "n")
        PROVE  Len(s) + i <= h
    <2>1. h \in 1..Len(u) /\ u[h] = "n"
      <3>1. h \in 1..Len(u) /\ Matches(u, "n", h, k)
        BY <1>1, <1>2, <1>4, MatchFacts
      <3>. QED  BY <3>1, MatchCases
    <2>2. CASE h <= Len(s)
      <3>1. h \in 1..Len(s) /\ s[h] = "n"
        BY <1>1, <1>2, <2>1, <2>2
      <3>. QED  BY <3>1 DEF Lacks
    <2>3. CASE ~(h <= Len(s))
      <3>1. PICK g \in 1..Len(t) : g = h - Len(s) /\ t[g] = "n"
        <4>1. h - Len(s) \in 1..Len(t) /\ h \in 1..(Len(s) + Len(t))
          BY <1>1, <1>2, <2>1, <2>3
        <4>. QED  BY <1>1, <2>1, <2>3, <4>1
      <3>2. <<g, g>> \in MatchesOf(t, "n")
        BY <1>2, <3>1, MatchCases, MatchFacts
      <3>3. i <= g
        BY <3>2 DEF IsFirst
      <3>. QED  BY <1>2, <2>1, <3>1, <3>3
    <2>. QED  BY <2>2, <2>3
  <1>. QED  BY <1>3, <1>4 DEF IsFirst, u

(* An end of line that is cut out is one by itself.                        *)
LEMMA MatchCutOut ==
  ASSUME NEW s \in Bytes, NEW eol \in Eols, NEW i \in 1..Len(s), NEW j \in 1..Len(s),
         <<i, j>> \in MatchesOf(s, eol)
  PROVE  /\ Len(SubSeq(s, i, j)) = j - i + 1
         /\ <<1, j - i + 1>> \in MatchesOf(SubSeq(s, i, j), eol)
  <1>1. i <= j /\ i \in Int /\ j \in Int /\ Matches(s, eol, i, j) /\ Len(s) \in Nat
    BY MatchFacts DEF Bytes
  <1>2. PICK u \in Bytes : /\ u = SubSeq(s, i, j) /\ Len(u) = j - i + 1
                           /\ \A k \in 1..(j - i + 1) : u[k] = s[i + k - 1]
    <2>1. \A k \in i..j : s[k] \in Byte
      BY <1>1 DEF Bytes
    <2>2. /\ SubSeq(s, i, j) \in Seq(Byte)
          /\ Len(SubSeq(s, i, j)) = IF i <= j THEN j - i + 1 ELSE 0
          /\ \A k \in 1..(j - i + 1) : SubSeq(s, i, j)[k] = s[i + k - 1]
      BY <1>1, <2>1, SubSeqProperties
    <2>. QED  BY <1>1, <2>2 DEF Bytes
  <1>3. PICK d \in Int : d = 1 - i /\ i + d = 1 /\ j + d = j - i + 1
    BY <1>1
  <1>4. ASSUME NEW k \in i..j
        PROVE  u[k + d] = s[k]
    <2>1. k + d \in 1..(j - i + 1) /\ i + (k + d) - 1 = k
      BY <1>1, <1>3
    <2>. QED  BY <1>2, <2>1
  <1>5. Matches(u, eol, i + d, j + d)
    BY <1>1, <1>4, MatchShift
  <1>6. 1 \in 1..Len(u) /\ j - i + 1 \in 1..Len(u)
    BY <1>1, <1>2
  <1>7. Matches(u, eol, 1, j - i + 1)
    BY <1>3, <1>5
  <1>8. <<1, j - i + 1>> \in MatchesOf(u, eol)
    BY <1>6, <1>7, MatchFacts
  <1>. QED  BY <1>2, <1>8

(***************************************************************************)
(* Where the two parts of a string are, when a third comes before or after.*)
(***************************************************************************)
LEMMA CutBytes ==
  ASSUME NEW s \in Bytes, NEW i \in 0..Len(s)
  PROVE  \E x, y \in Bytes : /\ x = Upto(s, i) /\ y = From(s, i + 1)
                             /\ Len(x) = i /\ Len(y) = Len(s) - i /\ x \o y = s
  <1>1. /\ Upto(s, i) \in Bytes /\ From(s, i + 1) \in Bytes /\ Len(Upto(s, i)) = i
        /\ Len(From(s, i + 1)) = Len(s) - i /\ Upto(s, i) \o From(s, i + 1) = s
    BY CutSeq DEF Bytes
  <1>. DEFINE a == Upto(s, i)
              b == From(s, i + 1)
  <1>. HIDE DEF a, b
  <1>2. /\ a \in Bytes /\ b \in Bytes /\ a = Upto(s, i) /\ b = From(s, i + 1)
        /\ Len(a) = i /\ Len(b) = Len(s) - i /\ a \o b = s
    BY <1>1 DEF a, b
  <1>. QED  BY <1>2

LEMMA CutInFirst ==
  ASSUME NEW a \in Bytes, NEW b \in Bytes, NEW j \in 0..Len(a)
  PROVE  Upto(a \o b, j) = Upto(a, j) /\ From(a \o b, j + 1) = From(a, j + 1) \o b
  <1>1. PICK x \in Bytes, y \in Bytes : /\ x = Upto(a, j) /\ y = From(a, j + 1)
                                        /\ Len(x) = j /\ x \o y = a
    BY CutBytes
  <1>2. (x \o y) \o b = x \o (y \o b) /\ y \o b \in Bytes
    BY ConcatBytes
  <1>3. Upto(x \o (y \o b), Len(x)) = x /\ From(x \o (y \o b), Len(x) + 1) = y \o b
    BY <1>2, CutConcat
  <1>. QED  BY <1>1, <1>2, <1>3

LEMMA CutInSecond ==
  ASSUME NEW a \in Bytes, NEW b \in Bytes, NEW j \in 0..Len(b)
  PROVE  /\ Upto(a \o b, Len(a) + j) = a \o Upto(b, j)
         /\ From(a \o b, Len(a) + j + 1) = From(b, j + 1)
  <1>1. PICK x \in Bytes, y \in Bytes : /\ x = Upto(b, j) /\ y = From(b, j + 1)
                                        /\ Len(x) = j /\ x \o y = b
    BY CutBytes
  <1>2. (a \o x) \o y = a \o (x \o y) /\ a \o x \in Bytes
    <2>1. (a \o x) \o y = a \o (x \o y)
      BY ONLY BytesAssociate, SMTT(30)
    <2>2. a \o x \in Bytes
      BY ConcatProperties DEF Bytes
    <2>. QED  BY <2>1, <2>2
  <1>3. Len(a \o x) = Len(a) + Len(x)
    BY CutConcat
  <1>4. Upto((a \o x) \o y, Len(a \o x)) = a \o x /\ From((a \o x) \o y, Len(a \o x) + 1) = y
    BY <1>2, CutConcat
  <1>. QED  BY <1>1, <1>2, <1>3, <1>4
=============================================================================
