----------------------------- MODULE MmPoolProofs -----------------------------
(***************************************************************************)
(* Proofs about MmPool, for every size of pool, header and request.        *)
(***************************************************************************)
EXTENDS MmPool, SequenceTheorems, TLAPS

-----------------------------------------------------------------------------
(* Inserting into and removing from a list.                                 *)

\* LIST_INSERT_AFTER puts an element at a position and moves the later ones up.
LEMMA InsertElems ==
    ASSUME NEW S, NEW s \in Seq(S), NEW e \in S, NEW i \in 1 .. Len(s) + 1
    PROVE  /\ InsertAt(s, i, e) \in Seq(S)
           /\ Len(InsertAt(s, i, e)) = Len(s) + 1
           /\ \A j \in 1 .. Len(s) + 1 : InsertAt(s, i, e)[j] =
                 IF j < i THEN s[j] ELSE IF j = i THEN e ELSE s[j - 1]
<1> DEFINE a == SubSeq(s, 1, i - 1)
           b == SubSeq(s, i, Len(s))
<1>1. /\ a \in Seq(S) /\ Len(a) = i - 1
      /\ \A j \in 1 .. i - 1 : a[j] = s[j]
  <2>1. \A j \in 1 .. i - 1 : s[j] \in S
    OBVIOUS
  <2>. QED
    BY <2>1, SubSeqProperties
<1>2. /\ b \in Seq(S) /\ Len(b) = Len(s) + 1 - i
      /\ \A j \in 1 .. Len(s) + 1 - i : b[j] = s[i + j - 1]
  <2>1. \A j \in i .. Len(s) : s[j] \in S
    OBVIOUS
  <2>. QED
    BY <2>1, SubSeqProperties
<1> HIDE DEF a, b
<1>3. /\ a \o <<e>> \in Seq(S) /\ Len(a \o <<e>>) = i
      /\ \A j \in 1 .. i : (a \o <<e>>)[j] = IF j < i THEN s[j] ELSE e
  <2>1. <<e>> \in Seq(S) /\ Len(<<e>>) = 1 /\ <<e>>[1] = e
    OBVIOUS
  <2>. QED
    BY <1>1, <2>1, ConcatProperties
<1>4. /\ (a \o <<e>>) \o b \in Seq(S)
      /\ Len((a \o <<e>>) \o b) = Len(s) + 1
      /\ \A j \in 1 .. Len(s) + 1 : ((a \o <<e>>) \o b)[j] =
            IF j <= i THEN (a \o <<e>>)[j] ELSE b[j - i]
  <2>1. ASSUME NEW c \in Seq(S), Len(c) = i
        PROVE  /\ c \o b \in Seq(S) /\ Len(c \o b) = Len(s) + 1
               /\ \A j \in 1 .. Len(s) + 1 : (c \o b)[j] =
                     IF j <= i THEN c[j] ELSE b[j - i]
    <3>1. Len(c) + Len(b) = Len(s) + 1
      BY <1>2, <2>1
    <3>2. /\ c \o b \in Seq(S) /\ Len(c \o b) = Len(c) + Len(b)
          /\ \A j \in 1 .. Len(c) + Len(b) : (c \o b)[j] =
                IF j <= Len(c) THEN c[j] ELSE b[j - Len(c)]
      BY <1>2, ConcatProperties
    <3>. QED
      BY <2>1, <3>1, <3>2
  <2>. QED
    BY <1>3, <2>1
<1>5. InsertAt(s, i, e) = (a \o <<e>>) \o b
  BY DEF InsertAt, a, b
<1>6. Len(s) \in Nat /\ i \in Nat
  OBVIOUS
<1>7. ASSUME NEW j \in 1 .. Len(s) + 1
      PROVE  InsertAt(s, i, e)[j] = IF j < i THEN s[j] ELSE IF j = i THEN e ELSE s[j - 1]
  <2>1. CASE j <= i
    BY <2>1, <1>3, <1>4, <1>5, <1>6
  <2>2. CASE j > i
    <3>1. j - i \in 1 .. Len(s) + 1 - i
      BY <2>2, <1>6
    <3>2. b[j - i] = s[i + (j - i) - 1]
      BY <3>1, <1>2
    <3>. QED
      BY <2>2, <3>1, <3>2, <1>4, <1>5, <1>6
  <2>. QED
    BY <2>1, <2>2, <1>6
<1>. QED
  BY <1>4, <1>5, <1>7

\* LIST_REMOVE takes the element at a position and moves the later ones down.
LEMMA RemoveElems ==
    ASSUME NEW S, NEW s \in Seq(S), NEW i \in 1 .. Len(s)
    PROVE  /\ RemoveAt(s, i) \in Seq(S)
           /\ Len(RemoveAt(s, i)) = Len(s) - 1
           /\ \A j \in 1 .. Len(s) - 1 : RemoveAt(s, i)[j] =
                 IF j < i THEN s[j] ELSE s[j + 1]
<1> DEFINE a == SubSeq(s, 1, i - 1)
           b == SubSeq(s, i + 1, Len(s))
<1>1. /\ a \in Seq(S) /\ Len(a) = i - 1
      /\ \A j \in 1 .. i - 1 : a[j] = s[j]
  <2>1. \A j \in 1 .. i - 1 : s[j] \in S
    OBVIOUS
  <2>. QED
    BY <2>1, SubSeqProperties
<1>2. /\ b \in Seq(S) /\ Len(b) = Len(s) - i
      /\ \A j \in 1 .. Len(s) - i : b[j] = s[i + j]
  <2>1. \A j \in i + 1 .. Len(s) : s[j] \in S
    OBVIOUS
  <2>. QED
    BY <2>1, SubSeqProperties
<1> HIDE DEF a, b
<1>3. /\ a \o b \in Seq(S) /\ Len(a \o b) = Len(s) - 1
      /\ \A j \in 1 .. Len(s) - 1 : (a \o b)[j] =
            IF j <= i - 1 THEN a[j] ELSE b[j - (i - 1)]
  <2>1. Len(s) \in Nat /\ i \in Nat /\ Len(a) + Len(b) = Len(s) - 1
    BY <1>1, <1>2
  <2>2. /\ a \o b \in Seq(S) /\ Len(a \o b) = Len(a) + Len(b)
        /\ \A j \in 1 .. Len(a) + Len(b) : (a \o b)[j] =
              IF j <= Len(a) THEN a[j] ELSE b[j - Len(a)]
    BY <1>1, <1>2, ConcatProperties
  <2>. QED
    BY <1>1, <2>1, <2>2
<1>4. RemoveAt(s, i) = a \o b
  BY DEF RemoveAt, a, b
<1>5. Len(s) \in Nat /\ i \in Nat
  OBVIOUS
<1>6. ASSUME NEW j \in 1 .. Len(s) - 1
      PROVE  RemoveAt(s, i)[j] = IF j < i THEN s[j] ELSE s[j + 1]
  <2>1. CASE j < i
    BY <2>1, <1>1, <1>3, <1>4, <1>5
  <2>2. CASE j >= i
    <3>1. j - (i - 1) \in 1 .. Len(s) - i
      BY <2>2, <1>5
    <3>2. b[j - (i - 1)] = s[i + (j - (i - 1))]
      BY <3>1, <1>2
    <3>. QED
      BY <2>2, <3>1, <3>2, <1>3, <1>4, <1>5
  <2>. QED
    BY <2>1, <2>2, <1>5
<1>. QED
  BY <1>3, <1>4, <1>6

\* Unsigned arithmetic that does not wrap.
LEMMA NoWrap ==
    ASSUME NEW w \in Nat, NEW x \in Nat, x < w
    PROVE  x % w = x
OBVIOUS

\* A request, padded and rounded, is at least what was asked for.
LEMMA Needed ==
    ASSUME NEW n \in Requests
    PROVE  BytesNeeded(n) \in Nat /\ BytesNeeded(n) >= n + Pad
<1>1. n \in Nat /\ Pad \in Nat /\ Word \in Nat /\ n + Pad + 3 < Word
  BY PoolAssumption
<1>2. (n + Pad + 3) % Word = n + Pad + 3
  BY <1>1, NoWrap
<1>3. BytesNeeded(n) = (n + Pad + 3) - ((n + Pad + 3) % 4)
  BY <1>2 DEF BytesNeeded
<1>. QED
  BY <1>1, <1>3

-----------------------------------------------------------------------------
(* Dividing and merging keep a list of blocks a tiling of the pool.  The    *)
(* order of all pairs and the bound are carried along: they follow from     *)
(* Tiled only by induction.                                                 *)

Ordered(s) == \A i, j \in 1 .. Len(s) : i < j => EndOf(s[i]) <= s[j].addr
Bounded(s) == \A i \in 1 .. Len(s) : EndOf(s[i]) <= PoolSize
Laid(s) == s \in Seq(Block) /\ Tiled(s) /\ Ordered(s) /\ Bounded(s)

LEMMA BlockFields ==
    ASSUME NEW b \in Block
    PROVE  b.addr \in Nat /\ b.size \in Nat /\ EndOf(b) \in Nat /\ b.addr < EndOf(b)
BY PoolAssumption DEF Block, EndOf

\* A change of the states of blocks alone leaves them where they are.
LEMMA SamePlaces ==
    ASSUME NEW s, Laid(s), NEW r \in Seq(Block), Len(r) = Len(s),
           \A i \in 1 .. Len(s) : r[i].addr = s[i].addr /\ r[i].size = s[i].size
    PROVE  Laid(r)
<1>1. \A i \in 1 .. Len(s) : EndOf(r[i]) = EndOf(s[i])
  BY DEF EndOf
<1>2. Len(s) \in Nat
  BY DEF Laid
<1>3. Tiled(r)
  BY <1>1, <1>2 DEF Laid, Tiled
<1>4. Ordered(r)
  BY <1>1, <1>2 DEF Laid, Ordered
<1>5. Bounded(r)
  BY <1>1, <1>2 DEF Laid, Bounded
<1>. QED
  BY <1>3, <1>4, <1>5 DEF Laid

\* The list q is s with the block at i replaced by two, b and then c.
SplitAt(s, i, b, c, q) ==
    /\ q \in Seq(Block) /\ Len(q) = Len(s) + 1
    /\ q[i] = b /\ q[i + 1] = c
    /\ \A j \in 1 .. i - 1 : q[j] = s[j]
    /\ \A j \in i + 2 .. Len(s) + 1 : q[j] = s[j - 1]

\* The list q is r with the block c put in at position k.
Inserted(r, k, c, q) ==
    /\ q \in Seq(Block) /\ Len(q) = Len(r) + 1
    /\ \A j \in 1 .. Len(r) + 1 : q[j] =
          IF j < k THEN r[j] ELSE IF j = k THEN c ELSE r[j - 1]

LEMMA InsertAtInserts ==
    ASSUME NEW r \in Seq(Block), NEW k \in 1 .. Len(r) + 1, NEW c \in Block
    PROVE  Inserted(r, k, c, InsertAt(r, k, c))
BY InsertElems DEF Inserted

\* What MmAllocatePoolWithTag does to the list when it divides a block.
LEMMA SplitElems ==
    ASSUME NEW s \in Seq(Block), NEW i \in 1 .. Len(s), NEW b \in Block, NEW c \in Block
    PROVE  \E q : /\ q = InsertAt([s EXCEPT ![i] = b], i + 1, c)
                  /\ SplitAt(s, i, b, c, q)
<1>1. PICK r : r = [s EXCEPT ![i] = b]
  OBVIOUS
<1>2. /\ r \in Seq(Block) /\ Len(r) = Len(s) /\ Len(s) \in Nat /\ i \in Nat
      /\ r[i] = b /\ \A j \in 1 .. Len(s) : j # i => r[j] = s[j]
  BY <1>1
<1>3. i + 1 \in 1 .. Len(r) + 1
  BY <1>2
<1>4. PICK q : q = InsertAt(r, i + 1, c)
  OBVIOUS
<1>5. /\ q \in Seq(Block) /\ Len(q) = Len(r) + 1
      /\ \A j \in 1 .. Len(r) + 1 : q[j] =
            IF j < i + 1 THEN r[j] ELSE IF j = i + 1 THEN c ELSE r[j - 1]
  <2>1. r \in Seq(Block)
    BY <1>2
  <2>2. Inserted(r, i + 1, c, InsertAt(r, i + 1, c))
    BY <2>1, <1>3, InsertAtInserts, Zenon
  <2>3. Inserted(r, i + 1, c, q)
    BY <2>2, <1>4
  <2>. QED
    BY <2>3 DEF Inserted
<1>6. q[i] = b /\ q[i + 1] = c
  BY <1>2, <1>5
<1>7. ASSUME NEW j \in 1 .. i - 1 PROVE q[j] = s[j]
  <2>1. j \in 1 .. Len(r) + 1 /\ j < i + 1 /\ j \in 1 .. Len(s) /\ j # i
    BY <1>2
  <2>2. q[j] = r[j]
    BY <2>1, <1>5
  <2>. QED
    BY <2>1, <2>2, <1>2
<1>8. ASSUME NEW j \in i + 2 .. Len(s) + 1 PROVE q[j] = s[j - 1]
  <2>1. j \in 1 .. Len(r) + 1 /\ ~(j < i + 1) /\ j # i + 1 /\ j - 1 \in 1 .. Len(s) /\ j - 1 # i
    BY <1>2
  <2>2. q[j] = r[j - 1]
    BY <2>1, <1>5
  <2>. QED
    BY <2>1, <2>2, <1>2
<1>9. SplitAt(s, i, b, c, q)
  BY <1>2, <1>5, <1>6, <1>7, <1>8 DEF SplitAt
<1>. QED
  BY <1>1, <1>4, <1>9

\* Replacing a block by two that share its place.
LEMMA SplitLaid ==
    ASSUME NEW s, Laid(s), NEW i \in 1 .. Len(s), NEW b \in Block, NEW c \in Block,
           b.addr = s[i].addr, c.addr = EndOf(b), EndOf(c) = EndOf(s[i]),
           NEW q, SplitAt(s, i, b, c, q)
    PROVE  Laid(q)
<1>0. s \in Seq(Block) /\ Len(s) \in Nat /\ i \in Nat /\ PoolSize \in Nat
  BY PoolAssumption DEF Laid
<1>1. /\ q \in Seq(Block) /\ Len(q) = Len(s) + 1
      /\ q[i] = b /\ q[i + 1] = c
      /\ \A j \in 1 .. i - 1 : q[j] = s[j]
      /\ \A j \in i + 2 .. Len(s) + 1 : q[j] = s[j - 1]
  BY DEF SplitAt
<1>2. EndOf(b) \in Nat /\ EndOf(c) \in Nat /\ b.addr \in Nat /\ c.addr \in Nat
      /\ EndOf(b) < EndOf(c) /\ b.addr < c.addr
  BY BlockFields
<1>3. Tiled(q)
  <2>1. Len(q) > 0
    BY <1>0, <1>1
  <2>2. q[1].addr = 0
    <3>1. CASE i = 1
      BY <3>1, <1>1 DEF Laid, Tiled
    <3>2. CASE i # 1
      BY <3>2, <1>0, <1>1 DEF Laid, Tiled
    <3>. QED
      BY <3>1, <3>2
  <2>3. ASSUME NEW j \in 1 .. Len(q) - 1 PROVE q[j + 1].addr = EndOf(q[j])
    <3>1. CASE j < i
      <4>1. j \in 1 .. Len(s) - 1 /\ q[j] = s[j] /\ q[j + 1].addr = s[j + 1].addr
        <5>1. CASE j + 1 = i
          BY <3>1, <5>1, <1>0, <1>1
        <5>2. CASE j + 1 # i
          BY <3>1, <5>2, <1>0, <1>1
        <5>. QED
          BY <5>1, <5>2
      <4>. QED
        BY <4>1 DEF Laid, Tiled
    <3>2. CASE j = i
      BY <3>2, <1>1
    <3>3. CASE j = i + 1
      <4>1. i \in 1 .. Len(s) - 1 /\ q[j + 1] = s[i + 1]
        BY <3>3, <1>0, <1>1
      <4>. QED
        BY <3>3, <4>1, <1>1 DEF Laid, Tiled
    <3>4. CASE j > i + 1
      <4>1. j - 1 \in 1 .. Len(s) - 1 /\ q[j + 1] = s[(j - 1) + 1] /\ q[j] = s[j - 1]
        BY <3>4, <1>0, <1>1
      <4>. QED
        BY <4>1 DEF Laid, Tiled
    <3>. QED
      BY <3>1, <3>2, <3>3, <3>4, <1>0, <1>1
  <2>4. EndOf(q[Len(q)]) = PoolSize
    <3>1. CASE i = Len(s)
      BY <3>1, <1>0, <1>1 DEF Laid, Tiled
    <3>2. CASE i # Len(s)
      BY <3>2, <1>0, <1>1 DEF Laid, Tiled
    <3>. QED
      BY <3>1, <3>2
  <2>. QED
    BY <2>1, <2>2, <2>3, <2>4 DEF Tiled
<1>4. ASSUME NEW j \in 1 .. Len(q)
      PROVE  \E k \in 1 .. Len(s) :
                /\ k = IF j <= i THEN j ELSE j - 1
                /\ EndOf(q[j]) <= EndOf(s[k]) /\ s[k].addr <= q[j].addr
                /\ EndOf(q[j]) \in Nat /\ EndOf(s[k]) \in Nat
                /\ q[j].addr \in Nat /\ s[k].addr \in Nat
  <2>1. CASE j = i
    <3>1. EndOf(s[i]) \in Nat /\ s[i].addr \in Nat
      BY <1>0, BlockFields
    <3>. QED
      BY <2>1, <3>1, <1>0, <1>1, <1>2
  <2>2. CASE j = i + 1
    <3>1. EndOf(s[i]) \in Nat /\ s[i].addr \in Nat
      BY <1>0, BlockFields
    <3>2. i = IF j <= i THEN j ELSE j - 1
      BY <2>2, <1>0
    <3>3. EndOf(q[j]) = EndOf(s[i]) /\ s[i].addr <= q[j].addr /\ q[j].addr \in Nat
      BY <2>2, <3>1, <1>0, <1>1, <1>2
    <3>4. EndOf(s[i]) <= EndOf(s[i])
      BY <3>1
    <3>. QED
      BY <3>1, <3>2, <3>3, <3>4
  <2>3. CASE j < i
    <3>0. j \in 1 .. Len(s) /\ j \in 1 .. i - 1
      BY <2>3, <1>0
    <3>1. q[j] = s[j] /\ s[j] \in Block
      BY <3>0, <1>0, <1>1
    <3>2. EndOf(s[j]) \in Nat /\ s[j].addr \in Nat
      BY <3>1, BlockFields
    <3>. QED
      BY <2>3, <3>0, <3>1, <3>2, <1>0
  <2>4. CASE j > i + 1
    <3>0. j - 1 \in 1 .. Len(s) /\ j \in i + 2 .. Len(s) + 1
      BY <2>4, <1>0, <1>1
    <3>1. j - 1 \in 1 .. Len(s) /\ q[j] = s[j - 1] /\ s[j - 1] \in Block
      BY <3>0, <1>0, <1>1
    <3>2. EndOf(s[j - 1]) \in Nat /\ s[j - 1].addr \in Nat
      BY <3>1, BlockFields
    <3>. QED
      BY <2>4, <3>1, <3>2, <1>0
  <2>. QED
    BY <2>1, <2>2, <2>3, <2>4, <1>0, <1>1
<1>5. Bounded(q)
  <2>1. ASSUME NEW j \in 1 .. Len(q) PROVE EndOf(q[j]) <= PoolSize
    <3>1. PICK k \in 1 .. Len(s) :
            EndOf(q[j]) <= EndOf(s[k]) /\ EndOf(q[j]) \in Nat /\ EndOf(s[k]) \in Nat
      BY <1>4
    <3>2. EndOf(s[k]) <= PoolSize
      BY DEF Laid, Bounded
    <3>. QED
      BY <3>1, <3>2, <1>0
  <2>. QED
    BY <2>1 DEF Bounded
<1>6. Ordered(q)
  <2>1. ASSUME NEW j \in 1 .. Len(q), NEW l \in 1 .. Len(q), j < l
        PROVE  EndOf(q[j]) <= q[l].addr
    <3>1. CASE j = i /\ l = i + 1
      BY <3>1, <1>1, <1>2
    <3>2. CASE ~(j = i /\ l = i + 1)
      <4>1. PICK k \in 1 .. Len(s) :
              /\ k = IF j <= i THEN j ELSE j - 1
              /\ EndOf(q[j]) <= EndOf(s[k]) /\ EndOf(q[j]) \in Nat /\ EndOf(s[k]) \in Nat
        BY <1>4
      <4>2. PICK m \in 1 .. Len(s) :
              /\ m = IF l <= i THEN l ELSE l - 1
              /\ s[m].addr <= q[l].addr /\ q[l].addr \in Nat /\ s[m].addr \in Nat
        BY <1>4
      <4>3. k < m
        BY <2>1, <3>2, <4>1, <4>2, <1>0, <1>1
      <4>4. EndOf(s[k]) <= s[m].addr
        BY <4>3 DEF Laid, Ordered
      <4>. QED
        BY <4>1, <4>2, <4>4
    <3>. QED
      BY <3>1, <3>2
  <2>. QED
    BY <2>1 DEF Ordered
<1>. QED
  BY <1>1, <1>3, <1>5, <1>6 DEF Laid

\* The list q is s with the blocks at i and i + 1 replaced by one, b.
JoinedAt(s, i, b, q) ==
    /\ q \in Seq(Block) /\ Len(q) = Len(s) - 1
    /\ q[i] = b
    /\ \A j \in 1 .. i - 1 : q[j] = s[j]
    /\ \A j \in i + 1 .. Len(s) - 1 : q[j] = s[j + 1]

\* What MmFreePoolWithTag does to the list when it merges two blocks.
LEMMA JoinElems ==
    ASSUME NEW s \in Seq(Block), NEW i \in 1 .. Len(s) - 1, NEW b \in Block
    PROVE  \E q : /\ q = RemoveAt([s EXCEPT ![i] = b], i + 1)
                  /\ JoinedAt(s, i, b, q)
<1>1. PICK r : r = [s EXCEPT ![i] = b]
  OBVIOUS
<1>2. /\ r \in Seq(Block) /\ Len(r) = Len(s) /\ Len(s) \in Nat /\ i \in Nat
      /\ r[i] = b /\ \A j \in 1 .. Len(s) : j # i => r[j] = s[j]
  BY <1>1
<1>3. PICK k \in 1 .. Len(r) : k = i + 1
  BY <1>2
<1>4. PICK q : q = RemoveAt(r, k)
  OBVIOUS
<1>5. /\ q \in Seq(Block) /\ Len(q) = Len(r) - 1
      /\ \A j \in 1 .. Len(r) - 1 : q[j] = IF j < k THEN r[j] ELSE r[j + 1]
  <2>1. r \in Seq(Block)
    BY <1>2
  <2>2. /\ RemoveAt(r, k) \in Seq(Block) /\ Len(RemoveAt(r, k)) = Len(r) - 1
        /\ \A j \in 1 .. Len(r) - 1 : RemoveAt(r, k)[j] = IF j < k THEN r[j] ELSE r[j + 1]
    BY <2>1, RemoveElems
  <2>. QED
    BY <2>2, <1>4
<1>6. q[i] = b
  BY <1>2, <1>3, <1>5
<1>7. ASSUME NEW j \in 1 .. i - 1 PROVE q[j] = s[j]
  <2>1. j \in 1 .. Len(r) - 1 /\ j < k /\ j \in 1 .. Len(s) /\ j # i
    BY <1>2, <1>3
  <2>2. q[j] = r[j]
    BY <2>1, <1>5
  <2>. QED
    BY <2>1, <2>2, <1>2
<1>8. ASSUME NEW j \in i + 1 .. Len(s) - 1 PROVE q[j] = s[j + 1]
  <2>1. j \in 1 .. Len(r) - 1 /\ ~(j < k) /\ j + 1 \in 1 .. Len(s) /\ j + 1 # i
    BY <1>2, <1>3
  <2>2. q[j] = r[j + 1]
    BY <2>1, <1>5
  <2>. QED
    BY <2>1, <2>2, <1>2
<1>9. JoinedAt(s, i, b, q)
  BY <1>2, <1>5, <1>6, <1>7, <1>8 DEF JoinedAt
<1>. QED
  BY <1>1, <1>3, <1>4, <1>9

\* Replacing two neighbours by one block that takes both places.
LEMMA JoinLaid ==
    ASSUME NEW s, Laid(s), NEW i \in 1 .. Len(s) - 1, NEW b \in Block,
           b.addr = s[i].addr, EndOf(b) = EndOf(s[i + 1]),
           NEW q, JoinedAt(s, i, b, q)
    PROVE  Laid(q)
<1>0. s \in Seq(Block) /\ Len(s) \in Nat /\ i \in Nat /\ PoolSize \in Nat
  BY PoolAssumption DEF Laid
<1>1. /\ q \in Seq(Block) /\ Len(q) = Len(s) - 1
      /\ q[i] = b
      /\ \A j \in 1 .. i - 1 : q[j] = s[j]
      /\ \A j \in i + 1 .. Len(s) - 1 : q[j] = s[j + 1]
  BY DEF JoinedAt
<1>2. ASSUME NEW j \in 1 .. Len(q)
      PROVE  \E k, m \in 1 .. Len(s) :
                /\ k = (IF j <= i THEN j ELSE j + 1)
                /\ m = (IF j < i THEN j ELSE j + 1)
                /\ q[j].addr = s[k].addr /\ EndOf(q[j]) = EndOf(s[m])
  <2>1. CASE j < i
    <3>1. j \in 1 .. Len(s) /\ q[j] = s[j]
      BY <2>1, <1>0, <1>1
    <3>2. j = (IF j <= i THEN j ELSE j + 1) /\ j = (IF j < i THEN j ELSE j + 1)
      BY <2>1, <1>0
    <3>. QED
      BY <3>1, <3>2
  <2>2. CASE j = i
    <3>1. i \in 1 .. Len(s) /\ i + 1 \in 1 .. Len(s)
      BY <1>0
    <3>2. i = (IF j <= i THEN j ELSE j + 1) /\ i + 1 = (IF j < i THEN j ELSE j + 1)
      BY <2>2, <1>0
    <3>3. q[j].addr = s[i].addr /\ EndOf(q[j]) = EndOf(s[i + 1])
      BY <2>2, <1>1
    <3>. QED
      BY <3>1, <3>2, <3>3
  <2>3. CASE j > i
    <3>1. j + 1 \in 1 .. Len(s) /\ q[j] = s[j + 1]
      BY <2>3, <1>0, <1>1
    <3>2. j + 1 = (IF j <= i THEN j ELSE j + 1) /\ j + 1 = (IF j < i THEN j ELSE j + 1)
      BY <2>3, <1>0
    <3>. QED
      BY <3>1, <3>2
  <2>. QED
    BY <2>1, <2>2, <2>3, <1>0, <1>1
<1>3. Tiled(q)
  <2>1. Len(q) > 0
    BY <1>0, <1>1
  <2>2. q[1].addr = 0
    <3>1. CASE i = 1
      BY <3>1, <1>1 DEF Laid, Tiled
    <3>2. CASE i # 1
      BY <3>2, <1>0, <1>1 DEF Laid, Tiled
    <3>. QED
      BY <3>1, <3>2
  <2>3. ASSUME NEW j \in 1 .. Len(q) - 1 PROVE q[j + 1].addr = EndOf(q[j])
    <3>1. CASE j < i
      <4>1. j \in 1 .. Len(s) - 1 /\ q[j] = s[j] /\ q[j + 1].addr = s[j + 1].addr
        <5>1. CASE j + 1 = i
          BY <3>1, <5>1, <1>0, <1>1
        <5>2. CASE j + 1 # i
          BY <3>1, <5>2, <1>0, <1>1
        <5>. QED
          BY <5>1, <5>2
      <4>. QED
        BY <4>1 DEF Laid, Tiled
    <3>2. CASE j = i
      <4>1. i + 1 \in 1 .. Len(s) - 1 /\ q[j + 1] = s[(i + 1) + 1]
        BY <3>2, <1>0, <1>1
      <4>. QED
        BY <3>2, <4>1, <1>1 DEF Laid, Tiled
    <3>3. CASE j > i
      <4>1. /\ j + 1 \in 1 .. Len(s) - 1 /\ j \in i + 1 .. Len(s) - 1
            /\ j + 1 \in i + 1 .. Len(s) - 1
        BY <3>3, <1>0, <1>1
      <4>2. q[j + 1] = s[(j + 1) + 1] /\ q[j] = s[j + 1]
        BY <4>1, <1>1
      <4>. QED
        BY <4>1, <4>2 DEF Laid, Tiled
    <3>. QED
      BY <3>1, <3>2, <3>3, <1>0, <1>1
  <2>4. EndOf(q[Len(q)]) = PoolSize
    <3>1. CASE i = Len(s) - 1
      BY <3>1, <1>0, <1>1 DEF Laid, Tiled
    <3>2. CASE i # Len(s) - 1
      BY <3>2, <1>0, <1>1 DEF Laid, Tiled
    <3>. QED
      BY <3>1, <3>2
  <2>. QED
    BY <2>1, <2>2, <2>3, <2>4 DEF Tiled
<1>4. Bounded(q)
  <2>1. ASSUME NEW j \in 1 .. Len(q) PROVE EndOf(q[j]) <= PoolSize
    <3>1. PICK m \in 1 .. Len(s) : EndOf(q[j]) = EndOf(s[m])
      BY <1>2
    <3>. QED
      BY <3>1 DEF Laid, Bounded
  <2>. QED
    BY <2>1 DEF Bounded
<1>5. Ordered(q)
  <2>1. ASSUME NEW j \in 1 .. Len(q), NEW l \in 1 .. Len(q), j < l
        PROVE  EndOf(q[j]) <= q[l].addr
    <3>1. PICK m \in 1 .. Len(s) :
            m = (IF j < i THEN j ELSE j + 1) /\ EndOf(q[j]) = EndOf(s[m])
      BY <1>2
    <3>2. PICK k \in 1 .. Len(s) :
            k = (IF l <= i THEN l ELSE l + 1) /\ q[l].addr = s[k].addr
      BY <1>2
    <3>3. m < k
      BY <2>1, <3>1, <3>2, <1>0, <1>1
    <3>. QED
      BY <3>1, <3>2, <3>3 DEF Laid, Ordered
  <2>. QED
    BY <2>1 DEF Ordered
<1>. QED
  BY <1>1, <1>3, <1>4, <1>5 DEF Laid

-----------------------------------------------------------------------------
(* The operations of the pool on a list that tiles it.                      *)

LEMMA WholeLaid ==
    ASSUME NEW s, Laid(s), NEW i \in 1 .. Len(s)
    PROVE  \E q : /\ q = AllocateWhole(s, i)
                  /\ Laid(q) /\ Len(q) = Len(s)
                  /\ q[i] = Taken(s[i], s[i].size)
                  /\ \A j \in 1 .. Len(s) : j # i => q[j] = s[j]
<1>1. s \in Seq(Block) /\ s[i] \in Block
  BY DEF Laid
<1>2. PICK b : b = Taken(s[i], s[i].size)
  OBVIOUS
<1>3. b \in Block /\ b.addr = s[i].addr /\ b.size = s[i].size
  BY <1>1, <1>2, BlockFields DEF Block, Taken
<1>4. PICK q : q = [s EXCEPT ![i] = b]
  OBVIOUS
<1>5. /\ q \in Seq(Block) /\ Len(q) = Len(s) /\ q[i] = b
      /\ \A j \in 1 .. Len(s) : j # i => q[j] = s[j]
  BY <1>1, <1>3, <1>4
<1>6. \A j \in 1 .. Len(s) : q[j].addr = s[j].addr /\ q[j].size = s[j].size
  BY <1>3, <1>5
<1>7. Laid(q)
  BY <1>5, <1>6, SamePlaces
<1>. QED
  BY <1>2, <1>4, <1>5, <1>7 DEF AllocateWhole

\* The two parts of a divided block share its place, unless the header of the
\* rest does not fit.
LEMMA DivideLaid ==
    ASSUME NEW s, Laid(s), NEW i \in 1 .. Len(s), NEW bytes \in Nat
    PROVE  \E q : /\ q = AllocatePart(s, i, bytes)
                  /\ SplitAt(s, i, Taken(s[i], bytes), NewPoolBlock(s[i], bytes), q)
                  /\ ~Overlaps(s[i], bytes) => Laid(q)
<1>1. s \in Seq(Block) /\ s[i] \in Block
  BY DEF Laid
<1>2. PICK a \in Nat, z \in Nat : a = s[i].addr /\ z = s[i].size
  BY <1>1, BlockFields
<1>3. /\ Header \in Nat /\ PoolSize \in Nat /\ Word \in Nat /\ PoolSize < Word
      /\ a + Header + z <= PoolSize
  BY <1>2, PoolAssumption DEF Laid, Bounded, EndOf
<1>4. PICK b : b = Taken(s[i], bytes)
  OBVIOUS
<1>5. PICK c : c = NewPoolBlock(s[i], bytes)
  OBVIOUS
<1>6. b = [addr |-> a, size |-> bytes, allocated |-> TRUE]
  BY <1>2, <1>4 DEF Taken
<1>7. c = [addr |-> a + Header + bytes, size |-> (z - Header - bytes) % Word,
           allocated |-> FALSE]
  BY <1>2, <1>5 DEF NewPoolBlock
<1>8. (z - Header - bytes) % Word \in Nat
  BY <1>3
<1>9. b \in Block /\ c \in Block
  BY <1>3, <1>6, <1>7, <1>8 DEF Block
<1>10. PICK q : /\ q = InsertAt([s EXCEPT ![i] = b], i + 1, c)
                /\ SplitAt(s, i, b, c, q)
  BY <1>1, <1>9, SplitElems
<1>11. ASSUME ~Overlaps(s[i], bytes) PROVE Laid(q)
  <2>1. bytes + Header <= z
    BY <1>2, <1>3, <1>11 DEF Overlaps
  <2>2. z - Header - bytes \in Nat /\ z - Header - bytes < Word
    BY <2>1, <1>3
  <2>3. c.size = z - Header - bytes
    BY <2>2, <1>3, <1>7, NoWrap
  <2>4. b.addr = s[i].addr /\ c.addr = EndOf(b)
    BY <1>2, <1>6, <1>7 DEF EndOf
  <2>5. EndOf(c) = EndOf(s[i])
    <3>1. EndOf(c) = (a + Header + bytes) + Header + (z - Header - bytes)
      BY <2>3, <1>7 DEF EndOf
    <3>2. EndOf(s[i]) = a + Header + z
      BY <1>2 DEF EndOf
    <3>. QED
      BY <3>1, <3>2, <1>3
  <2>6. SplitAt(s, i, b, c, q)
    BY <1>10
  <2>. QED
    BY <2>4, <2>5, <2>6, <1>9, SplitLaid
<1>12. q = AllocatePart(s, i, bytes)
  BY <1>4, <1>5, <1>10 DEF AllocatePart
<1>. QED
  BY <1>4, <1>5, <1>10, <1>11, <1>12

LEMMA AbsorbLaid ==
    ASSUME NEW s, Laid(s), NEW i \in 1 .. Len(s) - 1
    PROVE  \E q : /\ q = Absorb(s, i)
                  /\ JoinedAt(s, i, Joined(s[i], s[i + 1]), q)
                  /\ Laid(q)
<1>1. s \in Seq(Block) /\ i \in 1 .. Len(s) /\ i + 1 \in 1 .. Len(s)
  BY DEF Laid
<1>2. s[i] \in Block /\ s[i + 1] \in Block
  BY <1>1
<1>3. PICK a \in Nat, z \in Nat, y \in Nat :
        /\ a = s[i].addr /\ z = s[i].size /\ y = s[i + 1].size
        /\ s[i + 1].addr = a + Header + z
  <2>1. s[i + 1].addr = EndOf(s[i])
    BY DEF Laid, Tiled
  <2>. QED
    BY <2>1, <1>2, BlockFields DEF EndOf
<1>4. Header \in Nat
  BY PoolAssumption
<1>5. PICK b : b = Joined(s[i], s[i + 1])
  OBVIOUS
<1>6. b = [addr |-> a, size |-> z + y + Header, allocated |-> s[i].allocated]
  BY <1>3, <1>5 DEF Joined
<1>7. b \in Block
  <2>1. s[i].allocated \in BOOLEAN
    BY <1>2 DEF Block
  <2>. QED
    BY <2>1, <1>4, <1>6 DEF Block
<1>8. b.addr = s[i].addr /\ EndOf(b) = EndOf(s[i + 1])
  <2>1. EndOf(b) = a + Header + (z + y + Header)
    BY <1>6 DEF EndOf
  <2>2. EndOf(s[i + 1]) = (a + Header + z) + Header + y
    BY <1>3 DEF EndOf
  <2>3. a + Header + (z + y + Header) = (a + Header + z) + Header + y
    BY <1>4
  <2>4. b.addr = s[i].addr
    BY <1>3, <1>6
  <2>. QED
    BY <2>1, <2>2, <2>3, <2>4
<1>9. PICK q : q = RemoveAt([s EXCEPT ![i] = b], i + 1) /\ JoinedAt(s, i, b, q)
  BY <1>1, <1>7, JoinElems
<1>10. Laid(q)
  <2>1. JoinedAt(s, i, b, q)
    BY <1>9
  <2>. QED
    BY <2>1, <1>7, <1>8, JoinLaid
<1>. QED
  BY <1>5, <1>9, <1>10 DEF Absorb

LEMMA MergeLaid ==
    ASSUME NEW s, Laid(s), NEW i \in 1 .. Len(s)
    PROVE  Laid(WithPrev(WithNext(s, i), i))
<1>0. Len(s) \in Nat /\ i \in Nat
  BY DEF Laid
<1>1. PICK r : r = WithNext(s, i)
  OBVIOUS
<1>2. Laid(r) /\ i <= Len(r) /\ Len(r) \in Nat
  <2>1. CASE MergesNext(s, i)
    <3>1. i \in 1 .. Len(s) - 1
      BY <2>1, <1>0 DEF MergesNext
    <3>2. PICK q : q = Absorb(s, i) /\ JoinedAt(s, i, Joined(s[i], s[i + 1]), q) /\ Laid(q)
      BY <3>1, AbsorbLaid
    <3>3. Len(q) = Len(s) - 1
      BY <3>2 DEF JoinedAt
    <3>. QED
      BY <2>1, <3>1, <3>2, <3>3, <1>0, <1>1 DEF WithNext
  <2>2. CASE ~MergesNext(s, i)
    BY <2>2, <1>0, <1>1 DEF WithNext
  <2>. QED
    BY <2>1, <2>2
<1>3. CASE MergesPrev(r, i)
  <2>1. i - 1 \in 1 .. Len(r) - 1
    BY <1>0, <1>2, <1>3 DEF MergesPrev
  <2>. QED
    BY <2>1, <1>1, <1>2, <1>3, AbsorbLaid DEF WithPrev
<1>4. CASE ~MergesPrev(r, i)
  BY <1>1, <1>2, <1>4 DEF WithPrev
<1>. QED
  BY <1>3, <1>4

-----------------------------------------------------------------------------
(* Whatever callers do, with any number of threads, the list tiles the pool *)
(* until a header is written over another block.                            *)

PoolInv == Typed /\ (machine # "corrupt" => Laid(blocks))

\* The pool starts as one block.
LEMMA InitLaid == Init => PoolInv
<1> SUFFICES ASSUME Init PROVE PoolInv
  OBVIOUS
<1>1. /\ Header \in Nat /\ Header > 0 /\ PoolSize \in Nat /\ PoolSize - Header \in Nat
      /\ Header + (PoolSize - Header) = PoolSize
  BY PoolAssumption
<1>2. PICK b : b = [addr |-> 0, size |-> PoolSize - Header, allocated |-> FALSE]
  OBVIOUS
<1>3. b \in Block /\ b.addr = 0 /\ EndOf(b) = PoolSize
  BY <1>1, <1>2 DEF Block, EndOf
<1>4. blocks = <<b>>
  BY <1>2 DEF Init
<1>5. Laid(blocks)
  BY <1>1, <1>3, <1>4 DEF Laid, Tiled, Ordered, Bounded
<1>6. Typed
  <2>1. blocks \in Seq(Block)
    BY <1>3, <1>4
  <2>2. freeing \in [Threads -> Nat \cup {None}]
    BY DEF Init
  <2>. QED
    BY <2>1, <2>2 DEF Typed, Init
<1>. QED
  BY <1>5, <1>6 DEF PoolInv

LEMMA AllocateInv ==
    ASSUME PoolInv, NEW t \in Threads, NEW n \in Requests, MmAllocatePoolWithTag(t, n)
    PROVE  PoolInv'
<1>0. machine = "ok" /\ Typed /\ Laid(blocks) /\ freeing' = freeing
  BY DEF PoolInv, MmAllocatePoolWithTag
<1>1. PICK bytes \in Nat : bytes = BytesNeeded(n)
  BY Needed
<1>2. PICK i \in Indices :
        /\ \/ /\ blocks' = AllocateWhole(blocks, i)
              /\ machine' = machine
           \/ /\ blocks' = AllocatePart(blocks, i, bytes)
              /\ machine' = IF Overlaps(blocks[i], bytes) THEN "corrupt" ELSE machine
        /\ live' = live \cup {[addr |-> blocks[i].addr, bytes |-> n]}
        /\ freed' = freed \ {blocks[i].addr}
  BY <1>1 DEF MmAllocatePoolWithTag
<1>3. i \in 1 .. Len(blocks) /\ blocks[i] \in Block /\ blocks[i].addr \in Nat
  BY <1>0, BlockFields DEF Indices, Laid
<1>4. /\ blocks' \in Seq(Block) /\ (machine' # "corrupt" => Laid(blocks'))
      /\ machine' \in {"ok", "corrupt"}
  <2>1. CASE blocks' = AllocateWhole(blocks, i) /\ machine' = machine
    <3>1. Laid(blocks')
      BY <2>1, <1>0, <1>3, WholeLaid
    <3>. QED
      BY <2>1, <3>1, <1>0 DEF Laid
  <2>2. CASE /\ blocks' = AllocatePart(blocks, i, bytes)
             /\ machine' = IF Overlaps(blocks[i], bytes) THEN "corrupt" ELSE machine
    <3>1. PICK q : /\ q = AllocatePart(blocks, i, bytes)
                   /\ SplitAt(blocks, i, Taken(blocks[i], bytes),
                              NewPoolBlock(blocks[i], bytes), q)
                   /\ ~Overlaps(blocks[i], bytes) => Laid(q)
      BY <1>0, <1>3, DivideLaid
    <3>2. q \in Seq(Block)
      BY <3>1 DEF SplitAt
    <3>. QED
      BY <2>2, <3>1, <3>2, <1>0
  <2>. QED
    BY <1>2, <2>1, <2>2
<1>5. live' \subseteq [addr : Nat, bytes : Requests] /\ freed' \subseteq Nat
  <2>1. [addr |-> blocks[i].addr, bytes |-> n] \in [addr : Nat, bytes : Requests]
    BY <1>3
  <2>2. live \subseteq [addr : Nat, bytes : Requests] /\ freed \subseteq Nat
    BY <1>0 DEF Typed
  <2>. QED
    BY <2>1, <2>2, <1>2
<1>6. Typed'
  BY <1>0, <1>4, <1>5 DEF Typed
<1>. QED
  BY <1>4, <1>6 DEF PoolInv

LEMMA FreeInv ==
    ASSUME PoolInv, NEW t \in Threads, NEW a \in Freeable, NEW tag \in FreeTags,
           MmFreePoolWithTag(t, a, tag)
    PROVE  PoolInv'
<1>0. machine = "ok" /\ Typed /\ Laid(blocks)
  BY DEF PoolInv, MmFreePoolWithTag
<1>1. a \in Nat
  BY <1>0 DEF Freeable, Typed
<1>2. CASE VerificationFails(HeaderAt(a), tag)
  <2>1. machine' = "bugcheck" /\ UNCHANGED <<blocks, freeing, live, freed>>
    BY <1>2 DEF MmFreePoolWithTag
  <2>2. Typed'
    BY <2>1, <1>0 DEF Typed
  <2>. QED
    BY <2>1, <2>2, <1>0 DEF PoolInv
<1>3. CASE ~VerificationFails(HeaderAt(a), tag)
  <2>1. /\ blocks' = MarkedFree(a)
        /\ freeing' = [freeing EXCEPT ![t] = a]
        /\ live' = {l \in live : l.addr # a}
        /\ freed' = freed \cup {a}
        /\ machine' = machine
    BY <1>3 DEF MmFreePoolWithTag
  <2>2. blocks \in Seq(Block)
    BY <1>0 DEF Laid
  <2>3. ASSUME NEW i \in 1 .. Len(blocks)
        PROVE  /\ MarkedFree(a)[i] \in Block
               /\ MarkedFree(a)[i].addr = blocks[i].addr
               /\ MarkedFree(a)[i].size = blocks[i].size
    <3>1. blocks[i] \in Block /\ blocks[i].size \in Nat
      BY <2>2, BlockFields
    <3>. QED
      BY <3>1, <1>1 DEF MarkedFree, Indices, Block
  <2>4. MarkedFree(a) \in Seq(Block) /\ Len(MarkedFree(a)) = Len(blocks)
    BY <2>2, <2>3 DEF MarkedFree, Indices
  <2>5. Laid(blocks')
    BY <2>1, <2>3, <2>4, <1>0, SamePlaces
  <2>6. Typed'
    BY <2>1, <2>4, <1>0, <1>1 DEF Typed
  <2>. QED
    BY <2>5, <2>6 DEF PoolInv
<1>. QED
  BY <1>2, <1>3

LEMMA MergeInv ==
    ASSUME PoolInv, NEW t \in Threads, MergeBlocks(t)
    PROVE  PoolInv'
<1>0. machine = "ok" /\ Typed /\ Laid(blocks) /\ UNCHANGED <<live, freed>>
      /\ freeing' = [freeing EXCEPT ![t] = None]
  BY DEF PoolInv, MergeBlocks
<1>1. freeing' \in [Threads -> Nat \cup {None}]
  BY <1>0 DEF Typed
<1>2. CASE machine' = "corrupt" /\ UNCHANGED blocks
  BY <1>0, <1>1, <1>2 DEF PoolInv, Typed
<1>3. CASE \E i \in Indices : /\ blocks' = WithPrev(WithNext(blocks, i), i)
                              /\ UNCHANGED machine
  <2>1. Laid(blocks') /\ machine' = machine
    BY <1>0, <1>3, MergeLaid DEF Indices
  <2>2. blocks' \in Seq(Block)
    BY <2>1 DEF Laid
  <2>. QED
    BY <2>1, <2>2, <1>0, <1>1 DEF PoolInv, Typed
<1>. QED
  BY <1>2, <1>3 DEF MergeBlocks

LEMMA NextPoolInv == PoolInv /\ [Next]_vars => PoolInv'
<1> SUFFICES ASSUME PoolInv, [Next]_vars PROVE PoolInv'
  OBVIOUS
<1>1. CASE UNCHANGED vars
  BY <1>1 DEF vars, PoolInv, Typed, Laid, Tiled, Ordered, Bounded, EndOf
<1>2. ASSUME NEW t \in Threads, NEW n \in Requests,
             MmAllocatePoolWithTag(t, n) \/ AllocationFails(t, n)
      PROVE  PoolInv'
  BY <1>1, <1>2, AllocateInv DEF AllocationFails
<1>. QED
  BY <1>1, <1>2, FreeInv, MergeInv DEF Next

\* Splitting and merging keep the list a tiling of the pool, for any sizes, any
\* number of threads, and callers that free twice.
THEOREM TilingAlways == Spec => []Tiling
<1>1. PoolInv => Tiling
  BY DEF PoolInv, Tiling, Laid
<1>. QED
  BY <1>1, InitLaid, NextPoolInv, PTL DEF Spec

\* Every variable keeps its type and, until a header is written over another
\* block, every block ends inside the pool: neither subtraction whose result
\* MmAllocatePoolWithTag stores wraps, nor does a sum of MmFreePoolWithTag, for
\* any number of threads and callers that free twice.
THEOREM PoolTypes == Spec => []TypeOK
<1>1. PoolInv => TypeOK
  BY DEF PoolInv, TypeOK, Laid, Bounded, Indices
<1>. QED
  BY <1>1, InitLaid, NextPoolInv, PTL DEF Spec

-----------------------------------------------------------------------------
(* With one thread in the pool at a time, and callers that free what they   *)
(* own, every caller's memory is its own.                                   *)

Serial == \A t, u \in Threads : t = u

OwnedInv == LiveIsAllocated /\ NoLeak /\ FreeingIsFree

\* No step moves or resizes the block of a caller that keeps it.
Untouched ==
    machine' # "corrupt" =>
        \A l \in live \cap live' : \A i \in Indices :
            IsBlock(i, l.addr) => \E j \in 1 .. Len(blocks') : blocks'[j] = blocks[i]

\* The lists s and q have the same allocated blocks.
SameAllocated(s, q) ==
    /\ \A j \in 1 .. Len(s) : s[j].allocated => \E k \in 1 .. Len(q) : q[k] = s[j]
    /\ \A k \in 1 .. Len(q) : q[k].allocated => \E j \in 1 .. Len(s) : s[j] = q[k]

\* No two blocks of a tiling have the same address.
LEMMA UniqueAddress ==
    ASSUME NEW s, Laid(s), NEW i \in 1 .. Len(s), NEW j \in 1 .. Len(s),
           s[i].addr = s[j].addr
    PROVE  i = j
<1>1. /\ s[i].addr \in Nat /\ s[i].addr < EndOf(s[i]) /\ EndOf(s[i]) \in Nat
      /\ s[j].addr < EndOf(s[j]) /\ EndOf(s[j]) \in Nat /\ i \in Nat /\ j \in Nat
  BY BlockFields DEF Laid
<1>2. ~(i < j) /\ ~(j < i)
  BY <1>1 DEF Laid, Ordered
<1>. QED
  BY <1>1, <1>2

\* Merging two free blocks.
LEMMA JoinSame ==
    ASSUME NEW s, Laid(s), NEW i \in 1 .. Len(s) - 1,
           ~s[i].allocated, ~s[i + 1].allocated,
           NEW q, JoinedAt(s, i, Joined(s[i], s[i + 1]), q)
    PROVE  SameAllocated(s, q) /\ ~q[i].allocated
<1>0. Len(s) \in Nat /\ i \in Nat
  BY DEF Laid
<1>1. /\ Len(q) = Len(s) - 1 /\ ~q[i].allocated
      /\ \A j \in 1 .. i - 1 : q[j] = s[j]
      /\ \A j \in i + 1 .. Len(s) - 1 : q[j] = s[j + 1]
  BY DEF JoinedAt, Joined
<1>2. ASSUME NEW j \in 1 .. Len(s), s[j].allocated
      PROVE  \E k \in 1 .. Len(q) : q[k] = s[j]
  <2>0. j # i /\ j # i + 1
    BY <1>2
  <2>1. CASE j < i
    BY <2>1, <1>0, <1>1
  <2>2. CASE j > i + 1
    <3>1. j - 1 \in 1 .. Len(q) /\ q[j - 1] = s[(j - 1) + 1]
      BY <2>2, <1>0, <1>1
    <3>. QED
      BY <3>1
  <2>. QED
    BY <2>0, <2>1, <2>2, <1>0
<1>3. ASSUME NEW k \in 1 .. Len(q), q[k].allocated
      PROVE  \E j \in 1 .. Len(s) : s[j] = q[k]
  <2>0. k # i
    BY <1>1, <1>3
  <2>1. CASE k < i
    BY <2>1, <1>0, <1>1
  <2>2. CASE k > i
    <3>1. k + 1 \in 1 .. Len(s) /\ q[k] = s[k + 1]
      BY <2>2, <1>0, <1>1
    <3>. QED
      BY <3>1
  <2>. QED
    BY <2>0, <2>1, <2>2, <1>0
<1>. QED
  BY <1>1, <1>2, <1>3 DEF SameAllocated

LEMMA SameTransitive ==
    ASSUME NEW s, NEW r, NEW q, SameAllocated(s, r), SameAllocated(r, q)
    PROVE  SameAllocated(s, q)
<1>1. ASSUME NEW j \in 1 .. Len(s), s[j].allocated
      PROVE  \E k \in 1 .. Len(q) : q[k] = s[j]
  <2>1. PICK h \in 1 .. Len(r) : r[h] = s[j]
    BY <1>1 DEF SameAllocated
  <2>. QED
    BY <1>1, <2>1 DEF SameAllocated
<1>2. ASSUME NEW k \in 1 .. Len(q), q[k].allocated
      PROVE  \E j \in 1 .. Len(s) : s[j] = q[k]
  <2>1. PICK h \in 1 .. Len(r) : r[h] = q[k]
    BY <1>2 DEF SameAllocated
  <2>. QED
    BY <1>2, <2>1 DEF SameAllocated
<1>. QED
  BY <1>1, <1>2 DEF SameAllocated

\* Merging a free block with its free neighbours.
LEMMA MergeSame ==
    ASSUME NEW s, Laid(s), NEW i \in 1 .. Len(s), ~s[i].allocated
    PROVE  SameAllocated(s, WithPrev(WithNext(s, i), i))
<1>0. Len(s) \in Nat /\ i \in Nat
  BY DEF Laid
<1>1. PICK r : r = WithNext(s, i)
  OBVIOUS
<1>2. Laid(r) /\ i <= Len(r) /\ Len(r) \in Nat /\ ~r[i].allocated /\ SameAllocated(s, r)
  <2>1. CASE MergesNext(s, i)
    <3>1. i \in 1 .. Len(s) - 1 /\ ~s[i + 1].allocated
      BY <2>1, <1>0 DEF MergesNext
    <3>2. PICK q : q = Absorb(s, i) /\ JoinedAt(s, i, Joined(s[i], s[i + 1]), q) /\ Laid(q)
      BY <3>1, AbsorbLaid
    <3>3. Len(q) = Len(s) - 1
      BY <3>2 DEF JoinedAt
    <3>4. SameAllocated(s, q) /\ ~q[i].allocated
      BY <3>1, <3>2, JoinSame
    <3>. QED
      BY <2>1, <3>1, <3>2, <3>3, <3>4, <1>0, <1>1 DEF WithNext
  <2>2. CASE ~MergesNext(s, i)
    BY <2>2, <1>0, <1>1 DEF WithNext, SameAllocated
  <2>. QED
    BY <2>1, <2>2
<1>3. SameAllocated(r, WithPrev(r, i))
  <2>1. CASE MergesPrev(r, i)
    <3>1. PICK h \in 1 .. Len(r) - 1 : h = i - 1 /\ ~r[h].allocated /\ ~r[h + 1].allocated
      BY <2>1, <1>0, <1>2 DEF MergesPrev
    <3>2. PICK q : q = Absorb(r, h) /\ JoinedAt(r, h, Joined(r[h], r[h + 1]), q)
      BY <3>1, <1>2, AbsorbLaid
    <3>3. SameAllocated(r, q)
      BY <3>1, <3>2, <1>2, JoinSame
    <3>. QED
      BY <2>1, <3>1, <3>2, <3>3 DEF WithPrev
  <2>2. CASE ~MergesPrev(r, i)
    BY <2>2 DEF WithPrev, SameAllocated
  <2>. QED
    BY <2>1, <2>2
<1>. QED
  BY <1>1, <1>2, <1>3, SameTransitive

\* An allocated block other than the one that is taken keeps its header.
LEMMA TakeKeeps ==
    ASSUME NEW s, Laid(s), NEW i \in 1 .. Len(s), ~s[i].allocated, NEW bytes \in Nat,
           NEW q, q = AllocateWhole(s, i) \/ q = AllocatePart(s, i, bytes)
    PROVE  /\ i \in 1 .. Len(q) /\ q[i].addr = s[i].addr /\ q[i].allocated
           /\ \/ q = AllocateWhole(s, i) /\ q[i].size = s[i].size
              \/ q = AllocatePart(s, i, bytes) /\ q[i].size = bytes
           /\ \A j \in 1 .. Len(s) : s[j].allocated => \E k \in 1 .. Len(q) : q[k] = s[j]
           /\ \A k \in 1 .. Len(q) :
                 q[k].allocated => k = i \/ \E j \in 1 .. Len(s) : s[j] = q[k]
<1>0. Len(s) \in Nat /\ i \in Nat
  BY DEF Laid
<1>1. CASE q = AllocateWhole(s, i)
  <2>1. /\ Len(q) = Len(s) /\ q[i] = Taken(s[i], s[i].size)
        /\ \A j \in 1 .. Len(s) : j # i => q[j] = s[j]
    BY <1>1, WholeLaid
  <2>. QED
    BY <2>1, <1>0, <1>1 DEF Taken
<1>2. CASE q = AllocatePart(s, i, bytes)
  <2>1. SplitAt(s, i, Taken(s[i], bytes), NewPoolBlock(s[i], bytes), q)
    BY <1>2, DivideLaid
  <2>2. /\ Len(q) = Len(s) + 1
        /\ q[i].addr = s[i].addr /\ q[i].allocated /\ q[i].size = bytes
        /\ ~q[i + 1].allocated
        /\ \A j \in 1 .. i - 1 : q[j] = s[j]
        /\ \A j \in i + 2 .. Len(s) + 1 : q[j] = s[j - 1]
    BY <2>1 DEF SplitAt, Taken, NewPoolBlock
  <2>3. ASSUME NEW j \in 1 .. Len(s), s[j].allocated
        PROVE  \E k \in 1 .. Len(q) : q[k] = s[j]
    <3>1. CASE j < i
      BY <3>1, <2>2, <1>0
    <3>2. CASE j > i
      <4>1. j + 1 \in 1 .. Len(q) /\ q[j + 1] = s[(j + 1) - 1]
        BY <3>2, <2>2, <1>0
      <4>. QED
        BY <4>1
    <3>. QED
      BY <2>3, <3>1, <3>2, <1>0
  <2>4. ASSUME NEW k \in 1 .. Len(q), q[k].allocated, k # i
        PROVE  \E j \in 1 .. Len(s) : s[j] = q[k]
    <3>1. CASE k < i
      BY <3>1, <2>2, <1>0
    <3>2. CASE k > i + 1
      <4>1. k - 1 \in 1 .. Len(s) /\ q[k] = s[k - 1]
        BY <3>2, <2>2, <1>0
      <4>. QED
        BY <4>1
    <3>. QED
      BY <2>2, <2>4, <3>1, <3>2, <1>0
  <2>5. i \in 1 .. Len(q)
    BY <2>2, <1>0
  <2>. QED
    BY <2>2, <2>3, <2>4, <2>5, <1>2
<1>. QED
  BY <1>1, <1>2

LEMMA AllocateOwned ==
    ASSUME PoolInv, OwnedInv, Serial, NEW t \in Threads, NEW n \in Requests,
           MmAllocatePoolWithTag(t, n)
    PROVE  OwnedInv' /\ Untouched
<1>0. machine = "ok" /\ Typed /\ Laid(blocks) /\ freeing' = freeing /\ freeing[t] = None
  BY DEF PoolInv, MmAllocatePoolWithTag
<1>1. PICK bytes \in Nat : bytes = BytesNeeded(n) /\ bytes >= n + Pad
  BY Needed
<1>2. PICK i \in Indices :
        /\ Fits(blocks[i], bytes)
        /\ blocks' = AllocateWhole(blocks, i) \/ blocks' = AllocatePart(blocks, i, bytes)
        /\ live' = live \cup {[addr |-> blocks[i].addr, bytes |-> n]}
  BY <1>1 DEF MmAllocatePoolWithTag, FirstFit
<1>3. /\ i \in 1 .. Len(blocks) /\ ~blocks[i].allocated /\ blocks[i].size > bytes
      /\ blocks[i].size \in Nat /\ n \in Nat /\ Pad \in Nat
  BY <1>0, <1>2, BlockFields, PoolAssumption DEF Indices, Fits, Laid
<1>4. /\ i \in 1 .. Len(blocks') /\ blocks'[i].addr = blocks[i].addr /\ blocks'[i].allocated
      /\ blocks'[i].size >= n + Pad
      /\ \A j \in 1 .. Len(blocks) : blocks[j].allocated =>
            \E k \in 1 .. Len(blocks') : blocks'[k] = blocks[j]
      /\ \A k \in 1 .. Len(blocks') : blocks'[k].allocated =>
            k = i \/ \E j \in 1 .. Len(blocks) : blocks[j] = blocks'[k]
  <2>1. /\ i \in 1 .. Len(blocks') /\ blocks'[i].addr = blocks[i].addr /\ blocks'[i].allocated
        /\ blocks'[i].size = blocks[i].size \/ blocks'[i].size = bytes
        /\ \A j \in 1 .. Len(blocks) : blocks[j].allocated =>
              \E k \in 1 .. Len(blocks') : blocks'[k] = blocks[j]
        /\ \A k \in 1 .. Len(blocks') : blocks'[k].allocated =>
              k = i \/ \E j \in 1 .. Len(blocks) : blocks[j] = blocks'[k]
    <3>1. PICK q : q = blocks'
      OBVIOUS
    <3>2. q = AllocateWhole(blocks, i) \/ q = AllocatePart(blocks, i, bytes)
      BY <3>1, <1>2
    <3>3. /\ i \in 1 .. Len(q) /\ q[i].addr = blocks[i].addr /\ q[i].allocated
          /\ q[i].size = blocks[i].size \/ q[i].size = bytes
      BY <3>2, <1>0, <1>3, TakeKeeps
    <3>4. \A j \in 1 .. Len(blocks) : blocks[j].allocated =>
            \E k \in 1 .. Len(q) : q[k] = blocks[j]
      BY <3>2, <1>0, <1>3, TakeKeeps
    <3>5. \A k \in 1 .. Len(q) : q[k].allocated =>
            k = i \/ \E j \in 1 .. Len(blocks) : blocks[j] = q[k]
      BY <3>2, <1>0, <1>3, TakeKeeps
    <3>. QED
      BY <3>1, <3>3, <3>4, <3>5
  <2>2. blocks'[i].size >= n + Pad
    BY <2>1, <1>1, <1>3
  <2>. QED
    BY <2>1, <2>2
<1>5. LiveIsAllocated'
  <2>1. ASSUME NEW l \in live'
        PROVE  \E k \in 1 .. Len(blocks') :
                  /\ blocks'[k].addr = l.addr /\ blocks'[k].allocated
                  /\ blocks'[k].size >= l.bytes + Pad
    <3>1. CASE l \in live
      <4>1. PICK j \in 1 .. Len(blocks) :
              /\ blocks[j].addr = l.addr /\ blocks[j].allocated
              /\ blocks[j].size >= l.bytes + Pad
        BY <3>1, <1>0 DEF OwnedInv, LiveIsAllocated, IsBlock, Indices
      <4>2. PICK k \in 1 .. Len(blocks') : blocks'[k] = blocks[j]
        BY <4>1, <1>4
      <4>. QED
        BY <4>1, <4>2
    <3>2. CASE l = [addr |-> blocks[i].addr, bytes |-> n]
      BY <3>2, <1>4
    <3>. QED
      BY <3>1, <3>2, <1>2
  <2>. QED
    BY <2>1 DEF LiveIsAllocated, IsBlock, Indices
<1>6. NoLeak'
  <2>1. ASSUME NEW k \in 1 .. Len(blocks'), blocks'[k].allocated
        PROVE  \E l \in live' : l.addr = blocks'[k].addr
    <3>1. CASE k = i
      <4>1. PICK l : l = [addr |-> blocks[i].addr, bytes |-> n]
        OBVIOUS
      <4>2. l \in live' /\ l.addr = blocks[i].addr
        BY <4>1, <1>2
      <4>3. blocks'[k].addr = blocks[i].addr
        BY <3>1, <1>4
      <4>. QED
        BY <4>2, <4>3
    <3>2. CASE \E j \in 1 .. Len(blocks) : blocks[j] = blocks'[k]
      <4>1. PICK j \in 1 .. Len(blocks) : blocks[j] = blocks'[k]
        BY <3>2
      <4>2. PICK l \in live : l.addr = blocks[j].addr
        BY <2>1, <4>1, <1>0 DEF OwnedInv, NoLeak, Indices
      <4>. QED
        BY <4>1, <4>2, <1>2
    <3>. QED
      BY <2>1, <3>1, <3>2, <1>4
  <2>. QED
    BY <2>1 DEF NoLeak, Indices
<1>7. FreeingIsFree'
  BY <1>0 DEF Serial, FreeingIsFree
<1>8. Untouched
  <2>1. ASSUME NEW l \in live, NEW j \in 1 .. Len(blocks), blocks[j].addr = l.addr
        PROVE  \E k \in 1 .. Len(blocks') : blocks'[k] = blocks[j]
    <3>1. PICK h \in 1 .. Len(blocks) : blocks[h].addr = l.addr /\ blocks[h].allocated
      BY <1>0 DEF OwnedInv, LiveIsAllocated, IsBlock, Indices
    <3>2. h = j
      BY <2>1, <3>1, <1>0, UniqueAddress
    <3>. QED
      BY <3>1, <3>2, <1>4
  <2>. QED
    BY <2>1 DEF Untouched, IsBlock, Indices
<1>. QED
  BY <1>5, <1>6, <1>7, <1>8 DEF OwnedInv

LEMMA FreeOwned ==
    ASSUME PoolInv, OwnedInv, Serial, ~CallersFreeTwice,
           NEW t \in Threads, NEW a \in Freeable, NEW tag \in FreeTags,
           MmFreePoolWithTag(t, a, tag)
    PROVE  OwnedInv' /\ Untouched
<1>0. machine = "ok" /\ Typed /\ Laid(blocks)
  BY DEF PoolInv, MmFreePoolWithTag
<1>1. CASE VerificationFails(HeaderAt(a), tag)
  <2>1. machine' = "bugcheck" /\ blocks' = blocks /\ freeing' = freeing /\ live' = live
    BY <1>1 DEF MmFreePoolWithTag
  <2>. QED
    BY <2>1, <1>0
       DEF OwnedInv, Untouched, LiveIsAllocated, NoLeak, FreeingIsFree, IsBlock, Indices
<1>2. CASE ~VerificationFails(HeaderAt(a), tag)
  <2>1. /\ blocks' = MarkedFree(a)
        /\ freeing' = [freeing EXCEPT ![t] = a]
        /\ live' = {l \in live : l.addr # a}
        /\ machine' = machine
    BY <1>2 DEF MmFreePoolWithTag
  <2>2. /\ Len(blocks') = Len(blocks) /\ Len(blocks) \in Nat
        /\ \A i \in 1 .. Len(blocks) : blocks[i].addr # a => blocks'[i] = blocks[i]
        /\ \A i \in 1 .. Len(blocks) : blocks[i].addr = a =>
              blocks'[i].addr = a /\ ~blocks'[i].allocated
    BY <2>1, <1>0 DEF MarkedFree, Indices, Laid
  <2>3. PICK h \in 1 .. Len(blocks) : blocks[h].addr = a
    BY <1>0 DEF Freeable, OwnedInv, LiveIsAllocated, IsBlock, Indices
  <2>4. LiveIsAllocated'
    <3>1. ASSUME NEW l \in live'
          PROVE  \E k \in 1 .. Len(blocks') :
                    /\ blocks'[k].addr = l.addr /\ blocks'[k].allocated
                    /\ blocks'[k].size >= l.bytes + Pad
      <4>1. l \in live /\ l.addr # a
        BY <2>1
      <4>2. PICK j \in 1 .. Len(blocks) :
              /\ blocks[j].addr = l.addr /\ blocks[j].allocated
              /\ blocks[j].size >= l.bytes + Pad
        BY <4>1, <1>0 DEF OwnedInv, LiveIsAllocated, IsBlock, Indices
      <4>. QED
        BY <4>1, <4>2, <2>2
    <3>. QED
      BY <3>1 DEF LiveIsAllocated, IsBlock, Indices
  <2>5. NoLeak'
    <3>1. ASSUME NEW k \in 1 .. Len(blocks'), blocks'[k].allocated
          PROVE  \E l \in live' : l.addr = blocks'[k].addr
      <4>1. blocks[k].addr # a /\ blocks'[k] = blocks[k] /\ k \in 1 .. Len(blocks)
        BY <3>1, <2>2
      <4>2. PICK l \in live : l.addr = blocks[k].addr
        BY <3>1, <4>1, <1>0 DEF OwnedInv, NoLeak, Indices
      <4>. QED
        BY <4>1, <4>2, <2>1
    <3>. QED
      BY <3>1 DEF NoLeak, Indices
  <2>6. FreeingIsFree'
    <3>1. ASSUME NEW u \in Threads
          PROVE  \E k \in 1 .. Len(blocks') :
                    blocks'[k].addr = freeing'[u] /\ ~blocks'[k].allocated
      <4>1. u = t /\ freeing'[u] = a
        BY <2>1, <1>0 DEF Serial, Typed
      <4>. QED
        BY <4>1, <2>2, <2>3
    <3>. QED
      BY <3>1 DEF FreeingIsFree, IsBlock, Indices
  <2>7. Untouched
    BY <2>1, <2>2 DEF Untouched, IsBlock, Indices
  <2>. QED
    BY <2>4, <2>5, <2>6, <2>7 DEF OwnedInv
<1>. QED
  BY <1>1, <1>2

LEMMA MergeOwned ==
    ASSUME PoolInv, OwnedInv, Serial, NEW t \in Threads, MergeBlocks(t)
    PROVE  OwnedInv' /\ Untouched
<1>0. /\ machine = "ok" /\ Typed /\ Laid(blocks) /\ live' = live
      /\ freeing[t] # None /\ freeing' = [freeing EXCEPT ![t] = None]
  BY DEF PoolInv, MergeBlocks
<1>1. PICK h \in 1 .. Len(blocks) : blocks[h].addr = freeing[t] /\ ~blocks[h].allocated
  BY <1>0 DEF OwnedInv, FreeingIsFree, IsBlock, Indices
<1>2. PICK i \in 1 .. Len(blocks) :
        blocks[i].addr = freeing[t] /\ blocks' = WithPrev(WithNext(blocks, i), i)
  BY <1>1 DEF MergeBlocks, IsBlock, Indices
<1>3. ~blocks[i].allocated
  BY <1>0, <1>1, <1>2, UniqueAddress
<1>4. SameAllocated(blocks, blocks')
  BY <1>0, <1>2, <1>3, MergeSame
<1>5. LiveIsAllocated'
  <2>1. ASSUME NEW l \in live
        PROVE  \E k \in 1 .. Len(blocks') :
                  /\ blocks'[k].addr = l.addr /\ blocks'[k].allocated
                  /\ blocks'[k].size >= l.bytes + Pad
    <3>1. PICK j \in 1 .. Len(blocks) :
            /\ blocks[j].addr = l.addr /\ blocks[j].allocated
            /\ blocks[j].size >= l.bytes + Pad
      BY <1>0 DEF OwnedInv, LiveIsAllocated, IsBlock, Indices
    <3>. QED
      BY <3>1, <1>4 DEF SameAllocated
  <2>. QED
    BY <2>1, <1>0 DEF LiveIsAllocated, IsBlock, Indices
<1>6. NoLeak'
  <2>1. ASSUME NEW k \in 1 .. Len(blocks'), blocks'[k].allocated
        PROVE  \E l \in live : l.addr = blocks'[k].addr
    <3>1. PICK j \in 1 .. Len(blocks) : blocks[j] = blocks'[k]
      BY <2>1, <1>4 DEF SameAllocated
    <3>. QED
      BY <2>1, <3>1, <1>0 DEF OwnedInv, NoLeak, Indices
  <2>. QED
    BY <2>1, <1>0 DEF NoLeak, Indices
<1>7. FreeingIsFree'
  <2>1. \A u \in Threads : freeing'[u] = None
    BY <1>0 DEF Serial, Typed
  <2>. QED
    BY <2>1 DEF FreeingIsFree
<1>8. Untouched
  <2>1. ASSUME NEW l \in live, NEW j \in 1 .. Len(blocks), blocks[j].addr = l.addr
        PROVE  \E k \in 1 .. Len(blocks') : blocks'[k] = blocks[j]
    <3>1. PICK g \in 1 .. Len(blocks) : blocks[g].addr = l.addr /\ blocks[g].allocated
      BY <1>0 DEF OwnedInv, LiveIsAllocated, IsBlock, Indices
    <3>2. g = j
      BY <2>1, <3>1, <1>0, UniqueAddress
    <3>. QED
      BY <3>1, <3>2, <1>4 DEF SameAllocated
  <2>. QED
    BY <2>1 DEF Untouched, IsBlock, Indices
<1>. QED
  BY <1>5, <1>6, <1>7, <1>8 DEF OwnedInv

LEMMA NextOwned ==
    Serial /\ ~CallersFreeTwice /\ PoolInv /\ OwnedInv /\ [Next]_vars => OwnedInv' /\ Untouched
<1> SUFFICES ASSUME Serial, ~CallersFreeTwice, PoolInv, OwnedInv, [Next]_vars
             PROVE  OwnedInv' /\ Untouched
  OBVIOUS
<1>1. CASE UNCHANGED vars
  BY <1>1 DEF vars, OwnedInv, Untouched, LiveIsAllocated, NoLeak, FreeingIsFree, IsBlock, Indices
<1>2. ASSUME NEW t \in Threads, NEW n \in Requests,
             MmAllocatePoolWithTag(t, n) \/ AllocationFails(t, n)
      PROVE  OwnedInv' /\ Untouched
  BY <1>1, <1>2, AllocateOwned DEF AllocationFails
<1>. QED
  BY <1>1, <1>2, FreeOwned, MergeOwned DEF Next

LEMMA InitOwned == Init => OwnedInv
<1> SUFFICES ASSUME Init PROVE OwnedInv
  OBVIOUS
<1>1. \A i \in Indices : ~blocks[i].allocated
  BY DEF Init, Indices
<1>. QED
  BY <1>1 DEF Init, OwnedInv, LiveIsAllocated, NoLeak, FreeingIsFree

\* With one thread in the pool, what a caller was given is an allocated block
\* of its own that is large enough, until it frees it.
THEOREM MemoryIsOwned ==
    ASSUME Serial, ~CallersFreeTwice
    PROVE  Spec => []LiveIsAllocated
<1>1. PoolInv /\ OwnedInv /\ [Next]_vars => (PoolInv /\ OwnedInv)'
  BY NextPoolInv, NextOwned
<1>2. Init => PoolInv /\ OwnedInv
  BY InitLaid, InitOwned
<1>3. PoolInv /\ OwnedInv => LiveIsAllocated
  BY DEF OwnedInv
<1>. QED
  BY <1>1, <1>2, <1>3, PTL DEF Spec

\* With one thread in the pool, no step moves or resizes a caller's block.
THEOREM MemoryIsUntouched ==
    ASSUME Serial, ~CallersFreeTwice
    PROVE  Spec => LiveUntouched
<1>1. PoolInv /\ OwnedInv /\ [Next]_vars => (PoolInv /\ OwnedInv)'
  BY NextPoolInv, NextOwned
<1>2. Init => PoolInv /\ OwnedInv
  BY InitLaid, InitOwned
<1>3. PoolInv /\ OwnedInv /\ [Next]_vars => [Untouched]_vars
  BY NextOwned
<1>4. LiveUntouched <=> [][Untouched]_vars
  BY DEF LiveUntouched, Untouched
<1>. QED
  BY <1>1, <1>2, <1>3, <1>4, PTL DEF Spec

-----------------------------------------------------------------------------
(* Blocks that are marked allocated belong to callers.  This needs neither   *)
(* that callers take turns nor that they free only once: a race in           *)
(* MmFreePoolWithTag takes memory from a caller, but never loses it.         *)

\* Every allocated block of q starts where an allocated block of s does.
AllocatedWithin(s, q) ==
    \A k \in 1 .. Len(q) : q[k].allocated =>
        \E j \in 1 .. Len(s) : s[j].allocated /\ s[j].addr = q[k].addr

\* A merged block has the state and the address of the first of the two.
LEMMA JoinWithin ==
    ASSUME NEW s, Laid(s), NEW i \in 1 .. Len(s) - 1,
           NEW q, JoinedAt(s, i, Joined(s[i], s[i + 1]), q)
    PROVE  AllocatedWithin(s, q)
<1>0. Len(s) \in Nat /\ i \in Nat /\ i \in 1 .. Len(s)
  BY DEF Laid
<1>1. /\ Len(q) = Len(s) - 1
      /\ q[i].allocated = s[i].allocated /\ q[i].addr = s[i].addr
      /\ \A j \in 1 .. i - 1 : q[j] = s[j]
      /\ \A j \in i + 1 .. Len(s) - 1 : q[j] = s[j + 1]
  BY DEF JoinedAt, Joined
<1>2. ASSUME NEW k \in 1 .. Len(q), q[k].allocated
      PROVE  \E j \in 1 .. Len(s) : s[j].allocated /\ s[j].addr = q[k].addr
  <2>1. CASE k < i
    BY <2>1, <1>0, <1>1, <1>2
  <2>2. CASE k = i
    BY <2>2, <1>0, <1>1, <1>2
  <2>3. CASE k > i
    <3>1. k + 1 \in 1 .. Len(s) /\ q[k] = s[k + 1]
      BY <2>3, <1>0, <1>1
    <3>. QED
      BY <3>1, <1>2
  <2>. QED
    BY <2>1, <2>2, <2>3, <1>0
<1>. QED
  BY <1>2 DEF AllocatedWithin

LEMMA MergeWithin ==
    ASSUME NEW s, Laid(s), NEW i \in 1 .. Len(s)
    PROVE  AllocatedWithin(s, WithPrev(WithNext(s, i), i))
<1>0. Len(s) \in Nat /\ i \in Nat
  BY DEF Laid
<1>1. PICK r : r = WithNext(s, i)
  OBVIOUS
<1>2. Laid(r) /\ i <= Len(r) /\ Len(r) \in Nat /\ AllocatedWithin(s, r)
  <2>1. CASE MergesNext(s, i)
    <3>1. i \in 1 .. Len(s) - 1
      BY <2>1, <1>0 DEF MergesNext
    <3>2. PICK q : q = Absorb(s, i) /\ JoinedAt(s, i, Joined(s[i], s[i + 1]), q) /\ Laid(q)
      BY <3>1, AbsorbLaid
    <3>3. Len(q) = Len(s) - 1
      BY <3>2 DEF JoinedAt
    <3>4. AllocatedWithin(s, q)
      BY <3>1, <3>2, JoinWithin
    <3>. QED
      BY <2>1, <3>1, <3>2, <3>3, <3>4, <1>0, <1>1 DEF WithNext
  <2>2. CASE ~MergesNext(s, i)
    BY <2>2, <1>0, <1>1 DEF WithNext, AllocatedWithin
  <2>. QED
    BY <2>1, <2>2
<1>3. AllocatedWithin(r, WithPrev(r, i))
  <2>1. CASE MergesPrev(r, i)
    <3>1. PICK h \in 1 .. Len(r) - 1 : h = i - 1
      BY <2>1, <1>0, <1>2 DEF MergesPrev
    <3>2. PICK q : q = Absorb(r, h) /\ JoinedAt(r, h, Joined(r[h], r[h + 1]), q)
      BY <3>1, <1>2, AbsorbLaid
    <3>3. AllocatedWithin(r, q)
      BY <3>1, <3>2, <1>2, JoinWithin
    <3>. QED
      BY <2>1, <3>1, <3>2, <3>3 DEF WithPrev
  <2>2. CASE ~MergesPrev(r, i)
    BY <2>2 DEF WithPrev, AllocatedWithin
  <2>. QED
    BY <2>1, <2>2
<1>. QED
  BY <1>1, <1>2, <1>3 DEF AllocatedWithin

\* A step keeps every allocated block in the hands of a caller.
LEMMA NextNoLeak == PoolInv /\ NoLeak /\ [Next]_vars => NoLeak'
<1> SUFFICES ASSUME PoolInv, NoLeak, [Next]_vars PROVE NoLeak'
  OBVIOUS
<1>1. CASE UNCHANGED vars
  BY <1>1 DEF vars, NoLeak, Indices
<1>2. ASSUME NEW t \in Threads, NEW n \in Requests, MmAllocatePoolWithTag(t, n)
      PROVE  NoLeak'
  <2>0. machine = "ok" /\ Laid(blocks)
    BY <1>2 DEF PoolInv, MmAllocatePoolWithTag
  <2>1. PICK bytes \in Nat : bytes = BytesNeeded(n)
    BY Needed
  <2>2. PICK i \in 1 .. Len(blocks) :
          /\ ~blocks[i].allocated
          /\ blocks' = AllocateWhole(blocks, i) \/ blocks' = AllocatePart(blocks, i, bytes)
          /\ live' = live \cup {[addr |-> blocks[i].addr, bytes |-> n]}
    BY <1>2, <2>1 DEF MmAllocatePoolWithTag, FirstFit, Fits, Indices
  <2>3. PICK q : q = blocks'
    OBVIOUS
  <2>4. /\ q[i].addr = blocks[i].addr
        /\ \A k \in 1 .. Len(q) :
              q[k].allocated => k = i \/ \E j \in 1 .. Len(blocks) : blocks[j] = q[k]
    BY <2>0, <2>2, <2>3, TakeKeeps
  <2>5. ASSUME NEW k \in 1 .. Len(q), q[k].allocated
        PROVE  \E l \in live' : l.addr = q[k].addr
    <3>1. CASE k = i
      <4>1. PICK l : l = [addr |-> blocks[i].addr, bytes |-> n]
        OBVIOUS
      <4>2. l \in live' /\ l.addr = blocks[i].addr
        BY <4>1, <2>2
      <4>. QED
        BY <3>1, <4>2, <2>4
    <3>2. CASE \E j \in 1 .. Len(blocks) : blocks[j] = q[k]
      <4>1. PICK j \in 1 .. Len(blocks) : blocks[j] = q[k]
        BY <3>2
      <4>2. PICK l \in live : l.addr = blocks[j].addr
        BY <2>0, <2>5, <4>1 DEF NoLeak, Indices
      <4>. QED
        BY <4>1, <4>2, <2>2
    <3>. QED
      BY <2>4, <2>5, <3>1, <3>2
  <2>. QED
    BY <2>3, <2>5 DEF NoLeak, Indices
<1>3. ASSUME NEW t \in Threads, NEW n \in Requests, AllocationFails(t, n)
      PROVE  NoLeak'
  BY <1>1, <1>3 DEF AllocationFails
<1>4. ASSUME NEW t \in Threads, NEW a \in Freeable, NEW tag \in FreeTags,
             MmFreePoolWithTag(t, a, tag)
      PROVE  NoLeak'
  <2>0. machine = "ok" /\ Laid(blocks)
    BY <1>4 DEF PoolInv, MmFreePoolWithTag
  <2>1. CASE VerificationFails(HeaderAt(a), tag)
    BY <1>4, <2>0, <2>1 DEF MmFreePoolWithTag, NoLeak, Indices
  <2>2. CASE ~VerificationFails(HeaderAt(a), tag)
    <3>1. blocks' = MarkedFree(a) /\ live' = {l \in live : l.addr # a}
      BY <1>4, <2>2 DEF MmFreePoolWithTag
    <3>2. /\ Len(blocks') = Len(blocks)
          /\ \A i \in 1 .. Len(blocks) : blocks[i].addr # a => blocks'[i] = blocks[i]
          /\ \A i \in 1 .. Len(blocks) : blocks[i].addr = a => ~blocks'[i].allocated
      BY <3>1, <2>0 DEF MarkedFree, Indices, Laid
    <3>3. ASSUME NEW k \in 1 .. Len(blocks'), blocks'[k].allocated
          PROVE  \E l \in live' : l.addr = blocks'[k].addr
      <4>1. k \in 1 .. Len(blocks) /\ blocks[k].addr # a /\ blocks'[k] = blocks[k]
        BY <3>2, <3>3
      <4>2. PICK l \in live : l.addr = blocks[k].addr
        BY <2>0, <3>3, <4>1 DEF NoLeak, Indices
      <4>. QED
        BY <4>1, <4>2, <3>1
    <3>. QED
      BY <3>3 DEF NoLeak, Indices
  <2>. QED
    BY <2>1, <2>2
<1>5. ASSUME NEW t \in Threads, MergeBlocks(t) PROVE NoLeak'
  <2>0. machine = "ok" /\ Laid(blocks) /\ live' = live
    BY <1>5 DEF PoolInv, MergeBlocks
  <2>1. CASE machine' = "corrupt"
    BY <2>1 DEF NoLeak
  <2>2. CASE \E i \in Indices : blocks' = WithPrev(WithNext(blocks, i), i)
    <3>1. AllocatedWithin(blocks, blocks')
      BY <2>0, <2>2, MergeWithin DEF Indices
    <3>2. ASSUME NEW k \in 1 .. Len(blocks'), blocks'[k].allocated
          PROVE  \E l \in live : l.addr = blocks'[k].addr
      <4>1. PICK j \in 1 .. Len(blocks) :
              blocks[j].allocated /\ blocks[j].addr = blocks'[k].addr
        BY <3>1, <3>2 DEF AllocatedWithin
      <4>. QED
        BY <2>0, <4>1 DEF NoLeak, Indices
    <3>. QED
      BY <3>2, <2>0 DEF NoLeak, Indices
  <2>. QED
    BY <1>5, <2>1, <2>2 DEF MergeBlocks
<1>. QED
  BY <1>1, <1>2, <1>3, <1>4, <1>5 DEF Next

\* Whatever callers do, and however many threads are in the pool, a block that
\* is marked allocated belongs to a caller that has not freed it.
THEOREM NothingLeaks == Spec => []NoLeak
<1>1. Init => PoolInv /\ NoLeak
  BY InitLaid, InitOwned DEF OwnedInv
<1>2. PoolInv /\ NoLeak /\ [Next]_vars => (PoolInv /\ NoLeak)'
  BY NextPoolInv, NextNoLeak
<1>. QED
  BY <1>1, <1>2, PTL DEF Spec

-----------------------------------------------------------------------------
(* Free memory does not stay cut up.                                         *)

\* The positions i at which blocks i and i + 1 are both free.
FreePairs(s) == {i \in 1 .. Len(s) - 1 : ~s[i].allocated /\ ~s[i + 1].allocated}

\* Outside MmFreePoolWithTag there are none; in it, they are at the block that
\* was marked, which is free whenever it is in the list.
CutInv ==
    machine # "corrupt" => \A t \in Threads :
        /\ freeing[t] = None => FreePairs(blocks) = {}
        /\ \A i \in Indices : IsBlock(i, freeing[t]) => ~blocks[i].allocated
        /\ \A i \in FreePairs(blocks) :
              freeing[t] \in {blocks[i].addr, blocks[i + 1].addr}

\* Taking all or the first part of a free block makes no pair.
LEMMA TakePairs ==
    ASSUME NEW s, Laid(s), NEW i \in 1 .. Len(s), ~s[i].allocated, NEW bytes \in Nat,
           FreePairs(s) = {},
           NEW q, q = AllocateWhole(s, i) \/ q = AllocatePart(s, i, bytes)
    PROVE  FreePairs(q) = {}
<1>0. /\ Len(s) \in Nat /\ i \in Nat
      /\ \A j \in 1 .. Len(s) - 1 : s[j].allocated \/ s[j + 1].allocated
  <2>1. Len(s) \in Nat /\ i \in Nat
    BY DEF Laid
  <2>2. ASSUME NEW j \in 1 .. Len(s) - 1 PROVE s[j].allocated \/ s[j + 1].allocated
    <3>1. j \notin FreePairs(s)
      OBVIOUS
    <3>. QED
      BY <3>1 DEF FreePairs
  <2>. QED
    BY <2>1, <2>2
<1>1. CASE q = AllocateWhole(s, i)
  <2>1. /\ Len(q) = Len(s) /\ q[i].allocated
        /\ \A j \in 1 .. Len(s) : j # i => q[j] = s[j]
    <3>1. /\ Len(q) = Len(s) /\ q[i] = Taken(s[i], s[i].size)
          /\ \A j \in 1 .. Len(s) : j # i => q[j] = s[j]
      BY <1>1, WholeLaid
    <3>. QED
      BY <3>1 DEF Taken
  <2>2. ASSUME NEW j \in 1 .. Len(q) - 1 PROVE q[j].allocated \/ q[j + 1].allocated
    <3>1. j \in 1 .. Len(s) - 1 /\ j \in 1 .. Len(s) /\ j + 1 \in 1 .. Len(s)
      BY <2>1, <1>0
    <3>2. CASE j = i \/ j + 1 = i
      BY <3>2, <2>1
    <3>3. CASE j # i /\ j + 1 # i
      BY <3>1, <3>3, <2>1, <1>0
    <3>. QED
      BY <3>2, <3>3
  <2>. QED
    BY <2>2 DEF FreePairs
<1>2. CASE q = AllocatePart(s, i, bytes)
  <2>1. SplitAt(s, i, Taken(s[i], bytes), NewPoolBlock(s[i], bytes), q)
    BY <1>2, DivideLaid
  <2>2. /\ Len(q) = Len(s) + 1 /\ q[i].allocated
        /\ \A j \in 1 .. i - 1 : q[j] = s[j]
        /\ \A j \in i + 2 .. Len(s) + 1 : q[j] = s[j - 1]
    BY <2>1 DEF SplitAt, Taken
  <2>3. ASSUME NEW j \in 1 .. Len(q) - 1 PROVE q[j].allocated \/ q[j + 1].allocated
    <3>1. CASE j + 1 < i
      BY <3>1, <2>2, <1>0
    <3>2. CASE j = i \/ j + 1 = i
      BY <3>2, <2>2
    <3>3. CASE j = i + 1
      <4>1. q[j + 1] = s[i + 1] /\ i \in 1 .. Len(s) - 1
        BY <3>3, <2>2, <1>0
      <4>. QED
        BY <4>1, <1>0
    <3>4. CASE j > i + 1
      <4>1. /\ j \in i + 2 .. Len(s) + 1 /\ j + 1 \in i + 2 .. Len(s) + 1
            /\ j - 1 \in 1 .. Len(s) - 1 /\ (j + 1) - 1 = (j - 1) + 1
        BY <3>4, <2>2, <1>0
      <4>2. q[j] = s[j - 1] /\ q[j + 1] = s[(j - 1) + 1]
        BY <4>1, <2>2
      <4>. QED
        BY <4>1, <4>2, <1>0
    <3>. QED
      BY <3>1, <3>2, <3>3, <3>4, <1>0
  <2>. QED
    BY <2>3 DEF FreePairs
<1>. QED
  BY <1>1, <1>2

\* Merging the blocks of a pair leaves the other pairs where they are.
LEMMA JoinPairs ==
    ASSUME NEW s, Laid(s), NEW h \in 1 .. Len(s) - 1, h \in FreePairs(s),
           NEW q, JoinedAt(s, h, Joined(s[h], s[h + 1]), q)
    PROVE  \A j \in FreePairs(q) : \/ j < h /\ j \in FreePairs(s)
                                   \/ j >= h /\ j + 1 \in FreePairs(s)
<1>0. Len(s) \in Nat /\ h \in Nat /\ ~s[h].allocated /\ ~s[h + 1].allocated
  BY DEF Laid, FreePairs
<1>1. /\ Len(q) = Len(s) - 1 /\ ~q[h].allocated
      /\ \A j \in 1 .. h - 1 : q[j] = s[j]
      /\ \A j \in h + 1 .. Len(s) - 1 : q[j] = s[j + 1]
  BY <1>0 DEF JoinedAt, Joined
<1>2. ASSUME NEW j \in FreePairs(q)
      PROVE  \/ j < h /\ j \in FreePairs(s)
             \/ j >= h /\ j + 1 \in FreePairs(s)
  <2>1. j \in 1 .. Len(q) - 1 /\ ~q[j].allocated /\ ~q[j + 1].allocated
    BY DEF FreePairs
  <2>2. CASE j + 1 < h
    <3>1. q[j] = s[j] /\ q[j + 1] = s[j + 1] /\ j \in 1 .. Len(s) - 1
      BY <2>1, <2>2, <1>0, <1>1
    <3>. QED
      BY <3>1, <2>1, <2>2, <1>0 DEF FreePairs
  <2>3. CASE j + 1 = h
    <3>1. q[j] = s[j] /\ j \in 1 .. Len(s) - 1 /\ j < h
      BY <2>1, <2>3, <1>0, <1>1
    <3>. QED
      BY <3>1, <2>1, <2>3, <1>0 DEF FreePairs
  <2>4. CASE j >= h
    <3>1. q[j + 1] = s[(j + 1) + 1] /\ j + 1 \in 1 .. Len(s) - 1
      BY <2>1, <2>4, <1>0, <1>1
    <3>2. ~s[j + 1].allocated
      <4>1. CASE j = h
        BY <4>1, <1>0
      <4>2. CASE j > h
        <5>1. q[j] = s[j + 1]
          BY <4>2, <2>1, <1>0, <1>1
        <5>. QED
          BY <5>1, <2>1
      <4>. QED
        BY <4>1, <4>2, <2>1, <2>4, <1>0
    <3>. QED
      BY <3>1, <3>2, <2>1, <2>4 DEF FreePairs
  <2>. QED
    BY <2>1, <2>2, <2>3, <2>4, <1>0
<1>. QED
  BY <1>2

\* MmFreePoolWithTag merges the pairs on both sides of its block.
LEMMA MergePairs ==
    ASSUME NEW s, Laid(s), NEW i \in 1 .. Len(s), ~s[i].allocated,
           \A j \in FreePairs(s) : j = i \/ j + 1 = i
    PROVE  FreePairs(WithPrev(WithNext(s, i), i)) = {}
<1>0. Len(s) \in Nat /\ i \in Nat
  BY DEF Laid
<1>1. PICK r : r = WithNext(s, i)
  OBVIOUS
<1>2. /\ Laid(r) /\ i <= Len(r) /\ Len(r) \in Nat /\ ~r[i].allocated
      /\ \A j \in FreePairs(r) : j + 1 = i
  <2>1. CASE MergesNext(s, i)
    <3>1. i \in 1 .. Len(s) - 1 /\ ~s[i + 1].allocated
      BY <2>1, <1>0 DEF MergesNext
    <3>2. PICK q : q = Absorb(s, i) /\ JoinedAt(s, i, Joined(s[i], s[i + 1]), q) /\ Laid(q)
      BY <3>1, AbsorbLaid
    <3>3. Len(q) = Len(s) - 1 /\ ~q[i].allocated
      BY <3>2 DEF JoinedAt, Joined
    <3>4. i \in FreePairs(s)
      BY <3>1 DEF FreePairs
    <3>5. \A j \in FreePairs(q) : \/ j < i /\ j \in FreePairs(s)
                                  \/ j >= i /\ j + 1 \in FreePairs(s)
      BY <3>1, <3>2, <3>4, JoinPairs
    <3>6. \A j \in FreePairs(q) : j \in Nat
      BY <3>3, <1>0 DEF FreePairs
    <3>7. \A j \in FreePairs(q) : j + 1 = i
      BY <3>5, <3>6, <1>0
    <3>. QED
      BY <2>1, <3>1, <3>2, <3>3, <3>7, <1>0, <1>1 DEF WithNext
  <2>2. CASE ~MergesNext(s, i)
    <3>1. r = s
      BY <2>2, <1>1 DEF WithNext
    <3>2. i \notin FreePairs(s)
      BY <2>2, <1>0 DEF MergesNext, FreePairs
    <3>. QED
      BY <3>1, <3>2, <1>0
  <2>. QED
    BY <2>1, <2>2
<1>3. CASE MergesPrev(r, i)
  <2>1. PICK h \in 1 .. Len(r) - 1 : h = i - 1 /\ ~r[h].allocated /\ ~r[h + 1].allocated
    BY <1>3, <1>0, <1>2 DEF MergesPrev
  <2>2. PICK q : q = Absorb(r, h) /\ JoinedAt(r, h, Joined(r[h], r[h + 1]), q)
    BY <2>1, <1>2, AbsorbLaid
  <2>3. h \in FreePairs(r)
    BY <2>1 DEF FreePairs
  <2>4. \A j \in FreePairs(q) : \/ j < h /\ j \in FreePairs(r)
                                \/ j >= h /\ j + 1 \in FreePairs(r)
    BY <2>1, <2>2, <2>3, <1>2, JoinPairs
  <2>5. \A j \in FreePairs(q) : j \in Nat
    BY <2>2, <1>2 DEF FreePairs, JoinedAt
  <2>6. FreePairs(q) = {}
    BY <2>1, <2>4, <2>5, <1>0, <1>2
  <2>. QED
    BY <2>1, <2>2, <2>6, <1>1, <1>3 DEF WithPrev
<1>4. CASE ~MergesPrev(r, i)
  <2>1. ASSUME NEW j \in FreePairs(r) PROVE FALSE
    <3>1. j + 1 = i /\ j \in 1 .. Len(r) - 1 /\ ~r[j].allocated
      BY <1>2 DEF FreePairs
    <3>2. j = i - 1 /\ 1 < i
      BY <3>1, <1>0, <1>2
    <3>. QED
      BY <3>1, <3>2, <1>4 DEF MergesPrev
  <2>. QED
    BY <2>1, <1>1, <1>4 DEF WithPrev
<1>. QED
  BY <1>3, <1>4

LEMMA NextCut == Serial /\ PoolInv /\ CutInv /\ [Next]_vars => CutInv'
<1> SUFFICES ASSUME Serial, PoolInv, CutInv, [Next]_vars PROVE CutInv'
  OBVIOUS
<1>1. CASE UNCHANGED vars
  BY <1>1 DEF vars, CutInv, Indices, IsBlock, FreePairs
<1>2. ASSUME NEW t \in Threads, NEW n \in Requests, MmAllocatePoolWithTag(t, n)
      PROVE  CutInv'
  <2>0. /\ machine = "ok" /\ Laid(blocks) /\ FreePairs(blocks) = {}
        /\ freeing' = freeing /\ Typed /\ freeing[t] = None
    BY <1>2 DEF PoolInv, MmAllocatePoolWithTag, CutInv
  <2>1. PICK bytes \in Nat : bytes = BytesNeeded(n)
    BY Needed
  <2>2. PICK i \in 1 .. Len(blocks) :
          /\ ~blocks[i].allocated
          /\ blocks' = AllocateWhole(blocks, i) \/ blocks' = AllocatePart(blocks, i, bytes)
    BY <1>2, <2>1 DEF MmAllocatePoolWithTag, FirstFit, Fits, Indices
  <2>3. FreePairs(blocks') = {}
    BY <2>0, <2>2, TakePairs
  <2>4. PoolInv'
    BY <1>2, AllocateInv
  <2>5. ASSUME NEW u \in Threads, machine' # "corrupt"
        PROVE  \A i_1 \in 1 .. Len(blocks') : blocks'[i_1].addr # freeing'[u]
    <3>1. freeing'[u] = None
      BY <2>0 DEF Serial
    <3>2. blocks' \in Seq(Block)
      BY <2>4, <2>5 DEF PoolInv, Laid
    <3>3. \A i_1 \in 1 .. Len(blocks') : blocks'[i_1].addr \in Nat
      BY <3>2, BlockFields
    <3>. QED
      BY <3>1, <3>3, PoolAssumption
  <2>. QED
    BY <2>3, <2>5 DEF CutInv, IsBlock, Indices
<1>3. ASSUME NEW t \in Threads, NEW n \in Requests, AllocationFails(t, n)
      PROVE  CutInv'
  BY <1>1, <1>3 DEF AllocationFails
<1>4. ASSUME NEW t \in Threads, NEW a \in Freeable, NEW tag \in FreeTags,
             MmFreePoolWithTag(t, a, tag)
      PROVE  CutInv'
  <2>0. /\ machine = "ok" /\ Laid(blocks) /\ Typed /\ freeing[t] = None
        /\ FreePairs(blocks) = {} /\ a \in Nat
    BY <1>4 DEF PoolInv, MmFreePoolWithTag, CutInv, Freeable, Typed
  <2>1. CASE VerificationFails(HeaderAt(a), tag)
    BY <1>4, <2>0, <2>1 DEF MmFreePoolWithTag, CutInv, Indices, IsBlock, FreePairs
  <2>2. CASE ~VerificationFails(HeaderAt(a), tag)
    <3>1. blocks' = MarkedFree(a) /\ freeing' = [freeing EXCEPT ![t] = a]
      BY <1>4, <2>2 DEF MmFreePoolWithTag
    <3>2. /\ Len(blocks') = Len(blocks) /\ Len(blocks) \in Nat
          /\ \A i \in 1 .. Len(blocks) : blocks[i].addr # a => blocks'[i] = blocks[i]
          /\ \A i \in 1 .. Len(blocks) :
                blocks[i].addr = a => blocks'[i].addr = a /\ ~blocks'[i].allocated
      BY <3>1, <2>0 DEF MarkedFree, Indices, Laid
    <3>3. ASSUME NEW u \in Threads PROVE freeing'[u] = a /\ a # None
      BY <3>1, <2>0, PoolAssumption DEF Serial, Typed
    <3>4. \A i \in 1 .. Len(blocks') : blocks'[i].addr = a => ~blocks'[i].allocated
      BY <3>2
    <3>5. ASSUME NEW i \in FreePairs(blocks')
          PROVE  a \in {blocks'[i].addr, blocks'[i + 1].addr}
      <4>1. /\ i \in 1 .. Len(blocks) - 1
            /\ ~blocks'[i].allocated /\ ~blocks'[i + 1].allocated
        BY <3>2 DEF FreePairs
      <4>2. blocks[i].allocated \/ blocks[i + 1].allocated
        BY <2>0, <4>1 DEF FreePairs
      <4>3. blocks[i].addr = a \/ blocks[i + 1].addr = a
        BY <3>2, <4>1, <4>2
      <4>. QED
        BY <3>2, <4>1, <4>3
    <3>. QED
      BY <3>3, <3>4, <3>5 DEF CutInv, IsBlock, Indices
  <2>. QED
    BY <2>1, <2>2
<1>5. ASSUME NEW t \in Threads, MergeBlocks(t) PROVE CutInv'
  <2>0. /\ machine = "ok" /\ Laid(blocks) /\ Typed
        /\ freeing' = [freeing EXCEPT ![t] = None] /\ freeing[t] # None
    BY <1>5 DEF PoolInv, MergeBlocks
  <2>1. CASE machine' = "corrupt"
    BY <2>1 DEF CutInv
  <2>2. CASE \E i \in Indices : /\ IsBlock(i, freeing[t])
                                /\ blocks' = WithPrev(WithNext(blocks, i), i)
    <3>1. PICK i \in 1 .. Len(blocks) : /\ blocks[i].addr = freeing[t]
                                         /\ ~blocks[i].allocated
                                         /\ blocks' = WithPrev(WithNext(blocks, i), i)
      BY <2>0, <2>2 DEF IsBlock, Indices, CutInv
    <3>2. ASSUME NEW j \in FreePairs(blocks) PROVE j = i \/ j + 1 = i
      <4>1. /\ j \in 1 .. Len(blocks) /\ j + 1 \in 1 .. Len(blocks)
            /\ freeing[t] = blocks[j].addr \/ freeing[t] = blocks[j + 1].addr
        BY <2>0 DEF CutInv, FreePairs, Laid
      <4>. QED
        BY <4>1, <3>1, <2>0, UniqueAddress
    <3>3. FreePairs(blocks') = {}
      BY <2>0, <3>1, <3>2, MergePairs
    <3>4. Laid(blocks')
      BY <2>0, <3>1, MergeLaid
    <3>5. ASSUME NEW u \in Threads, NEW k \in 1 .. Len(blocks')
          PROVE  blocks'[k].addr # freeing'[u]
      <4>1. freeing'[u] = None
        BY <2>0 DEF Serial, Typed
      <4>2. blocks'[k] \in Block
        BY <3>4 DEF Laid
      <4>. QED
        BY <4>1, <4>2, BlockFields, PoolAssumption
    <3>. QED
      BY <3>3, <3>5 DEF CutInv, IsBlock, Indices
  <2>. QED
    BY <1>5, <2>1, <2>2 DEF MergeBlocks
<1>. QED
  BY <1>1, <1>2, <1>3, <1>4, <1>5 DEF Next

\* With one thread in the pool at a time, two neighbours are both free only
\* while one of them is being freed, even if callers free a pointer again.
THEOREM FreeMemoryIsCoalesced ==
    ASSUME Serial, Threads # {}
    PROVE  Spec => []Coalesced
<1>1. Init => PoolInv /\ CutInv
  <2>1. SUFFICES ASSUME Init PROVE CutInv
    BY InitLaid
  <2>2. FreePairs(blocks) = {} /\ \A i \in Indices : ~blocks[i].allocated
    <3>1. PICK b : b = [addr |-> 0, size |-> PoolSize - Header, allocated |-> FALSE]
      OBVIOUS
    <3>2. blocks = <<b>>
      BY <2>1, <3>1 DEF Init
    <3>3. ~b.allocated
      BY <3>1
    <3>4. Len(blocks) = 1 /\ blocks[1] = b
      BY <3>2
    <3>. QED
      BY <3>3, <3>4 DEF FreePairs, Indices
  <2>. QED
    BY <2>2 DEF CutInv
<1>2. PoolInv /\ CutInv /\ [Next]_vars => (PoolInv /\ CutInv)'
  BY NextPoolInv, NextCut
<1>3. CutInv => Coalesced
  <2>1. PICK t : t \in Threads
    OBVIOUS
  <2>. QED
    BY <2>1 DEF CutInv, Coalesced, FreePairs
<1>. QED
  BY <1>1, <1>2, <1>3, PTL DEF Spec
=============================================================================
