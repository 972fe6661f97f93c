---------------------------- MODULE BitmapProofs ----------------------------
(***************************************************************************)
(* The operations on bitmaps do to an array of elements what they are      *)
(* meant to do to the set of its 1 bits, for every element size and every  *)
(* number of bits.                                                         *)
(***************************************************************************)
EXTENDS Bitmap, FiniteSetTheorems, WellFoundedInduction, TLAPS

-----------------------------------------------------------------------------
(* Bits and elements.                                                       *)

\* Dividing by the number of bits in an element.
LEMMA Divide ==
    ASSUME NEW i \in Nat
    PROVE  /\ i \div ELEM_BITS \in Nat /\ i % ELEM_BITS \in 0 .. ELEM_BITS - 1
           /\ i = (i \div ELEM_BITS) * ELEM_BITS + (i % ELEM_BITS)
BY ElemAssumption

LEMMA DivideBack ==
    ASSUME NEW e \in Nat, NEW j \in 0 .. ELEM_BITS - 1
    PROVE  (e * ELEM_BITS + j) \div ELEM_BITS = e /\ (e * ELEM_BITS + j) % ELEM_BITS = j
BY ElemAssumption

LEMMA Unique ==
    ASSUME NEW e \in Nat, NEW j \in 0 .. ELEM_BITS - 1, NEW d \in Nat, NEW k \in 0 .. ELEM_BITS - 1,
           e * ELEM_BITS + j = d * ELEM_BITS + k
    PROVE  e = d /\ j = k
BY ElemAssumption

LEMMA ElementExists ==
    ASSUME NEW n \in Nat, NEW i \in 0 .. n - 1
    PROVE  /\ BmElementCount(n) \in Nat
           /\ BmElementIndex(i) \in 0 .. BmElementCount(n) - 1
BY ElemAssumption DEF BmElementCount, BmElementIndex

\* A bit is in one element, at one place.
LEMMA TestIs ==
    ASSUME NEW n \in Nat, NEW b \in Bitmaps(n), NEW e \in Nat, NEW j \in 0 .. ELEM_BITS - 1
    PROVE  BmBitmapTest(b, e * ELEM_BITS + j) <=> j \in b.bits[e]
BY DivideBack DEF BmBitmapTest, BmElementIndex, BmBitMask

\* The bits of a bitmap are those of its elements.
LEMMA OnesIs ==
    ASSUME NEW n \in Nat, NEW b \in Bitmaps(n), NEW i \in Int
    PROVE  i \in Ones(b) <=> i \in 0 .. n - 1 /\ i % ELEM_BITS \in b.bits[i \div ELEM_BITS]
BY DEF Ones, BmBitmapTest, BmElementIndex, BmBitMask, Bitmaps

\* Setting or clearing a run.
LEMMA SetMultipleIs ==
    ASSUME NEW n \in Nat, NEW b \in Bitmaps(n), NEW start \in Nat, NEW cnt \in Nat, start + cnt <= n,
           NEW value \in BOOLEAN
    PROVE  /\ BmBitmapSetMultiple(b, start, cnt, value) \in Bitmaps(n)
           /\ Ones(BmBitmapSetMultiple(b, start, cnt, value))
                 = IF value THEN Ones(b) \cup Run(start, cnt) ELSE Ones(b) \ Run(start, cnt)
<1>1. PICK c : c = BmBitmapSetMultiple(b, start, cnt, value)
  OBVIOUS
<1>2. /\ b.bits \in [0 .. BmElementCount(n) - 1 -> SUBSET (0 .. ELEM_BITS - 1)] /\ b.BitCount = n
      /\ \A e \in 0 .. BmElementCount(n) - 1 : \A j \in b.bits[e] : e * ELEM_BITS + j < n
      /\ b = [BitCount |-> n, bits |-> b.bits]
  BY DEF Bitmaps, Elements
<1>3. c = [BitCount |-> n, bits |-> [e \in 0 .. BmElementCount(n) - 1 |->
               IF value THEN b.bits[e] \cup Covered(e, start, cnt) ELSE b.bits[e] \ Covered(e, start, cnt)]]
  BY <1>1, <1>2 DEF BmBitmapSetMultiple
<1>4. c \in Bitmaps(n)
  <2>1. \A e \in 0 .. BmElementCount(n) - 1 : Covered(e, start, cnt) \in SUBSET (0 .. ELEM_BITS - 1)
    BY DEF Covered
  <2>2. c.bits \in Elements(n) /\ DOMAIN c.bits = 0 .. BmElementCount(n) - 1 /\ c.BitCount = n
    BY <1>2, <1>3, <2>1 DEF Elements
  <2>3. \A e \in 0 .. BmElementCount(n) - 1 : \A j \in c.bits[e] : e * ELEM_BITS + j < n
    <3>1. SUFFICES ASSUME NEW e \in 0 .. BmElementCount(n) - 1, NEW j \in c.bits[e]
                   PROVE  e * ELEM_BITS + j < n
      OBVIOUS
    <3>2. j \in b.bits[e] \/ j \in Covered(e, start, cnt)
      BY <1>3, <3>1
    <3>3. ASSUME j \in Covered(e, start, cnt) PROVE e * ELEM_BITS + j < n
      <4>1. e * ELEM_BITS + j \in start .. start + cnt - 1
        BY <3>3 DEF Covered
      <4>. QED
        BY <4>1
    <3>. QED
      BY <1>2, <3>2, <3>3
  <2>. QED
    BY <1>3, <2>2, <2>3 DEF Bitmaps
<1>5. ASSUME NEW i \in Int
      PROVE  i \in Ones(c) <=> IF value THEN i \in Ones(b) \/ i \in Run(start, cnt)
                                        ELSE i \in Ones(b) /\ i \notin Run(start, cnt)
  <2>1. CASE i \notin 0 .. n - 1
    BY <1>4, <2>1, OnesIs DEF Run
  <2>2. CASE i \in 0 .. n - 1
    <3>1. PICK e \in 0 .. BmElementCount(n) - 1 : e = i \div ELEM_BITS
      BY <2>2, ElementExists DEF BmElementIndex
    <3>2. PICK j \in 0 .. ELEM_BITS - 1 : j = i % ELEM_BITS
      BY <2>2, Divide
    <3>3. i = e * ELEM_BITS + j
      BY <2>2, <3>1, <3>2, Divide
    <3>4. j \in Covered(e, start, cnt) <=> i \in Run(start, cnt)
      BY <3>3 DEF Covered, Run
    <3>5. c.bits[e] = IF value THEN b.bits[e] \cup Covered(e, start, cnt)
                               ELSE b.bits[e] \ Covered(e, start, cnt)
      BY <1>3
    <3>6. (i \in Ones(c) <=> j \in c.bits[e]) /\ (i \in Ones(b) <=> j \in b.bits[e])
      BY <1>4, <2>2, <3>1, <3>2, OnesIs
    <3>. QED
      BY <3>4, <3>5, <3>6
  <2>. QED
    BY <2>1, <2>2
<1>6. Ones(b) \subseteq Int /\ Ones(c) \subseteq Int /\ Run(start, cnt) \subseteq Int
  BY <1>2, <1>3 DEF Ones, Run
<1>. QED
  BY <1>1, <1>4, <1>5, <1>6

LEMMA CreateIs ==
    ASSUME NEW n \in Nat
    PROVE  BmBitmapCreateInBuffer(n) \in Bitmaps(n) /\ Ones(BmBitmapCreateInBuffer(n)) = {}
<1>1. PICK b : b = BmBitmapCreateInBuffer(n)
  OBVIOUS
<1>2. b.BitCount = n /\ b.bits \in [0 .. BmElementCount(n) - 1 -> SUBSET (0 .. ELEM_BITS - 1)]
      /\ \A e \in 0 .. BmElementCount(n) - 1 : b.bits[e] = {}
  BY <1>1 DEF BmBitmapCreateInBuffer
<1>3. b \in Bitmaps(n)
  BY <1>1, <1>2 DEF Bitmaps, Elements, BmBitmapCreateInBuffer
<1>4. ASSUME NEW i \in Ones(b) PROVE FALSE
  <2>1. i \in 0 .. n - 1
    BY <1>2, <1>4 DEF Ones
  <2>2. i % ELEM_BITS \in b.bits[i \div ELEM_BITS]
    BY <1>3, <2>1, OnesIs
  <2>3. i \div ELEM_BITS \in 0 .. BmElementCount(n) - 1
    BY <2>1, ElementExists DEF BmElementIndex
  <2>. QED
    BY <1>2, <2>2, <2>3
<1>. QED
  BY <1>1, <1>3, <1>4

-----------------------------------------------------------------------------
(* Scanning.                                                                *)

NatLess == {ss \in Nat \X Nat : ss[1] < ss[2]}

LEMMA NatLessWellFounded == IsWellFoundedOn(NatLess, Nat)
BY NatLessThanWellFounded DEF OpToRel, NatLess

LEMMA MinIs ==
    ASSUME NEW S, S \subseteq Nat, S # {}
    PROVE  Min(S) \in S /\ \A k \in S : Min(S) <= k
<1>1. PICK c \in S : \A k \in S : ~(<<k, c>> \in NatLess)
  BY NatLessWellFounded, WFMin
<1>2. ASSUME NEW k \in S PROVE c <= k
  <2>1. k \in Nat /\ c \in Nat
    OBVIOUS
  <2>2. k < c => <<k, c>> \in NatLess
    BY <2>1 DEF NatLess
  <2>. QED
    BY <1>1, <2>1, <2>2
<1>. QED
  BY <1>2 DEF Min

\* What a run of bits contains, as a set.
LEMMA ContainsIs ==
    ASSUME NEW n \in Nat, NEW b \in Bitmaps(n), NEW i \in Nat, NEW cnt \in Nat, i + cnt <= n
    PROVE  /\ BmBitmapContains(b, i, cnt, TRUE) <=> Run(i, cnt) \cap Ones(b) # {}
           /\ BmBitmapContains(b, i, cnt, FALSE) <=> ~(Run(i, cnt) \subseteq Ones(b))
<1>1. b.BitCount = n
  BY DEF Bitmaps
<1>2. ASSUME NEW k \in 0 .. cnt - 1
      PROVE  i + k \in Run(i, cnt) /\ (BmBitmapTest(b, i + k) <=> i + k \in Ones(b))
  BY <1>1, <1>2 DEF Run, Ones
<1>3. ASSUME NEW x \in Run(i, cnt) PROVE x - i \in 0 .. cnt - 1 /\ i + (x - i) = x
  BY <1>3 DEF Run
<1>4. BmBitmapContains(b, i, cnt, TRUE) => Run(i, cnt) \cap Ones(b) # {}
  BY <1>2 DEF BmBitmapContains
<1>5. Run(i, cnt) \cap Ones(b) # {} => BmBitmapContains(b, i, cnt, TRUE)
  <2>1. SUFFICES ASSUME NEW x \in Run(i, cnt), x \in Ones(b)
                 PROVE  BmBitmapContains(b, i, cnt, TRUE)
    OBVIOUS
  <2>2. BmBitmapTest(b, i + (x - i))
    BY <1>2, <1>3, <2>1
  <2>. QED
    BY <1>3, <2>2 DEF BmBitmapContains
<1>6. BmBitmapContains(b, i, cnt, FALSE) => ~(Run(i, cnt) \subseteq Ones(b))
  BY <1>2 DEF BmBitmapContains
<1>7. ~(Run(i, cnt) \subseteq Ones(b)) => BmBitmapContains(b, i, cnt, FALSE)
  <2>1. SUFFICES ASSUME NEW x \in Run(i, cnt), x \notin Ones(b)
                 PROVE  BmBitmapContains(b, i, cnt, FALSE)
    OBVIOUS
  <2>2. ~BmBitmapTest(b, i + (x - i))
    BY <1>2, <1>3, <2>1
  <2>. QED
    BY <1>3, <2>2 DEF BmBitmapContains
<1>. QED
  BY <1>4, <1>5, <1>6, <1>7

\* BmBitmapScan returns the first run, if there is one.
LEMMA ScanIs ==
    ASSUME NEW n \in Nat, NEW b \in Bitmaps(n), NEW start \in Nat, NEW cnt \in Nat,
           NEW value \in BOOLEAN
    PROVE  IsFirstRun(b, start, cnt, value, BmBitmapScan(b, start, cnt, value))
<1>1. b.BitCount = n
  BY DEF Bitmaps
<1>2. PICK hits : hits = {i \in Starts(b, start, cnt) : ~BmBitmapContains(b, i, cnt, ~value)}
  OBVIOUS
<1>3. PICK runs : runs = {k \in start .. b.BitCount : k + cnt <= b.BitCount
                             /\ IF value THEN Run(k, cnt) \subseteq Ones(b) ELSE Run(k, cnt) \cap Ones(b) = {}}
  OBVIOUS
<1>4. ASSUME NEW k \in Nat
      PROVE  k \in Starts(b, start, cnt) <=> k \in start .. b.BitCount /\ k + cnt <= b.BitCount
  BY <1>1 DEF Starts
<1>5. ASSUME NEW k \in Nat, k + cnt <= b.BitCount
      PROVE  ~BmBitmapContains(b, k, cnt, ~value) <=>
                IF value THEN Run(k, cnt) \subseteq Ones(b) ELSE Run(k, cnt) \cap Ones(b) = {}
  <2>1. CASE value
    <3>1. ~value = FALSE
      BY <2>1
    <3>. QED
      BY <1>1, <1>5, <2>1, <3>1, ContainsIs
  <2>2. CASE ~value
    <3>1. ~value = TRUE
      BY <2>2
    <3>. QED
      BY <1>1, <1>5, <2>2, <3>1, ContainsIs
  <2>. QED
    BY <2>1, <2>2
<1>6. hits = runs
  <2>1. hits \subseteq Nat /\ runs \subseteq Nat
    BY <1>1, <1>2, <1>3 DEF Starts
  <2>2. ASSUME NEW k \in Nat PROVE k \in hits <=> k \in runs
    BY <1>2, <1>3, <1>4, <1>5
  <2>. QED
    BY <2>1, <2>2
<1>7. BmBitmapScan(b, start, cnt, value) = IF runs = {} THEN BITMAP_ERROR ELSE Min(runs)
  BY <1>2, <1>6 DEF BmBitmapScan
<1>8. runs \subseteq Nat
  BY <1>1, <1>3
<1>9. runs # {} => Min(runs) \in runs /\ (\A k \in runs : Min(runs) <= k) /\ Min(runs) # BITMAP_ERROR
  <2>1. SUFFICES ASSUME runs # {} PROVE Min(runs) \in runs /\ (\A k \in runs : Min(runs) <= k) /\ Min(runs) # BITMAP_ERROR
    OBVIOUS
  <2>2. Min(runs) \in runs /\ (\A k \in runs : Min(runs) <= k)
    BY <1>8, <2>1, MinIs
  <2>3. Min(runs) \in Nat
    BY <1>8, <2>2
  <2>. QED
    BY <2>2, <2>3 DEF BITMAP_ERROR
<1>. QED
  BY <1>3, <1>7, <1>9 DEF IsFirstRun

\* What callers use: the run that BmBitmapScan finds has bits of the value only.
LEMMA ScanFinds ==
    ASSUME NEW n \in Nat, NEW b \in Bitmaps(n), NEW cnt \in Nat,
           BmBitmapScan(b, 0, cnt, FALSE) # BITMAP_ERROR
    PROVE  /\ BmBitmapScan(b, 0, cnt, FALSE) \in 0 .. n - cnt
           /\ Run(BmBitmapScan(b, 0, cnt, FALSE), cnt) \cap Ones(b) = {}
<1>1. b.BitCount = n
  BY DEF Bitmaps
<1>2. PICK i : i = BmBitmapScan(b, 0, cnt, FALSE)
  OBVIOUS
<1>3. IsFirstRun(b, 0, cnt, FALSE, i)
  BY <1>2, ScanIs
<1>4. i \in 0 .. b.BitCount /\ i + cnt <= b.BitCount /\ Run(i, cnt) \cap Ones(b) = {}
  BY <1>2, <1>3 DEF IsFirstRun
<1>5. i \in 0 .. n - cnt
  BY <1>1, <1>4
<1>. QED
  BY <1>2, <1>4, <1>5

\* BmBitmapScanAndFlip changes the run it returns and nothing else.
LEMMA FlipIs ==
    ASSUME NEW n \in Nat, NEW b \in Bitmaps(n), NEW start \in Nat, NEW cnt \in Nat,
           NEW value \in BOOLEAN
    PROVE  /\ ScanAndFlipped(b, start, cnt, value) \in Bitmaps(n)
           /\ FlipsThatRun(b, start, cnt, value)
<1>1. b.BitCount = n
  BY DEF Bitmaps
<1>2. PICK i : i = BmBitmapScan(b, start, cnt, value)
  OBVIOUS
<1>3. PICK c : c = ScanAndFlipped(b, start, cnt, value)
  OBVIOUS
<1>4. c = IF i = BITMAP_ERROR THEN b ELSE BmBitmapSetMultiple(b, i, cnt, ~value)
  BY <1>2, <1>3 DEF ScanAndFlipped
<1>5. IsFirstRun(b, start, cnt, value, i)
  BY <1>2, ScanIs
<1>6. ASSUME i # BITMAP_ERROR PROVE i \in Nat /\ i + cnt <= n
  BY <1>1, <1>5, <1>6 DEF IsFirstRun
<1>7. c \in Bitmaps(n)
      /\ Ones(c) = IF i = BITMAP_ERROR THEN Ones(b)
                   ELSE IF value THEN Ones(b) \ Run(i, cnt) ELSE Ones(b) \cup Run(i, cnt)
  <2>1. CASE i = BITMAP_ERROR
    BY <1>4, <2>1
  <2>2. CASE i # BITMAP_ERROR
    <3>1. PICK v \in BOOLEAN : v = ~value
      OBVIOUS
    <3>2. i \in Nat /\ i + cnt <= n
      BY <1>6, <2>2
    <3>3. c = BmBitmapSetMultiple(b, i, cnt, v)
      BY <1>4, <2>2, <3>1
    <3>4. c \in Bitmaps(n) /\ Ones(c) = IF v THEN Ones(b) \cup Run(i, cnt) ELSE Ones(b) \ Run(i, cnt)
      BY <3>2, <3>3, SetMultipleIs
    <3>. QED
      BY <2>2, <3>1, <3>4
  <2>. QED
    BY <2>1, <2>2
<1>8. \A e \in DOMAIN c.bits : \A j \in c.bits[e] : e * ELEM_BITS + j < b.BitCount
  BY <1>1, <1>7 DEF Bitmaps
<1>. QED
  BY <1>2, <1>3, <1>5, <1>7, <1>8 DEF FlipsThatRun

\* Taking a run of clear bits, and clearing a run.
Takes(b, c, n, i, cnt) == c \in Bitmaps(n) /\ Ones(c) = Ones(b) \cup Run(i, cnt)
Clears(b, c, n, i, cnt) == c \in Bitmaps(n) /\ Ones(c) = Ones(b) \ Run(i, cnt)

LEMMA TakeRun ==
    ASSUME NEW n \in Nat, NEW b \in Bitmaps(n), NEW cnt \in Nat, NEW i, NEW c,
           i = BmBitmapScan(b, 0, cnt, FALSE), i # BITMAP_ERROR, c = ScanAndFlipped(b, 0, cnt, FALSE)
    PROVE  Takes(b, c, n, i, cnt)
<1>1. PICK v \in BOOLEAN : v = FALSE
  OBVIOUS
<1>2. i = BmBitmapScan(b, 0, cnt, v) /\ c = ScanAndFlipped(b, 0, cnt, v)
  BY <1>1
<1>3. c \in Bitmaps(n) /\ FlipsThatRun(b, 0, cnt, v)
  BY <1>2, FlipIs
<1>4. Ones(c) = IF v THEN Ones(b) \ Run(i, cnt) ELSE Ones(b) \cup Run(i, cnt)
  BY <1>2, <1>3 DEF FlipsThatRun
<1>. QED
  BY <1>1, <1>3, <1>4 DEF Takes

LEMMA ClearRun ==
    ASSUME NEW n \in Nat, NEW b \in Bitmaps(n), NEW start \in Nat, NEW cnt \in Nat, start + cnt <= n, NEW c,
           c = BmBitmapSetMultiple(b, start, cnt, FALSE)
    PROVE  Clears(b, c, n, start, cnt)
<1>1. PICK v \in BOOLEAN : v = FALSE
  OBVIOUS
<1>2. /\ BmBitmapSetMultiple(b, start, cnt, v) \in Bitmaps(n)
      /\ Ones(BmBitmapSetMultiple(b, start, cnt, v))
            = IF v THEN Ones(b) \cup Run(start, cnt) ELSE Ones(b) \ Run(start, cnt)
  BY SetMultipleIs
<1>3. c = BmBitmapSetMultiple(b, start, cnt, v)
  BY <1>1
<1>4. c \in Bitmaps(n) /\ Ones(c) = Ones(b) \ Run(start, cnt)
  BY <1>1, <1>2, <1>3
<1>. QED
  BY <1>4 DEF Clears

-----------------------------------------------------------------------------
(* Queries.                                                                 *)

LEMMA QueriesAre ==
    ASSUME NEW n \in Nat, NEW b \in Bitmaps(n), NEW start \in Nat, NEW cnt \in Nat, start + cnt <= n
    PROVE  QueriesAgree(b, start, cnt)
<1>1. PICK ones : ones = Ones(b) \cap Run(start, cnt)
  OBVIOUS
<1>2. BmBitmapCount(b, start, cnt, TRUE) = Cardinality(ones)
  <2>1. b.BitCount = n
    BY DEF Bitmaps
  <2>2. PICK S : S = {i \in 0 .. cnt - 1 : BmBitmapTest(b, start + i) = TRUE}
    OBVIOUS
  <2>3. PICK T : T = ones
    OBVIOUS
  <2>4. IsFiniteSet(S)
    <3>1. IsFiniteSet(0 .. cnt - 1)
      BY FS_Interval
    <3>. QED
      BY <2>2, <3>1, FS_Subset
  <2>5. S \subseteq Int /\ \A i \in S : start + i \in T
    BY <1>1, <2>1, <2>2, <2>3 DEF Ones, Run
  <2>6. T \subseteq Int /\ \A x \in T : x - start \in S
    <3>1. SUFFICES ASSUME NEW x \in T PROVE x \in Int /\ x - start \in S
      OBVIOUS
    <3>2. x \in Int /\ x - start \in 0 .. cnt - 1 /\ start + (x - start) = x /\ BmBitmapTest(b, x)
      BY <1>1, <2>1, <2>3, <3>1 DEF Ones, Run
    <3>. QED
      BY <2>2, <3>2
  <2>7. PICK g : g = [i \in S |-> start + i]
    OBVIOUS
  <2>8. g \in Bijection(S, T)
    <3>1. g \in [S -> T]
      BY <2>5, <2>7
    <3>2. \A i, j \in S : g[i] = g[j] => i = j
      BY <2>5, <2>7
    <3>3. \A x \in T : \E i \in S : g[i] = x
      <4>1. SUFFICES ASSUME NEW x \in T PROVE \E i \in S : g[i] = x
        OBVIOUS
      <4>2. x \in Int /\ x - start \in S
        BY <2>6
      <4>3. g[x - start] = x
        BY <2>7, <4>2
      <4>. QED
        BY <4>2, <4>3
    <3>. QED
      BY <3>1, <3>2, <3>3 DEF Bijection, Injection, Surjection, IsInjective
  <2>9. Cardinality(T) = Cardinality(S)
    BY <2>4, <2>8, FS_Bijection DEF ExistsBijection
  <2>. QED
    BY <2>2, <2>3, <2>9 DEF BmBitmapCount
<1>3. (BmBitmapContains(b, start, cnt, TRUE) <=> ones # {})
      /\ (BmBitmapContains(b, start, cnt, FALSE) <=> ones # Run(start, cnt))
  BY <1>1, ContainsIs
<1>4. BmBitmapAny(b, start, cnt) = (ones # {})
  BY <1>3 DEF BmBitmapAny, BmBitmapContains
<1>5. BmBitmapNone(b, start, cnt) = (ones = {})
  BY <1>3 DEF BmBitmapNone, BmBitmapContains
<1>6. BmBitmapAll(b, start, cnt) = (ones = Run(start, cnt))
  BY <1>3 DEF BmBitmapAll, BmBitmapContains
<1>. QED
  BY <1>1, <1>2, <1>4, <1>5, <1>6 DEF QueriesAgree

\* The operations of bitmap.c do to a bitmap what they do to the set of its 1 bits, and BmBitmapScan
\* finds the first run, for every element size, every number of bits and every run of them.
THEOREM BitmapsAreSets ==
    ASSUME NEW n \in Nat, NEW b \in Bitmaps(n)
    PROVE  Agrees(b)
<1>1. b.BitCount = n
  BY DEF Bitmaps
<1>2. ASSUME NEW start \in 0 .. n, NEW cnt \in 0 .. n - start PROVE QueriesAgree(b, start, cnt)
  <2>1. start \in Nat /\ cnt \in Nat /\ start + cnt <= n
    BY <1>2
  <2>. QED
    BY <2>1, QueriesAre
<1>3. ASSUME NEW start \in 0 .. n, NEW cnt \in 0 .. n - start, NEW value \in BOOLEAN
      PROVE  FlipsThatRun(b, start, cnt + 1, value)
  <2>1. start \in Nat /\ cnt + 1 \in Nat
    BY <1>3
  <2>. QED
    BY <2>1, FlipIs
<1>. QED
  BY <1>1, <1>2, <1>3 DEF Agrees
=============================================================================
