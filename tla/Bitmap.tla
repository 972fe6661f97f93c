------------------------------- MODULE Bitmap -------------------------------
(***************************************************************************)
(* Bitmaps (lib/bitmap.c): an array of elements that simulates an array of *)
(* BitCount bits.  An element is the set of the bit positions that are 1;  *)
(* BITMAP_ERROR stands for (size_t)-100, an index no bitmap has.           *)
(***************************************************************************)
EXTENDS Integers, FiniteSets, FiniteSetsExt

CONSTANT ELEM_BITS     \* bits in an element: 32 in the code

ASSUME ElemAssumption == ELEM_BITS \in Nat \ {0}

BITMAP_ERROR == -100

BmElementIndex(BitIndex) == BitIndex \div ELEM_BITS
BmBitMask(BitIndex) == {BitIndex % ELEM_BITS}
BmElementCount(BitCount) == (BitCount + ELEM_BITS - 1) \div ELEM_BITS
Elements(n) == [0 .. BmElementCount(n) - 1 -> SUBSET (0 .. ELEM_BITS - 1)]

\* A bitmap of n bits; the spare bits of its last element are 0
Bitmaps(n) == {b \in [BitCount : {n}, bits : Elements(n)] :
                  \A e \in DOMAIN b.bits : \A j \in b.bits[e] : e * ELEM_BITS + j < n}

\* BmBitmapCreateInBuffer clears every bit
BmBitmapCreateInBuffer(n) == [BitCount |-> n, bits |-> [e \in 0 .. BmElementCount(n) - 1 |-> {}]]

-----------------------------------------------------------------------------
BmBitmapMark(b, i) == [b EXCEPT !.bits[BmElementIndex(i)] = @ \cup BmBitMask(i)]
BmBitmapReset(b, i) == [b EXCEPT !.bits[BmElementIndex(i)] = @ \ BmBitMask(i)]
BmBitmapSet(b, i, value) == IF value THEN BmBitmapMark(b, i) ELSE BmBitmapReset(b, i)
BmBitmapTest(b, i) == b.bits[BmElementIndex(i)] \cap BmBitMask(i) # {}

\* The bits of one element that a run of bits covers
Covered(e, start, cnt) ==
    {j \in 0 .. ELEM_BITS - 1 : e * ELEM_BITS + j \in start .. start + cnt - 1}

\* BmBitmapSet of every bit of the run: what they do to an element together
BmBitmapSetMultiple(b, start, cnt, value) ==
    [b EXCEPT !.bits = [e \in DOMAIN @ |-> IF value THEN @[e] \cup Covered(e, start, cnt)
                                                    ELSE @[e] \ Covered(e, start, cnt)]]
BmBitmapSetAll(b, value) == BmBitmapSetMultiple(b, 0, b.BitCount, value)

BmBitmapContains(b, start, cnt, value) ==
    \E i \in 0 .. cnt - 1 : BmBitmapTest(b, start + i) = value
BmBitmapCount(b, start, cnt, value) ==
    Cardinality({i \in 0 .. cnt - 1 : BmBitmapTest(b, start + i) = value})
BmBitmapAny(b, start, cnt) == BmBitmapContains(b, start, cnt, TRUE)
BmBitmapNone(b, start, cnt) == ~BmBitmapContains(b, start, cnt, TRUE)
BmBitmapAll(b, start, cnt) == ~BmBitmapContains(b, start, cnt, FALSE)

\* Mutant: the loop stops one candidate early
AllButTheLast(b, start, cnt) == IF cnt <= b.BitCount THEN start .. b.BitCount - cnt - 1 ELSE {}

\* The loop's candidates, and its first hit
Starts(b, start, cnt) == IF cnt <= b.BitCount THEN start .. b.BitCount - cnt ELSE {}
BmBitmapScan(b, start, cnt, value) ==
    LET hits == {i \in Starts(b, start, cnt) : ~BmBitmapContains(b, i, cnt, ~value)}
    IN IF hits = {} THEN BITMAP_ERROR ELSE Min(hits)

\* BmBitmapScanAndFlip returns the index and leaves the bitmap this way
ScanAndFlipped(b, start, cnt, value) ==
    LET i == BmBitmapScan(b, start, cnt, value)
    IN IF i = BITMAP_ERROR THEN b ELSE BmBitmapSetMultiple(b, i, cnt, ~value)

-----------------------------------------------------------------------------
(* What the operations are for: the bitmap as the set of its 1 bits.       *)

Ones(b) == {i \in 0 .. b.BitCount - 1 : BmBitmapTest(b, i)}
Run(i, cnt) == i .. i + cnt - 1

\* The first run of cnt bits of a value: no earlier one would do
IsFirstRun(b, start, cnt, value, i) ==
    LET fits(k) == IF value THEN Run(k, cnt) \subseteq Ones(b) ELSE Run(k, cnt) \cap Ones(b) = {}
        runs    == {k \in start .. b.BitCount : k + cnt <= b.BitCount /\ fits(k)}
    IN IF i = BITMAP_ERROR THEN runs = {} ELSE i \in runs /\ \A k \in runs : i <= k

\* The queries say of a run what the set says
QueriesAgree(b, start, cnt) ==
    LET ones == Ones(b) \cap Run(start, cnt)
    IN /\ BmBitmapCount(b, start, cnt, TRUE) = Cardinality(ones)
       /\ BmBitmapAny(b, start, cnt) = (ones # {})
       /\ BmBitmapNone(b, start, cnt) = (ones = {})
       /\ BmBitmapAll(b, start, cnt) = (ones = Run(start, cnt))

\* Scanning and flipping agrees with the set: the run changes, nothing else does
FlipsThatRun(b, start, cnt, value) ==
    LET i == BmBitmapScan(b, start, cnt, value)
        c == ScanAndFlipped(b, start, cnt, value)
    IN /\ IsFirstRun(b, start, cnt, value, i)
       /\ Ones(c) = IF i = BITMAP_ERROR THEN Ones(b)
                    ELSE IF value THEN Ones(b) \ Run(i, cnt) ELSE Ones(b) \cup Run(i, cnt)
       /\ \A e \in DOMAIN c.bits : \A j \in c.bits[e] : e * ELEM_BITS + j < b.BitCount

\* All of it, for every run of the bitmap
Agrees(b) ==
    \A start \in 0 .. b.BitCount : \A cnt \in 0 .. b.BitCount - start :
        /\ QueriesAgree(b, start, cnt)
        /\ \A value \in BOOLEAN : FlipsThatRun(b, start, cnt + 1, value)
=============================================================================
