--------------------------- MODULE MmMemoryProofs ---------------------------
(***************************************************************************)
(* The memory behind virtual memory, for every number of frames,           *)
(* processes, pages and system PTEs: what MiInsertPage, MiRemovePage, the  *)
(* page tables, a clone and a deletion do to the counts, the free list and *)
(* the entries.  Each keeps the memory sound, and the lemmas say what else *)
(* it changes.                                                             *)
(***************************************************************************)
EXTENDS MmVm, BitmapProofs

-----------------------------------------------------------------------------
(* Sound memory.                                                            *)

\* An entry is empty or valid, with a table above it; a page of the program may be written or is
\* copy-on-write, and one that may be written has the only reference.
PteFits(m, as, a) ==
    /\ m.pte[as][a].f = NoFrame => m.pte[as][a] = NoPte
    /\ m.pte[as][a].f # NoFrame => m.pde[as][a[1]] # NoFrame
    /\ a \in UserPages /\ m.pte[as][a].f # NoFrame => m.pte[as][a].w \/ m.pte[as][a].cow
    /\ a \in UserPages /\ m.pte[as][a].w => ~m.pte[as][a].cow /\ m.ref[m.pte[as][a].f] = 1

\* The counts are right, with h references besides the mappings; the frames without a reference are
\* free, except those in X, which are about to be mapped; and such frames are clean.
Counted(m, h) == \A f \in Frames : m.ref[f] = Mappings(m, f) + h[f]
FreeFits(m, X) == \A f \in Frames : (f \in m.free \/ f \in X <=> m.ref[f] = 0) /\ ~(f \in m.free /\ f \in X)
Clean(m) == \A f \in Frames : m.ref[f] = 0 => m.data[f] = Unset /\ f \notin m.taint
EntriesFit(m) == \A as \in Spaces, a \in Pages : PteFits(m, as, a)

Sound(m, X, h) == m \in Memory /\ Counted(m, h) /\ FreeFits(m, X) /\ Clean(m) /\ EntriesFit(m)

\* A process without pages and tables.
Empty(m, as) == (\A a \in Pages : m.pte[as][a] = NoPte) /\ (\A r \in Region : m.pde[as][r] = NoFrame)

-----------------------------------------------------------------------------
(* Pages, and the sizes of sets.                                            *)

LEMMA Sizes ==
    /\ NFrames \in Nat \ {0} /\ NTemp \in Nat \ {0} /\ NPool \in Nat \ {0} /\ NSys \in Nat \ {0}
    /\ NoFrame \notin Frames /\ Frames \subseteq Nat
    /\ NoSlot \notin Slots /\ Slots \subseteq Nat
    /\ Unset \in Values
BY SizesAssumption DEF Frames, NoFrame, NoSlot, Slots, Unset

LEMMA PageRegions ==
    /\ \A a \in Pages : a[1] \in Region
    /\ \A a \in TempPages : a \in Pages /\ a[1] = "temp" /\ a \notin UserPages
    /\ \A a \in UserPages : a \in Pages /\ a[1] \in {"text", "pool"} /\ a \notin TempPages
    /\ \A a \in Pages : a[1] = "temp" <=> a \in TempPages
    /\ Text \in UserPages /\ Text[1] = "text"
    /\ \A i \in 0 .. NPool - 1 :
          PoolPage(i) \in UserPages /\ PoolPage(i)[1] = "pool" /\ PoolPage(i)[2] = i
    /\ \A i \in 0 .. NTemp - 1 : <<"temp", i>> \in TempPages
BY DEF Pages, UserPages, TempPages, Region, Text, PoolPage

LEMMA FiniteSizes ==
    /\ IsFiniteSet(Spaces) /\ IsFiniteSet(Pages) /\ IsFiniteSet(Region) /\ IsFiniteSet(Slots)
    /\ IsFiniteSet(Frames) /\ IsFiniteSet(Spaces \X Pages) /\ IsFiniteSet(Spaces \X Region)
<1>1. IsFiniteSet(Spaces)
  BY SizesAssumption
<1>2. IsFiniteSet(Region)
  <2>1. Region = ({"temp"} \cup {"text"}) \cup {"pool"}
    BY DEF Region
  <2>2. IsFiniteSet({"temp"} \cup {"text"})
    BY FS_Singleton, FS_AddElement
  <2>. QED
    BY <2>1, <2>2, FS_AddElement
<1>3. IsFiniteSet(Slots) /\ IsFiniteSet(Frames)
  <2>1. IsFiniteSet(0 .. NSys - 1) /\ IsFiniteSet(1 .. NFrames)
    BY Sizes, FS_Interval
  <2>. QED
    BY <2>1 DEF Slots, Frames
<1>4. IsFiniteSet(Pages)
  <2>1. PICK N : N = 0 .. NTemp + NPool
    OBVIOUS
  <2>2. IsFiniteSet(N)
    <3>1. NTemp + NPool \in Int
      BY Sizes
    <3>. QED
      BY <2>1, <3>1, FS_Interval
  <2>3. IsFiniteSet(Region \X N)
    BY <1>2, <2>2, FS_Product
  <2>4. Pages \subseteq Region \X N
    BY <2>1, Sizes DEF Pages, UserPages, TempPages, Region, Text, PoolPage
  <2>. QED
    BY <2>3, <2>4, FS_Subset
<1>. QED
  BY <1>1, <1>2, <1>3, <1>4, FS_Product

\* Two sets that differ in one element at most.
LEMMA OneElement ==
    ASSUME NEW S, IsFiniteSet(S), NEW T, NEW x, \A y : y # x => (y \in T <=> y \in S)
    PROVE  /\ IsFiniteSet(T) /\ Cardinality(S) \in Nat /\ Cardinality(T) \in Nat
           /\ Cardinality(T) + (IF x \in S THEN 1 ELSE 0) = Cardinality(S) + (IF x \in T THEN 1 ELSE 0)
<1>0. Cardinality(S) \in Nat
  BY FS_CardinalityType
<1>1. CASE x \in T
  <2>1. T = S \cup {x}
    BY <1>1
  <2>2. IsFiniteSet(T) /\ Cardinality(T) = IF x \in S THEN Cardinality(S) ELSE Cardinality(S) + 1
    BY <2>1, FS_AddElement
  <2>. QED
    BY <1>0, <1>1, <2>2
<1>2. CASE x \notin T
  <2>1. T = S \ {x}
    BY <1>2
  <2>2. IsFiniteSet(T) /\ Cardinality(T) = IF x \in S THEN Cardinality(S) - 1 ELSE Cardinality(S)
    BY <2>1, FS_RemoveElement
  <2>3. x \in S => Cardinality(S) # 0
    BY FS_EmptySet
  <2>. QED
    BY <1>0, <1>2, <2>2, <2>3
<1>. QED
  BY <1>1, <1>2

\* The pairs of a set with one first component, and their second components: as many.
PairsOf(A, c) == {x \in A : x[1] = c}
Row(A, P, c) == {y \in P : <<c, y>> \in A}

LEMMA RowSize ==
    ASSUME NEW S, NEW P, IsFiniteSet(P), NEW c \in S, NEW A \in SUBSET (S \X P)
    PROVE  /\ IsFiniteSet(Row(A, P, c)) /\ IsFiniteSet(PairsOf(A, c))
           /\ Cardinality(PairsOf(A, c)) = Cardinality(Row(A, P, c))
<1>0. PICK R : R = Row(A, P, c)
  OBVIOUS
<1>q. PICK Q : Q = PairsOf(A, c)
  OBVIOUS
<1>r. R = {y \in P : <<c, y>> \in A} /\ Q = {x \in A : x[1] = c}
  BY <1>0, <1>q DEF Row, PairsOf
<1>1. IsFiniteSet(R)
  BY <1>r, FS_Subset
<1>2. PICK g : g = [y \in R |-> <<c, y>>]
  OBVIOUS
<1>3. g \in Bijection(R, Q)
  <2>1. g \in [R -> Q]
    BY <1>2, <1>r
  <2>2. \A y, z \in R : g[y] = g[z] => y = z
    BY <1>2
  <2>3. \A x \in Q : \E y \in R : g[y] = x
    <3>1. SUFFICES ASSUME NEW x \in Q PROVE \E y \in R : g[y] = x
      OBVIOUS
    <3>2. x = <<c, x[2]>> /\ x[2] \in P /\ x \in A
      BY <3>1, <1>r
    <3>3. x[2] \in R
      BY <3>2, <1>r
    <3>. QED
      BY <1>2, <3>2, <3>3
  <2>. QED
    BY <2>1, <2>2, <2>3 DEF Bijection, Injection, Surjection, IsInjective
<1>. QED
  BY <1>0, <1>q, <1>1, <1>3, FS_Bijection DEF ExistsBijection

\* Two sets of pairs that differ in one row only.
Grid(S, P) == S \X P
SameRows(A, B, U, c) == A \subseteq U /\ B \subseteq U /\ \A x \in U : x[1] # c => (x \in A <=> x \in B)
RowsBalance(A, B, P, c) ==
    /\ Cardinality(Row(A, P, c)) \in Nat /\ Cardinality(Row(B, P, c)) \in Nat
    /\ Cardinality(B) + Cardinality(Row(A, P, c)) = Cardinality(A) + Cardinality(Row(B, P, c))

LEMMA RowChange ==
    ASSUME NEW S, NEW P, IsFiniteSet(Grid(S, P)), IsFiniteSet(P), NEW c \in S,
           NEW A, NEW B, SameRows(A, B, Grid(S, P), c)
    PROVE  RowsBalance(A, B, P, c)
<1>0. /\ A \in SUBSET (S \X P) /\ B \in SUBSET (S \X P)
      /\ \A x \in S \X P : x[1] # c => (x \in A <=> x \in B)
  BY DEF SameRows, Grid
<1>r. PICK R : R = Row(A, P, c)
  OBVIOUS
<1>t. PICK T : T = Row(B, P, c)
  OBVIOUS
<1>q. PICK Q : Q = PairsOf(A, c)
  OBVIOUS
<1>u. PICK U : U = PairsOf(B, c)
  OBVIOUS
<1>1. Q = {x \in A : x[1] = c}
  BY <1>q DEF PairsOf
<1>2. U = {x \in B : x[1] = c}
  BY <1>u DEF PairsOf
<1>3. PICK O : O = {x \in A : x[1] # c}
  OBVIOUS
<1>4. IsFiniteSet(A) /\ IsFiniteSet(B)
  BY <1>0, FS_Subset DEF Grid
<1>5. IsFiniteSet(R) /\ IsFiniteSet(Q) /\ Cardinality(Q) = Cardinality(R)
  BY <1>0, <1>q, <1>r, RowSize
<1>6. IsFiniteSet(T) /\ IsFiniteSet(U) /\ Cardinality(U) = Cardinality(T)
  BY <1>0, <1>u, <1>t, RowSize
<1>7. IsFiniteSet(O)
  BY <1>3, <1>4, FS_Subset
<1>8. Cardinality(A) = Cardinality(O) + Cardinality(Q)
  <2>1. A = O \cup Q /\ O \cap Q = {}
    BY <1>0, <1>1, <1>3
  <2>2. Cardinality(O \cup Q) = Cardinality(O) + Cardinality(Q) - Cardinality(O \cap Q)
    BY <1>5, <1>7, FS_Union
  <2>3. Cardinality(O \cap Q) = 0
    BY <2>1, FS_EmptySet
  <2>4. Cardinality(O) \in Nat /\ Cardinality(Q) \in Nat
    BY <1>5, <1>7, FS_CardinalityType
  <2>. QED
    BY <2>1, <2>2, <2>3, <2>4
<1>9. Cardinality(B) = Cardinality(O) + Cardinality(U)
  <2>1. B = O \cup U /\ O \cap U = {}
    BY <1>0, <1>2, <1>3
  <2>2. Cardinality(O \cup U) = Cardinality(O) + Cardinality(U) - Cardinality(O \cap U)
    BY <1>6, <1>7, FS_Union
  <2>3. Cardinality(O \cap U) = 0
    BY <2>1, FS_EmptySet
  <2>4. Cardinality(O) \in Nat /\ Cardinality(U) \in Nat
    BY <1>6, <1>7, FS_CardinalityType
  <2>. QED
    BY <2>1, <2>2, <2>3, <2>4
<1>10. /\ Cardinality(O) \in Nat /\ Cardinality(A) \in Nat /\ Cardinality(B) \in Nat
       /\ Cardinality(R) \in Nat /\ Cardinality(T) \in Nat
  BY <1>4, <1>5, <1>6, <1>7, FS_CardinalityType
<1>. QED
  BY <1>r, <1>t, <1>5, <1>6, <1>8, <1>9, <1>10 DEF RowsBalance

-----------------------------------------------------------------------------
(* What maps a frame, when an entry or a process changes.                   *)

PteRefs(m, f) == {x \in Spaces \X Pages : m.pte[x[1]][x[2]].f = f}
PdeRefs(m, f) == {x \in Spaces \X Region : m.pde[x[1]][x[2]] = f}
SysRefs(m, f) == {s \in Slots : m.sys[s] = f}
PteRow(m, as, f) == {a \in Pages : m.pte[as][a].f = f}
PdeRow(m, as, f) == {r \in Region : m.pde[as][r] = f}

LEMMA RefsFinite ==
    ASSUME NEW m, NEW f
    PROVE  /\ IsFiniteSet(PteRefs(m, f)) /\ Cardinality(PteRefs(m, f)) \in Nat
           /\ IsFiniteSet(PdeRefs(m, f)) /\ Cardinality(PdeRefs(m, f)) \in Nat
           /\ IsFiniteSet(SysRefs(m, f)) /\ Cardinality(SysRefs(m, f)) \in Nat
           /\ Mappings(m, f) = Cardinality(PteRefs(m, f)) + Cardinality(PdeRefs(m, f))
                                  + Cardinality(SysRefs(m, f))
           /\ Mappings(m, f) \in Nat
<1>1. IsFiniteSet(PteRefs(m, f)) /\ IsFiniteSet(PdeRefs(m, f)) /\ IsFiniteSet(SysRefs(m, f))
  <2>1. PteRefs(m, f) \subseteq Spaces \X Pages
    BY DEF PteRefs
  <2>2. PdeRefs(m, f) \subseteq Spaces \X Region
    BY DEF PdeRefs
  <2>3. SysRefs(m, f) \subseteq Slots
    BY DEF SysRefs
  <2>. QED
    BY <2>1, <2>2, <2>3, FiniteSizes, FS_Subset
<1>2. /\ Cardinality(PteRefs(m, f)) \in Nat /\ Cardinality(PdeRefs(m, f)) \in Nat
      /\ Cardinality(SysRefs(m, f)) \in Nat
  BY <1>1, FS_CardinalityType
<1>3. Mappings(m, f) = Cardinality(PteRefs(m, f)) + Cardinality(PdeRefs(m, f))
                          + Cardinality(SysRefs(m, f))
  BY DEF Mappings, PteRefs, PdeRefs, SysRefs
<1>. QED
  BY <1>1, <1>2, <1>3

\* Nothing but the entries of a process change.
PteRowOnly(m, n, as) == \A bs \in Spaces, a \in Pages : bs # as => n.pte[bs][a].f = m.pte[bs][a].f
PdeRowOnly(m, n, as) == \A bs \in Spaces, r \in Region : bs # as => n.pde[bs][r] = m.pde[bs][r]
PteRowBalanced(m, n, as, f) ==
    /\ IsFiniteSet(PteRow(m, as, f)) /\ IsFiniteSet(PteRow(n, as, f))
    /\ Cardinality(PteRow(m, as, f)) \in Nat /\ Cardinality(PteRow(n, as, f)) \in Nat
    /\ Cardinality(PteRefs(n, f)) + Cardinality(PteRow(m, as, f))
          = Cardinality(PteRefs(m, f)) + Cardinality(PteRow(n, as, f))
PdeRowBalanced(m, n, as, f) ==
    /\ IsFiniteSet(PdeRow(m, as, f)) /\ IsFiniteSet(PdeRow(n, as, f))
    /\ Cardinality(PdeRow(m, as, f)) \in Nat /\ Cardinality(PdeRow(n, as, f)) \in Nat
    /\ Cardinality(PdeRefs(n, f)) + Cardinality(PdeRow(m, as, f))
          = Cardinality(PdeRefs(m, f)) + Cardinality(PdeRow(n, as, f))

LEMMA PteRowChange ==
    ASSUME NEW m, NEW n, NEW as \in Spaces, NEW f, PteRowOnly(m, n, as)
    PROVE  PteRowBalanced(m, n, as, f)
<1>1. PteRefs(m, f) \in SUBSET (Spaces \X Pages) /\ PteRefs(n, f) \in SUBSET (Spaces \X Pages)
  BY DEF PteRefs
<1>2. \A x \in Spaces \X Pages : x[1] # as => (x \in PteRefs(m, f) <=> x \in PteRefs(n, f))
  BY DEF PteRefs, PteRowOnly
<1>3. Row(PteRefs(m, f), Pages, as) = PteRow(m, as, f) /\ Row(PteRefs(n, f), Pages, as) = PteRow(n, as, f)
  BY DEF Row, PteRefs, PteRow
<1>4. PteRow(m, as, f) \subseteq Pages /\ PteRow(n, as, f) \subseteq Pages
  BY DEF PteRow
<1>5. IsFiniteSet(PteRow(m, as, f)) /\ IsFiniteSet(PteRow(n, as, f))
  BY <1>4, FiniteSizes, FS_Subset
<1>6. /\ Cardinality(Row(PteRefs(m, f), Pages, as)) \in Nat /\ Cardinality(Row(PteRefs(n, f), Pages, as)) \in Nat
      /\ Cardinality(PteRefs(n, f)) + Cardinality(Row(PteRefs(m, f), Pages, as))
            = Cardinality(PteRefs(m, f)) + Cardinality(Row(PteRefs(n, f), Pages, as))
  <2>1. PICK A : A = PteRefs(m, f)
    OBVIOUS
  <2>2. PICK B : B = PteRefs(n, f)
    OBVIOUS
  <2>3. IsFiniteSet(Grid(Spaces, Pages)) /\ IsFiniteSet(Pages)
    BY FiniteSizes DEF Grid
  <2>4. SameRows(A, B, Grid(Spaces, Pages), as)
    BY <1>1, <1>2, <2>1, <2>2 DEF SameRows, Grid
  <2>5. /\ Cardinality(Row(A, Pages, as)) \in Nat /\ Cardinality(Row(B, Pages, as)) \in Nat
        /\ Cardinality(B) + Cardinality(Row(A, Pages, as)) = Cardinality(A) + Cardinality(Row(B, Pages, as))
    <3>1. RowsBalance(A, B, Pages, as)
      BY <2>3, <2>4, RowChange
    <3>. QED
      BY <3>1 DEF RowsBalance
  <2>. QED
    BY <2>1, <2>2, <2>5
<1>. QED
  BY <1>3, <1>5, <1>6 DEF PteRowBalanced

LEMMA PdeRowChange ==
    ASSUME NEW m, NEW n, NEW as \in Spaces, NEW f, PdeRowOnly(m, n, as)
    PROVE  PdeRowBalanced(m, n, as, f)
<1>1. PdeRefs(m, f) \in SUBSET (Spaces \X Region) /\ PdeRefs(n, f) \in SUBSET (Spaces \X Region)
  BY DEF PdeRefs
<1>2. \A x \in Spaces \X Region : x[1] # as => (x \in PdeRefs(m, f) <=> x \in PdeRefs(n, f))
  BY DEF PdeRefs, PdeRowOnly
<1>3. Row(PdeRefs(m, f), Region, as) = PdeRow(m, as, f) /\ Row(PdeRefs(n, f), Region, as) = PdeRow(n, as, f)
  BY DEF Row, PdeRefs, PdeRow
<1>4. PdeRow(m, as, f) \subseteq Region /\ PdeRow(n, as, f) \subseteq Region
  BY DEF PdeRow
<1>5. IsFiniteSet(PdeRow(m, as, f)) /\ IsFiniteSet(PdeRow(n, as, f))
  BY <1>4, FiniteSizes, FS_Subset
<1>6. /\ Cardinality(Row(PdeRefs(m, f), Region, as)) \in Nat /\ Cardinality(Row(PdeRefs(n, f), Region, as)) \in Nat
      /\ Cardinality(PdeRefs(n, f)) + Cardinality(Row(PdeRefs(m, f), Region, as))
            = Cardinality(PdeRefs(m, f)) + Cardinality(Row(PdeRefs(n, f), Region, as))
  <2>1. PICK A : A = PdeRefs(m, f)
    OBVIOUS
  <2>2. PICK B : B = PdeRefs(n, f)
    OBVIOUS
  <2>3. IsFiniteSet(Grid(Spaces, Region)) /\ IsFiniteSet(Region)
    BY FiniteSizes DEF Grid
  <2>4. SameRows(A, B, Grid(Spaces, Region), as)
    BY <1>1, <1>2, <2>1, <2>2 DEF SameRows, Grid
  <2>5. /\ Cardinality(Row(A, Region, as)) \in Nat /\ Cardinality(Row(B, Region, as)) \in Nat
        /\ Cardinality(B) + Cardinality(Row(A, Region, as)) = Cardinality(A) + Cardinality(Row(B, Region, as))
    <3>1. RowsBalance(A, B, Region, as)
      BY <2>3, <2>4, RowChange
    <3>. QED
      BY <3>1 DEF RowsBalance
  <2>. QED
    BY <2>1, <2>2, <2>5
<1>. QED
  BY <1>3, <1>5, <1>6 DEF PdeRowBalanced

\* One entry changes.
Is(e, f) == IF e = f THEN 1 ELSE 0

LEMMA IsNumber == \A e, f : Is(e, f) \in {0, 1} /\ (Is(e, f) = 1 <=> e = f)
BY DEF Is

Balanced(x, i, y, j) == x + i = y + j

\* Nothing but an entry changes.
OnlyPte(m, n, as, a) ==
    /\ \A bs \in Spaces, b \in Pages : bs # as \/ b # a => n.pte[bs][b] = m.pte[bs][b]
    /\ n.pde = m.pde /\ n.sys = m.sys
OnlyPde(m, n, as, r) ==
    /\ \A bs \in Spaces, q \in Region : bs # as \/ q # r => n.pde[bs][q] = m.pde[bs][q]
    /\ n.pte = m.pte /\ n.sys = m.sys
OnlySlot(m, n, s) == (\A z \in Slots : z # s => n.sys[z] = m.sys[z]) /\ n.pte = m.pte /\ n.pde = m.pde

LEMMA PteStep ==
    ASSUME NEW m, NEW n, NEW as \in Spaces, NEW a \in Pages, NEW f, OnlyPte(m, n, as, a)
    PROVE  Balanced(Mappings(n, f), Is(m.pte[as][a].f, f), Mappings(m, f), Is(n.pte[as][a].f, f))
<1>1. PICK S : S = PteRefs(m, f)
  OBVIOUS
<1>2. PICK T : T = PteRefs(n, f)
  OBVIOUS
<1>3. PICK x : x = <<as, a>>
  OBVIOUS
<1>4. \A y : y # x => (y \in T <=> y \in S)
  <2>1. SUFFICES ASSUME NEW y, y # x PROVE y \in T <=> y \in S
    OBVIOUS
  <2>2. CASE y \in Spaces \X Pages
    <3>1. y = <<y[1], y[2]>> /\ y[1] \in Spaces /\ y[2] \in Pages
      BY <2>2
    <3>2. y[1] # as \/ y[2] # a
      BY <1>3, <2>1, <3>1
    <3>3. n.pte[y[1]][y[2]] = m.pte[y[1]][y[2]]
      BY <3>1, <3>2 DEF OnlyPte
    <3>. QED
      BY <1>1, <1>2, <3>3 DEF PteRefs
  <2>3. CASE y \notin Spaces \X Pages
    BY <1>1, <1>2, <2>3 DEF PteRefs
  <2>. QED
    BY <2>2, <2>3
<1>5. (x \in S <=> m.pte[as][a].f = f) /\ (x \in T <=> n.pte[as][a].f = f)
  BY <1>1, <1>2, <1>3 DEF PteRefs
<1>6. /\ Cardinality(S) \in Nat /\ Cardinality(T) \in Nat
      /\ Cardinality(T) + (IF x \in S THEN 1 ELSE 0) = Cardinality(S) + (IF x \in T THEN 1 ELSE 0)
  BY <1>1, <1>4, RefsFinite, OneElement
<1>7. PdeRefs(n, f) = PdeRefs(m, f) /\ SysRefs(n, f) = SysRefs(m, f)
  BY DEF OnlyPte, PdeRefs, SysRefs
<1>8. Cardinality(T) + Is(m.pte[as][a].f, f) = Cardinality(S) + Is(n.pte[as][a].f, f)
  BY <1>5, <1>6 DEF Is
<1>12. Is(m.pte[as][a].f, f) \in Nat /\ Is(n.pte[as][a].f, f) \in Nat
  BY DEF Is
<1>9. PICK i \in Nat, j \in Nat : i = Is(m.pte[as][a].f, f) /\ j = Is(n.pte[as][a].f, f)
  BY <1>12
<1>13. PICK s \in Nat, t \in Nat : s = Cardinality(S) /\ t = Cardinality(T)
  BY <1>6
<1>10. PICK p \in Nat, q \in Nat : p = Cardinality(PdeRefs(m, f)) /\ q = Cardinality(SysRefs(m, f))
  BY RefsFinite
<1>11. Mappings(m, f) = Cardinality(S) + p + q /\ Mappings(n, f) = Cardinality(T) + p + q
  BY <1>1, <1>2, <1>7, <1>10, RefsFinite
<1>14. t + i = s + j
  BY <1>8, <1>9, <1>13
<1>15. Mappings(m, f) = s + p + q /\ Mappings(n, f) = t + p + q
  BY <1>11, <1>13
<1>16. (t + p + q) + i = (s + p + q) + j
  BY <1>14
<1>. QED
  BY <1>9, <1>15, <1>16 DEF Balanced

LEMMA PdeStep ==
    ASSUME NEW m, NEW n, NEW as \in Spaces, NEW a \in Region, NEW f, OnlyPde(m, n, as, a)
    PROVE  Balanced(Mappings(n, f), Is(m.pde[as][a], f), Mappings(m, f), Is(n.pde[as][a], f))
<1>1. PICK S : S = PdeRefs(m, f)
  OBVIOUS
<1>2. PICK T : T = PdeRefs(n, f)
  OBVIOUS
<1>3. PICK x : x = <<as, a>>
  OBVIOUS
<1>4. \A y : y # x => (y \in T <=> y \in S)
  <2>1. SUFFICES ASSUME NEW y, y # x PROVE y \in T <=> y \in S
    OBVIOUS
  <2>2. CASE y \in Spaces \X Region
    <3>1. y = <<y[1], y[2]>> /\ y[1] \in Spaces /\ y[2] \in Region
      BY <2>2
    <3>2. y[1] # as \/ y[2] # a
      BY <1>3, <2>1, <3>1
    <3>3. n.pde[y[1]][y[2]] = m.pde[y[1]][y[2]]
      BY <3>1, <3>2 DEF OnlyPde
    <3>. QED
      BY <1>1, <1>2, <3>3 DEF PdeRefs
  <2>3. CASE y \notin Spaces \X Region
    BY <1>1, <1>2, <2>3 DEF PdeRefs
  <2>. QED
    BY <2>2, <2>3
<1>5. (x \in S <=> m.pde[as][a] = f) /\ (x \in T <=> n.pde[as][a] = f)
  BY <1>1, <1>2, <1>3 DEF PdeRefs
<1>6. /\ Cardinality(S) \in Nat /\ Cardinality(T) \in Nat
      /\ Cardinality(T) + (IF x \in S THEN 1 ELSE 0) = Cardinality(S) + (IF x \in T THEN 1 ELSE 0)
  BY <1>1, <1>4, RefsFinite, OneElement
<1>7. PteRefs(n, f) = PteRefs(m, f) /\ SysRefs(n, f) = SysRefs(m, f)
  BY DEF OnlyPde, PteRefs, SysRefs
<1>8. Cardinality(T) + Is(m.pde[as][a], f) = Cardinality(S) + Is(n.pde[as][a], f)
  BY <1>5, <1>6 DEF Is
<1>12. Is(m.pde[as][a], f) \in Nat /\ Is(n.pde[as][a], f) \in Nat
  BY DEF Is
<1>9. PICK i \in Nat, j \in Nat : i = Is(m.pde[as][a], f) /\ j = Is(n.pde[as][a], f)
  BY <1>12
<1>13. PICK s \in Nat, t \in Nat : s = Cardinality(S) /\ t = Cardinality(T)
  BY <1>6
<1>10. PICK p \in Nat, q \in Nat : p = Cardinality(PteRefs(m, f)) /\ q = Cardinality(SysRefs(m, f))
  BY RefsFinite
<1>11. Mappings(m, f) = p + Cardinality(S) + q /\ Mappings(n, f) = p + Cardinality(T) + q
  BY <1>1, <1>2, <1>7, <1>10, RefsFinite
<1>14. t + i = s + j
  BY <1>8, <1>9, <1>13
<1>15. Mappings(m, f) = p + s + q /\ Mappings(n, f) = p + t + q
  BY <1>11, <1>13
<1>16. (p + t + q) + i = (p + s + q) + j
  BY <1>14
<1>. QED
  BY <1>9, <1>15, <1>16 DEF Balanced

\* The directory or the user bitmap of a process.
SlotBalanced(m, n, s, f) ==
    /\ Cardinality(SysRefs(m, f)) \in Nat /\ Cardinality(SysRefs(n, f)) \in Nat
    /\ Cardinality(SysRefs(n, f)) + Is(m.sys[s], f) = Cardinality(SysRefs(m, f)) + Is(n.sys[s], f)
SlotsAgreeBut(m, n, s) == \A z \in Slots : z # s => n.sys[z] = m.sys[z]

LEMMA SysStep ==
    ASSUME NEW m, NEW n, NEW s \in Slots, NEW f, SlotsAgreeBut(m, n, s)
    PROVE  SlotBalanced(m, n, s, f)
<1>1. PICK S : S = SysRefs(m, f)
  OBVIOUS
<1>2. PICK T : T = SysRefs(n, f)
  OBVIOUS
<1>4. \A y : y # s => (y \in T <=> y \in S)
  BY <1>1, <1>2 DEF SysRefs, SlotsAgreeBut
<1>5. (s \in S <=> m.sys[s] = f) /\ (s \in T <=> n.sys[s] = f)
  BY <1>1, <1>2 DEF SysRefs
<1>6. /\ Cardinality(S) \in Nat /\ Cardinality(T) \in Nat
      /\ Cardinality(T) + (IF s \in S THEN 1 ELSE 0) = Cardinality(S) + (IF s \in T THEN 1 ELSE 0)
  BY <1>1, <1>4, RefsFinite, OneElement
<1>. QED
  BY <1>1, <1>2, <1>5, <1>6 DEF Is, SlotBalanced

LEMMA SlotStep ==
    ASSUME NEW m, NEW n, NEW s \in Slots, NEW f, OnlySlot(m, n, s)
    PROVE  Balanced(Mappings(n, f), Is(m.sys[s], f), Mappings(m, f), Is(n.sys[s], f))
<1>1. /\ Cardinality(SysRefs(m, f)) \in Nat /\ Cardinality(SysRefs(n, f)) \in Nat
      /\ Cardinality(SysRefs(n, f)) + Is(m.sys[s], f) = Cardinality(SysRefs(m, f)) + Is(n.sys[s], f)
  <2>1. SlotsAgreeBut(m, n, s)
    BY DEF OnlySlot, SlotsAgreeBut
  <2>2. SlotBalanced(m, n, s, f)
    BY <2>1, SysStep
  <2>. QED
    BY <2>2 DEF SlotBalanced
<1>2. PteRefs(n, f) = PteRefs(m, f) /\ PdeRefs(n, f) = PdeRefs(m, f)
  BY DEF OnlySlot, PteRefs, PdeRefs
<1>3. Is(m.sys[s], f) \in Nat /\ Is(n.sys[s], f) \in Nat
  BY DEF Is
<1>4. PICK i \in Nat, j \in Nat, x \in Nat, y \in Nat, p \in Nat, q \in Nat :
          /\ i = Is(m.sys[s], f) /\ j = Is(n.sys[s], f) /\ x = Cardinality(SysRefs(m, f))
          /\ y = Cardinality(SysRefs(n, f)) /\ p = Cardinality(PteRefs(m, f)) /\ q = Cardinality(PdeRefs(m, f))
  BY <1>1, <1>3, RefsFinite
<1>5. Mappings(m, f) = p + q + x /\ Mappings(n, f) = p + q + y
  BY <1>2, <1>4, RefsFinite
<1>6. y + i = x + j
  BY <1>1, <1>4
<1>7. (p + q + y) + i = (p + q + x) + j
  BY <1>6
<1>. QED
  BY <1>4, <1>5, <1>7 DEF Balanced

\* A page that maps a frame counts, and two count twice.
LEMMA MappedCounts ==
    ASSUME NEW m, NEW f, NEW as \in Spaces, NEW a \in Pages, m.pte[as][a].f = f
    PROVE  /\ Mappings(m, f) >= 1
           /\ \A bs \in Spaces, r \in Region : m.pde[bs][r] = f => Mappings(m, f) >= 2
           /\ \A s \in Slots : m.sys[s] = f => Mappings(m, f) >= 2
<1>1. PICK x : x = <<as, a>>
  OBVIOUS
<1>2. x \in PteRefs(m, f)
  BY <1>1 DEF PteRefs
<1>3. Cardinality(PteRefs(m, f)) >= 1
  BY <1>2, RefsFinite, FS_EmptySet
<1>5. ASSUME NEW bs \in Spaces, NEW r \in Region, m.pde[bs][r] = f PROVE Cardinality(PdeRefs(m, f)) >= 1
  <2>1. <<bs, r>> \in PdeRefs(m, f)
    BY <1>5 DEF PdeRefs
  <2>. QED
    BY <2>1, RefsFinite, FS_EmptySet
<1>6. ASSUME NEW s \in Slots, m.sys[s] = f PROVE Cardinality(SysRefs(m, f)) >= 1
  <2>1. s \in SysRefs(m, f)
    BY <1>6 DEF SysRefs
  <2>. QED
    BY <2>1, RefsFinite, FS_EmptySet
<1>7. /\ Cardinality(PteRefs(m, f)) \in Nat /\ Cardinality(PdeRefs(m, f)) \in Nat
      /\ Cardinality(SysRefs(m, f)) \in Nat
      /\ Mappings(m, f) = Cardinality(PteRefs(m, f)) + Cardinality(PdeRefs(m, f)) + Cardinality(SysRefs(m, f))
  BY RefsFinite
<1>8. Mappings(m, f) >= 1
  BY <1>3, <1>7
<1>10. ASSUME NEW bs \in Spaces, NEW r \in Region, m.pde[bs][r] = f PROVE Mappings(m, f) >= 2
  BY <1>3, <1>5, <1>7, <1>10
<1>11. ASSUME NEW s \in Slots, m.sys[s] = f PROVE Mappings(m, f) >= 2
  BY <1>3, <1>6, <1>7, <1>11
<1>. QED
  BY <1>8, <1>10, <1>11

\* The same in another form.
Maps(m, as, a, f) == as \in Spaces /\ a \in Pages /\ m.pte[as][a].f = f

LEMMA MapsTwice ==
    \A m, f, as, a, bs, b :
        Maps(m, as, a, f) /\ Maps(m, bs, b, f) /\ <<as, a>> # <<bs, b>> => Mappings(m, f) >= 2
<1>1. SUFFICES ASSUME NEW m, NEW f, NEW as, NEW a, NEW bs, NEW b, Maps(m, as, a, f), Maps(m, bs, b, f),
                      <<as, a>> # <<bs, b>>
               PROVE  Mappings(m, f) >= 2
  OBVIOUS
<1>2. PICK x, y : x = <<as, a>> /\ y = <<bs, b>>
  OBVIOUS
<1>3. x \in PteRefs(m, f) /\ y \in PteRefs(m, f) \ {x}
  BY <1>1, <1>2 DEF Maps, PteRefs
<1>4. /\ IsFiniteSet(PteRefs(m, f)) /\ Cardinality(PteRefs(m, f)) \in Nat
      /\ Cardinality(PdeRefs(m, f)) \in Nat /\ Cardinality(SysRefs(m, f)) \in Nat
      /\ Mappings(m, f) = Cardinality(PteRefs(m, f)) + Cardinality(PdeRefs(m, f)) + Cardinality(SysRefs(m, f))
  BY RefsFinite
<1>9. PICK T : T = PteRefs(m, f) \ {x}
  OBVIOUS
<1>5. IsFiniteSet(T) /\ Cardinality(T) = Cardinality(PteRefs(m, f)) - 1
  BY <1>3, <1>4, <1>9, FS_RemoveElement
<1>6. Cardinality(T) # 0 /\ Cardinality(T) \in Nat
  BY <1>3, <1>5, <1>9, FS_EmptySet, FS_CardinalityType
<1>10. PICK c \in Nat, d \in Nat : c = Cardinality(PteRefs(m, f)) /\ d = Cardinality(T)
  BY <1>4, <1>6
<1>7. Cardinality(PteRefs(m, f)) # 0
  BY <1>3, <1>4, FS_EmptySet
<1>8. Cardinality(PteRefs(m, f)) >= 2
  <2>1. d = c - 1 /\ d # 0
    BY <1>5, <1>6, <1>10
  <2>2. c >= 2
    BY <2>1
  <2>. QED
    BY <1>10, <2>2
<1>. QED
  BY <1>4, <1>8

-----------------------------------------------------------------------------
(* What sound memory implies.                                               *)

LEMMA MemoryTypes ==
    ASSUME NEW m \in Memory
    PROVE  /\ m.free \in SUBSET Frames /\ m.ref \in [Frames -> Nat] /\ m.data \in [Frames -> Values]
           /\ m.taint \in SUBSET Frames /\ m.pde \in [Spaces -> [Region -> Frames \cup {NoFrame}]]
           /\ m.pte \in [Spaces -> [Pages -> Pte]] /\ m.sys \in [Slots -> Frames \cup {NoFrame}]
           /\ m.dir \in [Spaces -> Slots \cup {NoSlot}]
BY DEF Memory

LEMMA EntryTypes ==
    ASSUME NEW m \in Memory
    PROVE  /\ \A as \in Spaces, a \in Pages :
                 /\ m.pte[as][a] \in Pte /\ m.pte[as][a].f \in Frames \cup {NoFrame}
                 /\ m.pte[as][a].w \in BOOLEAN /\ m.pte[as][a].cow \in BOOLEAN
                 /\ m.pte[as][a].f # NoFrame => m.pte[as][a].f \in Frames
           /\ \A as \in Spaces, r \in Region : m.pde[as][r] # NoFrame => m.pde[as][r] \in Frames
           /\ \A s \in Slots : m.sys[s] # NoFrame => m.sys[s] \in Frames
<1>0. /\ m.pte \in [Spaces -> [Pages -> Pte]] /\ m.pde \in [Spaces -> [Region -> Frames \cup {NoFrame}]]
      /\ m.sys \in [Slots -> Frames \cup {NoFrame}]
  BY MemoryTypes
<1>1. \A as \in Spaces, a \in Pages : m.pte[as][a] \in Pte
  BY <1>0
<1>2. \A as \in Spaces, r \in Region : m.pde[as][r] \in Frames \cup {NoFrame}
  BY <1>0
<1>3. \A s \in Slots : m.sys[s] \in Frames \cup {NoFrame}
  BY <1>0
<1>. QED
  BY <1>1, <1>2, <1>3 DEF Pte

LEMMA NoPteIs == NoPte \in Pte /\ NoPte.f = NoFrame /\ ~NoPte.w /\ ~NoPte.cow
BY DEF NoPte, Pte

LEMMA TableCounts ==
    ASSUME NEW m, NEW f
    PROVE  /\ \A bs \in Spaces, r \in Region : m.pde[bs][r] = f => Mappings(m, f) >= 1
           /\ \A s \in Slots : m.sys[s] = f => Mappings(m, f) >= 1
<1>1. /\ Cardinality(PteRefs(m, f)) \in Nat /\ Cardinality(PdeRefs(m, f)) \in Nat
      /\ Cardinality(SysRefs(m, f)) \in Nat
      /\ Mappings(m, f) = Cardinality(PteRefs(m, f)) + Cardinality(PdeRefs(m, f)) + Cardinality(SysRefs(m, f))
  BY RefsFinite
<1>2. ASSUME NEW bs \in Spaces, NEW r \in Region, m.pde[bs][r] = f PROVE Mappings(m, f) >= 1
  <2>1. <<bs, r>> \in PdeRefs(m, f)
    BY <1>2 DEF PdeRefs
  <2>2. Cardinality(PdeRefs(m, f)) # 0
    BY <2>1, RefsFinite, FS_EmptySet
  <2>. QED
    BY <1>1, <2>2
<1>3. ASSUME NEW s \in Slots, m.sys[s] = f PROVE Mappings(m, f) >= 1
  <2>1. s \in SysRefs(m, f)
    BY <1>3 DEF SysRefs
  <2>2. Cardinality(SysRefs(m, f)) # 0
    BY <2>1, RefsFinite, FS_EmptySet
  <2>. QED
    BY <1>1, <2>2
<1>. QED
  BY <1>2, <1>3

\* Extra references, by frame.
Extras == [Frames -> Nat]

\* What is mapped has a reference.
LEMMA MappedReferenced ==
    ASSUME NEW m, NEW X, NEW h \in Extras, Sound(m, X, h)
    PROVE  /\ \A as \in Spaces, a \in Pages : m.pte[as][a].f # NoFrame => m.ref[m.pte[as][a].f] > 0
           /\ \A as \in Spaces, r \in Region : m.pde[as][r] # NoFrame => m.ref[m.pde[as][r]] > 0
           /\ \A s \in Slots : m.sys[s] # NoFrame => m.ref[m.sys[s]] > 0
           /\ \A f \in Frames : h[f] > 0 => m.ref[f] > 0
<1>0. \A f \in Frames : m.ref[f] = Mappings(m, f) + h[f] /\ h[f] \in Nat /\ Mappings(m, f) \in Nat
  BY RefsFinite DEF Sound, Counted, Extras
<1>1. ASSUME NEW as \in Spaces, NEW a \in Pages, m.pte[as][a].f # NoFrame PROVE m.ref[m.pte[as][a].f] > 0
  <2>1. PICK f \in Frames : f = m.pte[as][a].f
    BY <1>1, EntryTypes DEF Sound
  <2>2. Mappings(m, f) >= 1
    BY <2>1, MappedCounts
  <2>3. m.ref[f] > 0
    BY <1>0, <2>2
  <2>. QED
    BY <2>1, <2>3
<1>2. ASSUME NEW as \in Spaces, NEW r \in Region, m.pde[as][r] # NoFrame PROVE m.ref[m.pde[as][r]] > 0
  <2>1. PICK f \in Frames : f = m.pde[as][r]
    BY <1>2, EntryTypes DEF Sound
  <2>2. Mappings(m, f) >= 1
    BY <2>1, TableCounts
  <2>3. m.ref[f] > 0
    BY <1>0, <2>2
  <2>. QED
    BY <2>1, <2>3
<1>3. ASSUME NEW s \in Slots, m.sys[s] # NoFrame PROVE m.ref[m.sys[s]] > 0
  <2>1. PICK f \in Frames : f = m.sys[s]
    BY <1>3, EntryTypes DEF Sound
  <2>2. Mappings(m, f) >= 1
    BY <2>1, TableCounts
  <2>3. m.ref[f] > 0
    BY <1>0, <2>2
  <2>. QED
    BY <2>1, <2>3
<1>4. \A f \in Frames : h[f] > 0 => m.ref[f] > 0
  BY <1>0
<1>. QED
  BY <1>1, <1>2, <1>3, <1>4

\* A page with the only reference is alone.
LEMMA AloneWithOne ==
    ASSUME NEW m, NEW X, NEW h \in Extras, Sound(m, X, h),
           NEW as \in Spaces, NEW a \in Pages, m.pte[as][a].f # NoFrame, m.ref[m.pte[as][a].f] = 1
    PROVE  /\ \A bs \in Spaces, b \in Pages : bs # as \/ b # a => m.pte[bs][b].f # m.pte[as][a].f
           /\ \A bs \in Spaces, r \in Region : m.pde[bs][r] # m.pte[as][a].f
           /\ \A s \in Slots : m.sys[s] # m.pte[as][a].f
           /\ h[m.pte[as][a].f] = 0
<1>1. PICK f \in Frames : f = m.pte[as][a].f
  BY EntryTypes DEF Sound
<1>2. m.ref[f] = Mappings(m, f) + h[f] /\ h[f] \in Nat /\ Mappings(m, f) \in Nat /\ m.ref[f] = 1
  BY <1>1, RefsFinite DEF Sound, Counted, Extras
<1>3. Mappings(m, f) = 1 /\ h[f] = 0
  <2>1. Mappings(m, f) >= 1
    BY <1>1, MappedCounts
  <2>. QED
    BY <1>2, <2>1
<1>4. ASSUME NEW bs \in Spaces, NEW b \in Pages, bs # as \/ b # a, m.pte[bs][b].f = f PROVE FALSE
  <2>0. m.pte[as][a].f = f
    BY <1>1
  <2>2. Maps(m, as, a, f) /\ Maps(m, bs, b, f) /\ <<as, a>> # <<bs, b>>
    BY <1>4, <2>0 DEF Maps
  <2>1. Mappings(m, f) >= 2
    BY <2>2, MapsTwice
  <2>. QED
    BY <1>3, <2>1
<1>5. ASSUME NEW bs \in Spaces, NEW r \in Region, m.pde[bs][r] = f PROVE FALSE
  <2>0. m.pte[as][a].f = f
    BY <1>1
  <2>2. \A cs \in Spaces, q \in Region : m.pde[cs][q] = f => Mappings(m, f) >= 2
    BY <2>0, MappedCounts
  <2>1. Mappings(m, f) >= 2
    BY <1>5, <2>2
  <2>. QED
    BY <1>3, <2>1
<1>6. ASSUME NEW s \in Slots, m.sys[s] = f PROVE FALSE
  <2>1. Mappings(m, f) >= 2
    BY <1>1, <1>6, MappedCounts
  <2>. QED
    BY <1>3, <2>1
<1>. QED
  BY <1>1, <1>3, <1>4, <1>5, <1>6

\* What has no reference is not mapped.
Unmapped(m, f) ==
    /\ \A as \in Spaces, a \in Pages : m.pte[as][a].f # f
    /\ \A as \in Spaces, r \in Region : m.pde[as][r] # f
    /\ \A s \in Slots : m.sys[s] # f

LEMMA UnreferencedUnmapped ==
    ASSUME NEW m, NEW X, NEW h \in Extras, Sound(m, X, h), NEW f \in Frames, m.ref[f] = 0
    PROVE  Unmapped(m, f) /\ h[f] = 0
<1>1. NoFrame # f
  BY Sizes
<1>2. h[f] \in Nat
  BY DEF Extras
<1>3. /\ \A as \in Spaces, a \in Pages : m.pte[as][a].f # NoFrame => m.ref[m.pte[as][a].f] > 0
      /\ \A as \in Spaces, r \in Region : m.pde[as][r] # NoFrame => m.ref[m.pde[as][r]] > 0
      /\ \A s \in Slots : m.sys[s] # NoFrame => m.ref[m.sys[s]] > 0
      /\ \A g \in Frames : h[g] > 0 => m.ref[g] > 0
  BY MappedReferenced
<1>. QED
  BY <1>1, <1>2, <1>3 DEF Unmapped

-----------------------------------------------------------------------------
(* The elementary changes of the memory.  A reference that no mapping       *)
(* explains yet, or no longer, is an extra one.                             *)

Up(h, f) == [h EXCEPT ![f] = @ + 1]
Counting(m, f) == [m EXCEPT !.ref[f] = @ + 1]
WithPte(m, as, a, e) == [m EXCEPT !.pte[as][a] = e]
WithPde(m, as, r, f) == [m EXCEPT !.pde[as][r] = f]
WithSlot(m, s, f) == [m EXCEPT !.sys[s] = f]

SameTables(m, n) == n.pte = m.pte /\ n.pde = m.pde /\ n.sys = m.sys

\* The results of a change of one entry.
Rest(m, n) == n.free = m.free /\ n.data = m.data /\ n.taint = m.taint /\ n.dir = m.dir /\ n.ref = m.ref
PteSet(m, n, as, a, e) == n \in Memory /\ n.pte[as][a] = e /\ OnlyPte(m, n, as, a) /\ Rest(m, n)
PdeSet(m, n, as, r, f) == n \in Memory /\ n.pde[as][r] = f /\ OnlyPde(m, n, as, r) /\ Rest(m, n)
SlotSet(m, n, s, f) == n \in Memory /\ n.sys[s] = f /\ OnlySlot(m, n, s) /\ Rest(m, n)
FrameOrNone == Frames \cup {NoFrame}

LEMMA UpIs ==
    ASSUME NEW h \in Extras, NEW f \in Frames
    PROVE  /\ Up(h, f) \in Extras /\ Up(h, f)[f] = h[f] + 1
           /\ \A g \in Frames : g # f => Up(h, f)[g] = h[g]
           /\ \A g \in Frames : h[g] \in Nat /\ Up(h, f)[g] = h[g] + Is(f, g)
BY DEF Up, Extras, Is

UpFits(h, f, g) == h[g] \in Nat /\ Is(f, g) \in Nat /\ Up(h, f)[g] = h[g] + Is(f, g)

LEMMA UpAt ==
    ASSUME NEW h \in Extras, NEW f \in Frames, NEW g \in Frames
    PROVE  UpFits(h, f, g)
BY UpIs, IsNumber DEF UpFits, Is

LEMMA SameMappings ==
    ASSUME NEW m, NEW n, SameTables(m, n)
    PROVE  \A f : Mappings(n, f) = Mappings(m, f)
BY DEF SameTables, Mappings

LEMMA CountingIs ==
    ASSUME NEW m \in Memory, NEW f \in Frames
    PROVE  /\ Counting(m, f) \in Memory /\ SameTables(m, Counting(m, f))
           /\ Counting(m, f).ref[f] = m.ref[f] + 1
           /\ \A g \in Frames : g # f => Counting(m, f).ref[g] = m.ref[g]
           /\ \A g \in Frames : Counting(m, f).ref[g] = m.ref[g] + Is(f, g)
           /\ Counting(m, f).free = m.free /\ Counting(m, f).data = m.data
           /\ Counting(m, f).taint = m.taint /\ Counting(m, f).dir = m.dir
<1>1. PICK R : R = [m.ref EXCEPT ![f] = @ + 1]
  OBVIOUS
<1>2. R \in [Frames -> Nat]
  BY <1>1, MemoryTypes
<1>3. PICK n : n = Counting(m, f)
  OBVIOUS
<1>4. n = [m EXCEPT !.ref = R]
  BY <1>1, <1>3 DEF Counting
<1>5. n \in Memory
  BY <1>2, <1>4 DEF Memory
<1>6. /\ n.ref = R /\ SameTables(m, n) /\ n.free = m.free /\ n.data = m.data /\ n.taint = m.taint /\ n.dir = m.dir
  BY <1>4 DEF Memory, SameTables
<1>7. /\ R[f] = m.ref[f] + 1 /\ \A g \in Frames : g # f => R[g] = m.ref[g]
      /\ \A g \in Frames : R[g] = m.ref[g] + Is(f, g)
  BY <1>1, MemoryTypes DEF Is
<1>. QED
  BY <1>3, <1>5, <1>6, <1>7

LEMMA WithPteIs ==
    ASSUME NEW m \in Memory, NEW as \in Spaces, NEW a \in Pages, NEW e \in Pte
    PROVE  PteSet(m, WithPte(m, as, a, e), as, a, e)
<1>1. PICK R : R = [m.pte EXCEPT ![as][a] = e]
  OBVIOUS
<1>0. m.pte \in [Spaces -> [Pages -> Pte]]
  BY MemoryTypes
<1>2. /\ R \in [Spaces -> [Pages -> Pte]] /\ R[as][a] = e
      /\ \A bs \in Spaces, b \in Pages : bs # as \/ b # a => R[bs][b] = m.pte[bs][b]
  BY <1>0, <1>1
<1>3. PICK n : n = WithPte(m, as, a, e)
  OBVIOUS
<1>4. n = [m EXCEPT !.pte = R]
  BY <1>1, <1>3 DEF WithPte
<1>5. n \in Memory
  BY <1>2, <1>4 DEF Memory
<1>6. /\ n.pte = R /\ n.pde = m.pde /\ n.sys = m.sys /\ n.free = m.free /\ n.data = m.data /\ n.taint = m.taint
      /\ n.dir = m.dir /\ n.ref = m.ref
  BY <1>4 DEF Memory
<1>7. OnlyPte(m, n, as, a)
  BY <1>2, <1>6 DEF OnlyPte
<1>. QED
  BY <1>2, <1>3, <1>5, <1>6, <1>7 DEF PteSet, Rest

LEMMA WithPdeIs ==
    ASSUME NEW m \in Memory, NEW as \in Spaces, NEW a \in Region, NEW e \in FrameOrNone
    PROVE  PdeSet(m, WithPde(m, as, a, e), as, a, e)
<1>1. PICK R : R = [m.pde EXCEPT ![as][a] = e]
  OBVIOUS
<1>0. m.pde \in [Spaces -> [Region -> Frames \cup {NoFrame}]]
  BY MemoryTypes
<1>2. /\ R \in [Spaces -> [Region -> Frames \cup {NoFrame}]] /\ R[as][a] = e
      /\ \A bs \in Spaces, b \in Region : bs # as \/ b # a => R[bs][b] = m.pde[bs][b]
  BY <1>0, <1>1 DEF FrameOrNone
<1>3. PICK n : n = WithPde(m, as, a, e)
  OBVIOUS
<1>4. n = [m EXCEPT !.pde = R]
  BY <1>1, <1>3 DEF WithPde
<1>5. n \in Memory
  BY <1>2, <1>4 DEF Memory
<1>6. /\ n.pde = R /\ n.pte = m.pte /\ n.sys = m.sys /\ n.free = m.free /\ n.data = m.data /\ n.taint = m.taint
      /\ n.dir = m.dir /\ n.ref = m.ref
  BY <1>4 DEF Memory
<1>7. OnlyPde(m, n, as, a)
  BY <1>2, <1>6 DEF OnlyPde
<1>. QED
  BY <1>2, <1>3, <1>5, <1>6, <1>7 DEF PdeSet, Rest

LEMMA WithSlotIs ==
    ASSUME NEW m \in Memory, NEW s \in Slots, NEW e \in FrameOrNone
    PROVE  SlotSet(m, WithSlot(m, s, e), s, e)
<1>1. PICK R : R = [m.sys EXCEPT ![s] = e]
  OBVIOUS
<1>0. m.sys \in [Slots -> Frames \cup {NoFrame}]
  BY MemoryTypes
<1>2. /\ R \in [Slots -> Frames \cup {NoFrame}] /\ R[s] = e
      /\ \A z \in Slots : z # s => R[z] = m.sys[z]
  BY <1>0, <1>1 DEF FrameOrNone
<1>3. PICK n : n = WithSlot(m, s, e)
  OBVIOUS
<1>4. n = [m EXCEPT !.sys = R]
  BY <1>1, <1>3 DEF WithSlot
<1>5. n \in Memory
  BY <1>2, <1>4 DEF Memory
<1>6. /\ n.sys = R /\ n.pte = m.pte /\ n.pde = m.pde /\ n.free = m.free /\ n.data = m.data /\ n.taint = m.taint
      /\ n.dir = m.dir /\ n.ref = m.ref
  BY <1>4 DEF Memory
<1>7. OnlySlot(m, n, s)
  BY <1>2, <1>6 DEF OnlySlot
<1>. QED
  BY <1>2, <1>3, <1>5, <1>6, <1>7 DEF SlotSet, Rest

LEMMA AllocatedIs ==
    ASSUME NEW m \in Memory, m.free # {}
    PROVE  /\ NextFree(m) \in m.free /\ NextFree(m) \in Frames
           /\ Allocated(m) \in Memory /\ SameTables(m, Allocated(m))
           /\ Allocated(m).free = m.free \ {NextFree(m)} /\ Allocated(m).ref = m.ref
           /\ Allocated(m).data = m.data /\ Allocated(m).taint = m.taint /\ Allocated(m).dir = m.dir
<1>1. m.free \subseteq Frames
  BY MemoryTypes
<1>2. NextFree(m) \in m.free
  BY <1>1, Sizes, MinIs DEF NextFree
<1>3. PICK n : n = Allocated(m)
  OBVIOUS
<1>4. PICK R : R = m.free \ {NextFree(m)}
  OBVIOUS
<1>5. n = [m EXCEPT !.free = R] /\ R \in SUBSET Frames
  BY <1>1, <1>3, <1>4 DEF Allocated
<1>6. n \in Memory
  BY <1>5 DEF Memory
<1>7. n.free = R /\ SameTables(m, n) /\ n.ref = m.ref /\ n.data = m.data /\ n.taint = m.taint /\ n.dir = m.dir
  BY <1>5 DEF Memory, SameTables
<1>. QED
  BY <1>1, <1>2, <1>3, <1>4, <1>6, <1>7

LEMMA FreeCounts ==
    ASSUME NEW m \in Memory
    PROVE  Free(m) \in Nat /\ (Free(m) = 0 <=> m.free = {})
<1>1. IsFiniteSet(m.free)
  BY MemoryTypes, FiniteSizes, FS_Subset
<1>. QED
  BY <1>1, FS_CardinalityType, FS_EmptySet DEF Free

LEMMA AllocatedCounts ==
    ASSUME NEW m \in Memory, m.free # {}
    PROVE  Free(Allocated(m)) = Free(m) - 1
<1>1. IsFiniteSet(m.free)
  BY MemoryTypes, FiniteSizes, FS_Subset
<1>2. NextFree(m) \in m.free /\ Allocated(m).free = m.free \ {NextFree(m)}
  BY AllocatedIs
<1>. QED
  BY <1>1, <1>2, FS_RemoveElement DEF Free

-----------------------------------------------------------------------------
(* Each elementary change keeps the memory sound.                           *)

\* No page that a program may write has the frame.
NotWritable(m, f) == \A as \in Spaces, a \in UserPages : m.pte[as][a].w => m.pte[as][a].f # f

LEMMA SoundIs ==
    ASSUME NEW m, NEW X, NEW h, Sound(m, X, h)
    PROVE  /\ m \in Memory
           /\ \A f \in Frames : m.ref[f] = Mappings(m, f) + h[f]
           /\ \A f \in Frames : m.ref[f] \in Nat /\ Mappings(m, f) \in Nat
           /\ \A f \in Frames : (f \in m.free \/ f \in X <=> m.ref[f] = 0) /\ ~(f \in m.free /\ f \in X)
           /\ \A f \in Frames : m.ref[f] = 0 => m.data[f] = Unset /\ f \notin m.taint
           /\ \A as \in Spaces, a \in Pages : PteFits(m, as, a)
BY MemoryTypes, RefsFinite DEF Sound, Counted, FreeFits, Clean, EntriesFit

LEMMA AllocatedSound ==
    ASSUME NEW m, NEW X, NEW h, Sound(m, X, h), m.free # {}
    PROVE  /\ Sound(Allocated(m), X \cup {NextFree(m)}, h)
           /\ NextFree(m) \in Frames /\ NextFree(m) \notin X /\ m.ref[NextFree(m)] = 0
<1>0. m \in Memory
  BY SoundIs
<1>1. PICK f, n : f = NextFree(m) /\ n = Allocated(m)
  OBVIOUS
<1>2. /\ f \in m.free /\ f \in Frames /\ n \in Memory /\ SameTables(m, n) /\ n.free = m.free \ {f} /\ n.ref = m.ref
      /\ n.data = m.data /\ n.taint = m.taint
  BY <1>0, <1>1, AllocatedIs
<1>3. Counted(n, h)
  BY <1>2, SoundIs, SameMappings DEF Counted
<1>4. FreeFits(n, X \cup {f}) /\ f \notin X /\ m.ref[f] = 0
  BY <1>2, SoundIs DEF FreeFits
<1>5. Clean(n)
  BY <1>2, SoundIs DEF Clean
<1>6. EntriesFit(n)
  <2>1. SUFFICES ASSUME NEW as \in Spaces, NEW a \in Pages PROVE PteFits(n, as, a)
    BY DEF EntriesFit
  <2>2. PteFits(m, as, a)
    BY SoundIs
  <2>. QED
    BY <1>2, <2>2 DEF PteFits, SameTables
<1>. QED
  BY <1>1, <1>2, <1>3, <1>4, <1>5, <1>6 DEF Sound

LEMMA CountingSound ==
    ASSUME NEW m, NEW X, NEW h \in Extras, Sound(m, X, h), NEW f \in Frames, f \notin m.free, NotWritable(m, f)
    PROVE  Sound(Counting(m, f), X \ {f}, Up(h, f))
<1>0. m \in Memory
  BY SoundIs
<1>1. PICK n, k : n = Counting(m, f) /\ k = Up(h, f)
  OBVIOUS
<1>2. /\ n \in Memory /\ SameTables(m, n) /\ n.free = m.free /\ n.data = m.data /\ n.taint = m.taint
      /\ n.ref[f] = m.ref[f] + 1 /\ \A g \in Frames : g # f => n.ref[g] = m.ref[g]
  BY <1>0, <1>1, CountingIs
<1>3. Counted(n, k)
  <2>1. SUFFICES ASSUME NEW g \in Frames PROVE n.ref[g] = Mappings(n, g) + k[g]
    BY DEF Counted
  <2>2. Mappings(n, g) = Mappings(m, g) /\ m.ref[g] = Mappings(m, g) + h[g] /\ Mappings(m, g) \in Nat
    BY <1>2, SoundIs, SameMappings
  <2>3. h[g] \in Nat /\ (g = f => k[g] = h[g] + 1) /\ (g # f => k[g] = h[g])
    BY <1>1, UpIs
  <2>. QED
    BY <1>2, <2>2, <2>3
<1>4. FreeFits(n, X \ {f})
  <2>1. SUFFICES ASSUME NEW g \in Frames
                 PROVE  (g \in n.free \/ g \in X \ {f} <=> n.ref[g] = 0) /\ ~(g \in n.free /\ g \in X \ {f})
    BY DEF FreeFits
  <2>2. (g \in m.free \/ g \in X <=> m.ref[g] = 0) /\ ~(g \in m.free /\ g \in X) /\ m.ref[g] \in Nat
    BY SoundIs
  <2>3. CASE g = f
    BY <1>2, <2>2, <2>3
  <2>4. CASE g # f
    BY <1>2, <2>2, <2>4
  <2>. QED
    BY <2>3, <2>4
<1>5. Clean(n)
  BY <1>2, SoundIs DEF Clean
<1>6. EntriesFit(n)
  <2>1. SUFFICES ASSUME NEW as \in Spaces, NEW a \in Pages PROVE PteFits(n, as, a)
    BY DEF EntriesFit
  <2>2. PteFits(m, as, a) /\ n.pte = m.pte /\ n.pde = m.pde
    BY <1>2, SoundIs DEF SameTables
  <2>3. a \in UserPages /\ m.pte[as][a].w => m.pte[as][a].f # f /\ m.pte[as][a].f \in Frames
    BY <1>0, <2>2, EntryTypes, NoPteIs DEF NotWritable, PteFits
  <2>. QED
    BY <1>2, <2>2, <2>3 DEF PteFits
<1>. QED
  BY <1>1, <1>2, <1>3, <1>4, <1>5, <1>6 DEF Sound

LEMMA ClearedSound ==
    ASSUME NEW m, NEW X, NEW h \in Extras, Sound(m, X, h), NEW as \in Spaces, NEW a \in Pages,
           NEW f \in Frames, f = m.pte[as][a].f
    PROVE  Sound(WithPte(m, as, a, NoPte), X, Up(h, f))
<1>0. m \in Memory
  BY SoundIs
<1>1. PICK n, k : n = WithPte(m, as, a, NoPte) /\ k = Up(h, f)
  OBVIOUS
<1>20. PteSet(m, n, as, a, NoPte)
  BY <1>0, <1>1, WithPteIs, NoPteIs
<1>2. /\ n \in Memory /\ n.pte[as][a] = NoPte /\ OnlyPte(m, n, as, a)
      /\ n.free = m.free /\ n.data = m.data /\ n.taint = m.taint /\ n.ref = m.ref
  BY <1>20 DEF PteSet, Rest
<1>3. Counted(n, k)
  <2>1. SUFFICES ASSUME NEW g \in Frames PROVE n.ref[g] = Mappings(n, g) + k[g]
    BY DEF Counted
  <2>2. Balanced(Mappings(n, g), Is(m.pte[as][a].f, g), Mappings(m, g), Is(n.pte[as][a].f, g))
    BY <1>2, PteStep
  <2>3. Is(n.pte[as][a].f, g) = 0
    BY <1>2, NoPteIs, Sizes DEF Is
  <2>4. k[g] = h[g] + Is(f, g) /\ h[g] \in Nat /\ Is(f, g) \in Nat
    BY <1>1, UpAt DEF UpFits
  <2>5. m.ref[g] = Mappings(m, g) + h[g] /\ Mappings(m, g) \in Nat /\ Mappings(n, g) \in Nat
    BY SoundIs, RefsFinite
  <2>6. PICK i \in Nat, x \in Nat, y \in Nat, z \in Nat :
            i = Is(f, g) /\ x = Mappings(m, g) /\ y = Mappings(n, g) /\ z = h[g]
    BY <2>4, <2>5
  <2>7. y + i = x + 0
    BY <2>2, <2>3, <2>6 DEF Balanced
  <2>8. x + z = y + (z + i)
    BY <2>7
  <2>. QED
    BY <1>2, <2>4, <2>5, <2>6, <2>8
<1>4. FreeFits(n, X) /\ Clean(n)
  BY <1>2, SoundIs DEF FreeFits, Clean
<1>6. EntriesFit(n)
  <2>1. SUFFICES ASSUME NEW bs \in Spaces, NEW b \in Pages PROVE PteFits(n, bs, b)
    BY DEF EntriesFit
  <2>2. CASE bs = as /\ b = a
    BY <1>2, <2>2, NoPteIs DEF PteFits
  <2>3. CASE ~(bs = as /\ b = a)
    <3>1. n.pte[bs][b] = m.pte[bs][b] /\ n.pde = m.pde
      BY <1>2, <2>3 DEF OnlyPte
    <3>2. PteFits(m, bs, b)
      BY SoundIs
    <3>. QED
      BY <1>2, <3>1, <3>2 DEF PteFits
  <2>. QED
    BY <2>2, <2>3
<1>. QED
  BY <1>1, <1>2, <1>3, <1>4, <1>6 DEF Sound

\* MiDecReferencePFN drops an extra reference.
DecDone(m, n, f) ==
    /\ n \in Memory /\ SameTables(m, n) /\ n.dir = m.dir /\ n.ref[f] = m.ref[f] - 1
    /\ \A g \in Frames : g # f => /\ n.ref[g] = m.ref[g] /\ n.data[g] = m.data[g]
                                  /\ (g \in n.taint <=> g \in m.taint) /\ (g \in n.free <=> g \in m.free)
    /\ m.ref[f] = 1 => n.data[f] = Unset /\ f \notin n.taint /\ f \in n.free
    /\ m.ref[f] # 1 => n.data[f] = m.data[f] /\ (f \in n.taint <=> f \in m.taint) /\ (f \in n.free <=> f \in m.free)

LEMMA DecIs ==
    ASSUME NEW m \in Memory, NEW f \in Frames, m.ref[f] > 0
    PROVE  DecDone(m, MiDecReferencePFN(m, f), f)
<1>0. m.ref \in [Frames -> Nat] /\ m.data \in [Frames -> Values] /\ m.free \subseteq Frames /\ m.taint \subseteq Frames
  BY MemoryTypes
<1>1. PICK n : n = MiDecReferencePFN(m, f)
  OBVIOUS
<1>2. CASE m.ref[f] = 1
  <2>1. PICK R, D, F, T : /\ R = [m.ref EXCEPT ![f] = 0] /\ D = [m.data EXCEPT ![f] = Unset]
                          /\ F = m.free \cup {f} /\ T = m.taint \ {f}
    OBVIOUS
  <2>2. R \in [Frames -> Nat] /\ D \in [Frames -> Values] /\ F \in SUBSET Frames /\ T \in SUBSET Frames
    BY <1>0, <2>1, Sizes
  <2>3. n = [m EXCEPT !.ref = R, !.free = F, !.data = D, !.taint = T]
    BY <1>1, <1>2, <2>1 DEF MiDecReferencePFN, MiFreePFN, Memory
  <2>4. n \in Memory
    BY <2>2, <2>3 DEF Memory
  <2>5. n.ref = R /\ n.data = D /\ n.free = F /\ n.taint = T /\ SameTables(m, n) /\ n.dir = m.dir
    BY <2>3 DEF Memory, SameTables
  <2>6. /\ R[f] = m.ref[f] - 1 /\ D[f] = Unset /\ f \in F /\ f \notin T
        /\ \A g \in Frames : g # f => /\ R[g] = m.ref[g] /\ D[g] = m.data[g]
                                      /\ (g \in T <=> g \in m.taint) /\ (g \in F <=> g \in m.free)
    BY <1>0, <1>2, <2>1
  <2>. QED
    BY <1>1, <1>2, <2>4, <2>5, <2>6 DEF DecDone
<1>3. CASE m.ref[f] # 1
  <2>1. PICK R : R = [m.ref EXCEPT ![f] = @ - 1]
    OBVIOUS
  <2>2. R \in [Frames -> Nat]
    BY <1>0, <2>1
  <2>3. n = [m EXCEPT !.ref = R]
    BY <1>1, <1>3, <2>1 DEF MiDecReferencePFN
  <2>4. n \in Memory
    BY <2>2, <2>3 DEF Memory
  <2>5. n.ref = R /\ n.data = m.data /\ n.free = m.free /\ n.taint = m.taint /\ SameTables(m, n) /\ n.dir = m.dir
    BY <2>3 DEF Memory, SameTables
  <2>6. R[f] = m.ref[f] - 1 /\ \A g \in Frames : g # f => R[g] = m.ref[g]
    BY <1>0, <2>1
  <2>. QED
    BY <1>1, <1>3, <2>4, <2>5, <2>6 DEF DecDone
<1>. QED
  BY <1>2, <1>3

LEMMA DecSound ==
    ASSUME NEW m, NEW X, NEW h \in Extras, NEW f \in Frames, Sound(m, X, Up(h, f)), NotWritable(m, f)
    PROVE  m.ref[f] > 0 /\ Sound(MiDecReferencePFN(m, f), X, h)
<1>0. m \in Memory /\ Up(h, f) \in Extras
  BY SoundIs, UpIs
<1>n. PICK n : n = MiDecReferencePFN(m, f)
  OBVIOUS
<1>1. m.ref[f] > 0
  <2>1. Up(h, f)[f] > 0
    BY UpIs
  <2>. QED
    BY <1>0, <2>1, MappedReferenced
<1>2. /\ n \in Memory /\ SameTables(m, n) /\ n.ref[f] = m.ref[f] - 1
      /\ \A g \in Frames : g # f => /\ n.ref[g] = m.ref[g] /\ n.data[g] = m.data[g]
                                    /\ g \in n.taint <=> g \in m.taint
                                    /\ g \in n.free <=> g \in m.free
      /\ m.ref[f] = 1 => n.data[f] = Unset /\ f \notin n.taint /\ f \in n.free
      /\ m.ref[f] # 1 => (f \in n.free <=> f \in m.free)
  <2>1. DecDone(m, n, f)
    BY <1>0, <1>1, <1>n, DecIs
  <2>. QED
    BY <2>1 DEF DecDone
<1>3. Counted(n, h)
  <2>1. SUFFICES ASSUME NEW g \in Frames PROVE n.ref[g] = Mappings(n, g) + h[g]
    BY DEF Counted
  <2>2. Mappings(n, g) = Mappings(m, g) /\ m.ref[g] = Mappings(m, g) + Up(h, f)[g] /\ Mappings(m, g) \in Nat
    BY <1>2, SoundIs, SameMappings
  <2>3. h[g] \in Nat /\ (g = f => Up(h, f)[g] = h[g] + 1) /\ (g # f => Up(h, f)[g] = h[g])
    BY UpIs
  <2>. QED
    BY <1>2, <2>2, <2>3
<1>4. FreeFits(n, X)
  <2>1. SUFFICES ASSUME NEW g \in Frames
                 PROVE  (g \in n.free \/ g \in X <=> n.ref[g] = 0) /\ ~(g \in n.free /\ g \in X)
    BY DEF FreeFits
  <2>2. (g \in m.free \/ g \in X <=> m.ref[g] = 0) /\ ~(g \in m.free /\ g \in X) /\ m.ref[g] \in Nat
    BY SoundIs
  <2>3. CASE g = f
    BY <1>1, <1>2, <2>2, <2>3
  <2>4. CASE g # f
    BY <1>2, <2>2, <2>4
  <2>. QED
    BY <2>3, <2>4
<1>5. Clean(n)
  <2>1. SUFFICES ASSUME NEW g \in Frames, n.ref[g] = 0 PROVE n.data[g] = Unset /\ g \notin n.taint
    BY DEF Clean
  <2>2. CASE g = f
    <3>1. m.ref[f] = 1
      BY <1>2, <2>1, <2>2, SoundIs
    <3>. QED
      BY <1>2, <2>2, <3>1
  <2>3. CASE g # f
    BY <1>2, <2>1, <2>3, SoundIs
  <2>. QED
    BY <2>2, <2>3
<1>6. EntriesFit(n)
  <2>1. SUFFICES ASSUME NEW as \in Spaces, NEW a \in Pages PROVE PteFits(n, as, a)
    BY DEF EntriesFit
  <2>2. PteFits(m, as, a) /\ n.pte = m.pte /\ n.pde = m.pde
    BY <1>2, SoundIs DEF SameTables
  <2>3. a \in UserPages /\ m.pte[as][a].w => m.pte[as][a].f # f /\ m.pte[as][a].f \in Frames
    BY <1>0, <2>2, EntryTypes, NoPteIs DEF NotWritable, PteFits
  <2>. QED
    BY <1>2, <2>2, <2>3 DEF PteFits
<1>. QED
  BY <1>n, <1>1, <1>2, <1>3, <1>4, <1>5, <1>6 DEF Sound

\* An entry takes over an extra reference.
LEMMA PutPteSound ==
    ASSUME NEW m, NEW X, NEW h \in Extras, NEW as \in Spaces, NEW a \in Pages, NEW e \in Pte, NEW f \in Frames,
           Sound(m, X, Up(h, f)), e.f = f, m.pte[as][a].f = NoFrame, m.pde[as][a[1]] # NoFrame,
           a \in UserPages => e.w \/ e.cow, a \in UserPages /\ e.w => ~e.cow /\ m.ref[f] = 1
    PROVE  Sound(WithPte(m, as, a, e), X, h)
<1>0. m \in Memory
  BY SoundIs
<1>1. PICK n : n = WithPte(m, as, a, e)
  OBVIOUS
<1>20. PteSet(m, n, as, a, e)
  BY <1>0, <1>1, WithPteIs
<1>2. /\ n \in Memory /\ n.pte[as][a] = e /\ OnlyPte(m, n, as, a)
      /\ n.free = m.free /\ n.data = m.data /\ n.taint = m.taint /\ n.ref = m.ref
  BY <1>20 DEF PteSet, Rest
<1>3. Counted(n, h)
  <2>1. SUFFICES ASSUME NEW g \in Frames PROVE n.ref[g] = Mappings(n, g) + h[g]
    BY DEF Counted
  <2>2. Balanced(Mappings(n, g), Is(m.pte[as][a].f, g), Mappings(m, g), Is(n.pte[as][a].f, g))
    BY <1>2, PteStep
  <2>3. Is(m.pte[as][a].f, g) = 0
    BY Sizes DEF Is
  <2>4. Up(h, f)[g] = h[g] + Is(f, g) /\ h[g] \in Nat /\ Is(f, g) \in Nat
    BY UpAt DEF UpFits
  <2>5. m.ref[g] = Mappings(m, g) + Up(h, f)[g] /\ Mappings(m, g) \in Nat /\ Mappings(n, g) \in Nat
    BY SoundIs, RefsFinite
  <2>6. PICK i \in Nat, x \in Nat, y \in Nat, z \in Nat :
            i = Is(f, g) /\ x = Mappings(m, g) /\ y = Mappings(n, g) /\ z = h[g]
    BY <2>4, <2>5
  <2>7. y + 0 = x + i
    BY <1>2, <2>2, <2>3, <2>6 DEF Balanced
  <2>8. x + (z + i) = y + z
    BY <2>7
  <2>. QED
    BY <1>2, <2>4, <2>5, <2>6, <2>8
<1>4. FreeFits(n, X) /\ Clean(n)
  BY <1>2, SoundIs DEF FreeFits, Clean
<1>6. EntriesFit(n)
  <2>1. SUFFICES ASSUME NEW bs \in Spaces, NEW b \in Pages PROVE PteFits(n, bs, b)
    BY DEF EntriesFit
  <2>2. CASE bs = as /\ b = a
    <3>1. n.pde = m.pde /\ f # NoFrame
      BY <1>2, Sizes DEF OnlyPte
    <3>. QED
      BY <1>2, <2>2, <3>1 DEF PteFits
  <2>3. CASE ~(bs = as /\ b = a)
    <3>1. n.pte[bs][b] = m.pte[bs][b] /\ n.pde = m.pde
      BY <1>2, <2>3 DEF OnlyPte
    <3>2. PteFits(m, bs, b)
      BY SoundIs
    <3>. QED
      BY <1>2, <3>1, <3>2 DEF PteFits
  <2>. QED
    BY <2>2, <2>3
<1>. QED
  BY <1>1, <1>2, <1>3, <1>4, <1>6 DEF Sound

LEMMA PutPdeSound ==
    ASSUME NEW m, NEW X, NEW h \in Extras, NEW as \in Spaces, NEW a \in Region, NEW f \in Frames,
           Sound(m, X, Up(h, f)), m.pde[as][a] = NoFrame
    PROVE  Sound(WithPde(m, as, a, f), X, h)
<1>0. m \in Memory
  BY SoundIs
<1>1. PICK n : n = WithPde(m, as, a, f)
  OBVIOUS
<1>21. f \in FrameOrNone
  BY DEF FrameOrNone
<1>20. PdeSet(m, n, as, a, f)
  BY <1>0, <1>1, <1>21, WithPdeIs
<1>2. /\ n \in Memory /\ n.pde[as][a] = f /\ OnlyPde(m, n, as, a)
      /\ n.free = m.free /\ n.data = m.data /\ n.taint = m.taint /\ n.ref = m.ref
  BY <1>20 DEF PdeSet, Rest
<1>3. Counted(n, h)
  <2>1. SUFFICES ASSUME NEW g \in Frames PROVE n.ref[g] = Mappings(n, g) + h[g]
    BY DEF Counted
  <2>2. Balanced(Mappings(n, g), Is(m.pde[as][a], g), Mappings(m, g), Is(n.pde[as][a], g))
    BY <1>2, PdeStep
  <2>3. Is(m.pde[as][a], g) = 0
    BY Sizes DEF Is
  <2>4. Up(h, f)[g] = h[g] + Is(f, g) /\ h[g] \in Nat /\ Is(f, g) \in Nat
    BY UpAt DEF UpFits
  <2>5. m.ref[g] = Mappings(m, g) + Up(h, f)[g] /\ Mappings(m, g) \in Nat /\ Mappings(n, g) \in Nat
    BY SoundIs, RefsFinite
  <2>6. PICK i \in Nat, x \in Nat, y \in Nat, z \in Nat :
            i = Is(f, g) /\ x = Mappings(m, g) /\ y = Mappings(n, g) /\ z = h[g]
    BY <2>4, <2>5
  <2>7. y + 0 = x + i
    BY <1>2, <2>2, <2>3, <2>6 DEF Balanced
  <2>8. x + (z + i) = y + z
    BY <2>7
  <2>. QED
    BY <1>2, <2>4, <2>5, <2>6, <2>8
<1>4. FreeFits(n, X) /\ Clean(n)
  BY <1>2, SoundIs DEF FreeFits, Clean
<1>6. EntriesFit(n)
  <2>1. SUFFICES ASSUME NEW bs \in Spaces, NEW b \in Pages PROVE PteFits(n, bs, b)
    BY DEF EntriesFit
  <2>2. n.pte = m.pte
    BY <1>2 DEF OnlyPde
  <2>3. m.pde[bs][b[1]] # NoFrame => n.pde[bs][b[1]] # NoFrame
    BY <1>2, Sizes, PageRegions DEF OnlyPde
  <2>4. PteFits(m, bs, b)
    BY SoundIs
  <2>. QED
    BY <1>2, <2>2, <2>3, <2>4 DEF PteFits
<1>. QED
  BY <1>1, <1>2, <1>3, <1>4, <1>6 DEF Sound

LEMMA PutSlotSound ==
    ASSUME NEW m, NEW X, NEW h \in Extras, NEW s \in Slots, NEW f \in Frames,
           Sound(m, X, Up(h, f)), m.sys[s] = NoFrame
    PROVE  Sound(WithSlot(m, s, f), X, h)
<1>0. m \in Memory
  BY SoundIs
<1>1. PICK n : n = WithSlot(m, s, f)
  OBVIOUS
<1>21. f \in FrameOrNone
  BY DEF FrameOrNone
<1>20. SlotSet(m, n, s, f)
  BY <1>0, <1>1, <1>21, WithSlotIs
<1>2. /\ n \in Memory /\ n.sys[s] = f /\ OnlySlot(m, n, s)
      /\ n.free = m.free /\ n.data = m.data /\ n.taint = m.taint /\ n.ref = m.ref
  BY <1>20 DEF SlotSet, Rest
<1>3. Counted(n, h)
  <2>1. SUFFICES ASSUME NEW g \in Frames PROVE n.ref[g] = Mappings(n, g) + h[g]
    BY DEF Counted
  <2>2. Balanced(Mappings(n, g), Is(m.sys[s], g), Mappings(m, g), Is(n.sys[s], g))
    BY <1>2, SlotStep
  <2>3. Is(m.sys[s], g) = 0
    BY Sizes DEF Is
  <2>4. Up(h, f)[g] = h[g] + Is(f, g) /\ h[g] \in Nat /\ Is(f, g) \in Nat
    BY UpAt DEF UpFits
  <2>5. m.ref[g] = Mappings(m, g) + Up(h, f)[g] /\ Mappings(m, g) \in Nat /\ Mappings(n, g) \in Nat
    BY SoundIs, RefsFinite
  <2>6. PICK i \in Nat, x \in Nat, y \in Nat, z \in Nat :
            i = Is(f, g) /\ x = Mappings(m, g) /\ y = Mappings(n, g) /\ z = h[g]
    BY <2>4, <2>5
  <2>7. y + 0 = x + i
    BY <1>2, <2>2, <2>3, <2>6 DEF Balanced
  <2>8. x + (z + i) = y + z
    BY <2>7
  <2>. QED
    BY <1>2, <2>4, <2>5, <2>6, <2>8
<1>4. FreeFits(n, X) /\ Clean(n)
  BY <1>2, SoundIs DEF FreeFits, Clean
<1>6. EntriesFit(n)
  <2>1. SUFFICES ASSUME NEW bs \in Spaces, NEW b \in Pages PROVE PteFits(n, bs, b)
    BY DEF EntriesFit
  <2>2. n.pte = m.pte /\ n.pde = m.pde
    BY <1>2 DEF OnlySlot
  <2>4. PteFits(m, bs, b)
    BY SoundIs
  <2>. QED
    BY <1>2, <2>2, <2>4 DEF PteFits
<1>. QED
  BY <1>1, <1>2, <1>3, <1>4, <1>6 DEF Sound

-----------------------------------------------------------------------------
(* Page tables, MiRemovePage, MiInsertPage and system pages.                *)

\* A frame that stays in use keeps its contents; a page table stays.
SameData(m, n) ==
    \A f \in Frames : m.ref[f] > 0 /\ n.ref[f] > 0 => n.data[f] = m.data[f] /\ (f \in n.taint <=> f \in m.taint)
KeepsTables(m, n) == \A as \in Spaces, r \in Region : m.pde[as][r] # NoFrame => n.pde[as][r] = m.pde[as][r]
OthersSame(m, n, as, a) == \A bs \in Spaces, b \in Pages : bs # as \/ b # a => n.pte[bs][b] = m.pte[bs][b]
TablesSame(m, n, as, r) == \A bs \in Spaces, q \in Region : bs # as \/ q # r => n.pde[bs][q] = m.pde[bs][q]

\* A frame is not touched.
FrameSame(m, n, f) ==
    /\ n.ref[f] = m.ref[f] /\ n.data[f] = m.data[f] /\ (f \in n.taint <=> f \in m.taint)
    /\ (f \in n.free <=> f \in m.free)
FramesSame(m, n, f) == \A g \in Frames : g # f => FrameSame(m, n, g)

LEMMA OthersTrans ==
    ASSUME NEW m, NEW k, NEW n, NEW as, NEW a
    PROVE  /\ OthersSame(m, k, as, a) /\ OthersSame(k, n, as, a) => OthersSame(m, n, as, a)
           /\ OthersSame(m, k, as, a) /\ n.pte = k.pte => OthersSame(m, n, as, a)
           /\ k.pte = m.pte /\ OthersSame(k, n, as, a) => OthersSame(m, n, as, a)
           /\ n.pte = m.pte => OthersSame(m, n, as, a)
BY DEF OthersSame

LEMMA TablesTrans ==
    ASSUME NEW m, NEW k, NEW n, NEW as, NEW r
    PROVE  /\ TablesSame(m, k, as, r) /\ n.pde = k.pde => TablesSame(m, n, as, r)
           /\ KeepsTables(m, k) /\ n.pde = k.pde => KeepsTables(m, n)
           /\ KeepsTables(m, k) /\ KeepsTables(k, n) => KeepsTables(m, n)
           /\ n.pde = m.pde => TablesSame(m, n, as, r) /\ KeepsTables(m, n)
BY DEF TablesSame, KeepsTables

LEMMA DataAt ==
    ASSUME NEW m, NEW n, SameData(m, n), NEW f \in Frames, m.ref[f] > 0, n.ref[f] > 0
    PROVE  n.data[f] = m.data[f] /\ (f \in n.taint <=> f \in m.taint)
BY DEF SameData

LEMMA UnreferencedNotWritable ==
    ASSUME NEW m, NEW X, NEW h \in Extras, Sound(m, X, h), NEW f \in Frames, m.ref[f] = 0
    PROVE  NotWritable(m, f)
<1>1. SUFFICES ASSUME NEW as \in Spaces, NEW a \in UserPages PROVE m.pte[as][a].f # f
  BY DEF NotWritable
<1>2. a \in Pages
  BY PageRegions
<1>3. Unmapped(m, f)
  BY UnreferencedUnmapped
<1>. QED
  BY <1>2, <1>3 DEF Unmapped

\* A frame from the free list with its first reference.
FreshSet(m, n, f) ==
    /\ n \in Memory /\ SameTables(m, n) /\ n.data = m.data /\ n.taint = m.taint /\ n.dir = m.dir
    /\ f \in Frames /\ m.ref[f] = 0 /\ n.ref[f] = 1 /\ \A g \in Frames : g # f => n.ref[g] = m.ref[g]
    /\ n.free = m.free \ {f} /\ f \in m.free

LEMMA FreshSound ==
    ASSUME NEW m, NEW X, NEW h \in Extras, Sound(m, X, h), m.free # {}
    PROVE  /\ Sound(Counting(Allocated(m), NextFree(m)), X, Up(h, NextFree(m)))
           /\ FreshSet(m, Counting(Allocated(m), NextFree(m)), NextFree(m))
<1>0. m \in Memory
  BY SoundIs
<1>1. PICK f, n, k : f = NextFree(m) /\ n = Allocated(m) /\ k = Counting(n, f)
  OBVIOUS
<1>2. /\ f \in m.free /\ f \in Frames /\ n \in Memory /\ SameTables(m, n) /\ n.free = m.free \ {f} /\ n.ref = m.ref
      /\ n.data = m.data /\ n.taint = m.taint /\ n.dir = m.dir
  BY <1>0, <1>1, AllocatedIs
<1>3. PICK Y : Y = X \cup {f}
  OBVIOUS
<1>4. Sound(n, Y, h) /\ f \notin X /\ m.ref[f] = 0
  BY <1>1, <1>3, AllocatedSound
<1>5. n.ref[f] = 0 /\ f \notin n.free
  BY <1>2, <1>4
<1>6. NotWritable(n, f)
  BY <1>2, <1>4, <1>5, UnreferencedNotWritable
<1>7. Sound(k, Y \ {f}, Up(h, f))
  BY <1>1, <1>2, <1>4, <1>5, <1>6, CountingSound
<1>8. Y \ {f} = X
  BY <1>3, <1>4
<1>9. FreshSet(m, k, f)
  <2>1. /\ k \in Memory /\ SameTables(n, k) /\ k.ref[f] = n.ref[f] + 1
        /\ \A g \in Frames : g # f => k.ref[g] = n.ref[g]
        /\ k.free = n.free /\ k.data = n.data /\ k.taint = n.taint /\ k.dir = n.dir
    BY <1>1, <1>2, CountingIs
  <2>. QED
    BY <1>2, <1>4, <2>1 DEF FreshSet, SameTables
<1>. QED
  BY <1>1, <1>7, <1>8, <1>9

TableDone(m, n, as, r) ==
    /\ n.pte = m.pte /\ n.sys = m.sys /\ n.dir = m.dir /\ n.data = m.data /\ n.taint = m.taint
    /\ n.pde[as][r] # NoFrame /\ KeepsTables(m, n) /\ TablesSame(m, n, as, r)
    /\ \A f \in Frames : f \notin m.free => n.ref[f] = m.ref[f] /\ f \notin n.free
    /\ Free(n) = Free(m) - NeedsTable(m, as, r)

LEMMA TableSound ==
    ASSUME NEW m, NEW X, NEW h \in Extras, Sound(m, X, h), NEW as \in Spaces, NEW r \in Region,
           m.pde[as][r] # NoFrame \/ m.free # {}
    PROVE  Sound(WithTable(m, as, r), X, h) /\ TableDone(m, WithTable(m, as, r), as, r)
<1>0. m \in Memory
  BY SoundIs
<1>1. CASE m.pde[as][r] # NoFrame
  <2>1. WithTable(m, as, r) = m /\ NeedsTable(m, as, r) = 0
    BY <1>1 DEF WithTable, NeedsTable
  <2>2. Free(m) = Free(m) - NeedsTable(m, as, r)
    BY <1>0, <2>1, FreeCounts
  <2>3. KeepsTables(m, m)
    BY DEF KeepsTables
  <2>4. TableDone(m, m, as, r)
    BY <1>1, <2>2, <2>3, TablesTrans DEF TableDone
  <2>. QED
    BY <2>1, <2>4
<1>2. CASE m.pde[as][r] = NoFrame
  <2>0. m.free # {} /\ NeedsTable(m, as, r) = 1
    BY <1>2 DEF NeedsTable
  <2>1. PICK f, k, n : f = NextFree(m) /\ k = Counting(Allocated(m), f) /\ n = WithPde(k, as, r, f)
    OBVIOUS
  <2>2. Sound(k, X, Up(h, f)) /\ FreshSet(m, k, f)
    BY <2>0, <2>1, FreshSound
  <2>3. /\ k \in Memory /\ SameTables(m, k) /\ k.data = m.data /\ k.taint = m.taint /\ k.dir = m.dir
        /\ f \in Frames /\ m.ref[f] = 0 /\ k.ref[f] = 1 /\ \A g \in Frames : g # f => k.ref[g] = m.ref[g]
        /\ k.free = m.free \ {f} /\ f \in m.free
    BY <2>2 DEF FreshSet
  <2>4. k.pde[as][r] = NoFrame
    BY <1>2, <2>3 DEF SameTables
  <2>5. Sound(n, X, h)
    BY <2>1, <2>2, <2>3, <2>4, PutPdeSound
  <2>6. PdeSet(k, n, as, r, f)
    <3>1. f \in FrameOrNone
      BY <2>3 DEF FrameOrNone
    <3>. QED
      BY <2>1, <2>3, <3>1, WithPdeIs
  <2>7. /\ n.pde[as][r] = f /\ n.pte = k.pte /\ n.sys = k.sys
        /\ \A bs \in Spaces, q \in Region : bs # as \/ q # r => n.pde[bs][q] = k.pde[bs][q]
        /\ n.free = k.free /\ n.data = k.data /\ n.taint = k.taint /\ n.dir = k.dir /\ n.ref = k.ref
    BY <2>6 DEF PdeSet, OnlyPde, Rest
  <2>8. n = WithTable(m, as, r)
    BY <1>2, <2>1 DEF WithTable, WithPde, Counting
  <2>9. Free(n) = Free(m) - 1
    <3>1. n.free = Allocated(m).free
      BY <1>0, <2>0, <2>1, <2>3, <2>7, AllocatedIs
    <3>. QED
      BY <1>0, <2>0, <3>1, AllocatedCounts DEF Free
  <2>10. KeepsTables(m, n)
    <3>1. SUFFICES ASSUME NEW bs \in Spaces, NEW q \in Region, m.pde[bs][q] # NoFrame
                   PROVE  n.pde[bs][q] = m.pde[bs][q]
      BY DEF KeepsTables
    <3>2. bs # as \/ q # r
      BY <1>2, <3>1
    <3>3. k.pde = m.pde
      BY <2>3 DEF SameTables
    <3>. QED
      BY <2>7, <3>2, <3>3
  <2>11. f # NoFrame
    BY <2>3, Sizes
  <2>12. \A g \in Frames : g \notin m.free => n.ref[g] = m.ref[g] /\ g \notin n.free
    BY <2>3, <2>7
  <2>14. k.pte = m.pte /\ k.pde = m.pde /\ k.sys = m.sys
    BY <2>3 DEF SameTables
  <2>15. TablesSame(m, n, as, r)
    BY <2>7, <2>14 DEF TablesSame
  <2>13. TableDone(m, n, as, r)
    BY <2>0, <2>3, <2>7, <2>9, <2>10, <2>11, <2>12, <2>14, <2>15 DEF TableDone
  <2>. QED
    BY <2>5, <2>8, <2>13
<1>. QED
  BY <1>1, <1>2

RemoveDone(m, n, as, a) ==
    /\ n.pte[as][a] = NoPte /\ OthersSame(m, n, as, a) /\ n.pde = m.pde /\ n.sys = m.sys /\ n.dir = m.dir
    /\ SameData(m, n) /\ m.free \subseteq n.free
    /\ n.ref[m.pte[as][a].f] = m.ref[m.pte[as][a].f] - 1
    /\ FramesSame(m, n, m.pte[as][a].f)

LEMMA RemoveSound ==
    ASSUME NEW m, NEW X, NEW h \in Extras, Sound(m, X, h), NEW as \in Spaces, NEW a \in Pages,
           m.pte[as][a].f # NoFrame
    PROVE  Sound(MiRemovePage(m, as, a), X, h) /\ RemoveDone(m, MiRemovePage(m, as, a), as, a)
<1>0. m \in Memory
  BY SoundIs
<1>1. PICK f \in Frames : f = m.pte[as][a].f
  BY <1>0, EntryTypes
<1>2. PICK k, n : k = WithPte(m, as, a, NoPte) /\ n = MiDecReferencePFN(k, f)
  OBVIOUS
<1>3. Sound(k, X, Up(h, f))
  BY <1>1, <1>2, ClearedSound
<1>4. PteSet(m, k, as, a, NoPte)
  BY <1>0, <1>2, WithPteIs, NoPteIs
<1>5. /\ k \in Memory /\ k.pte[as][a] = NoPte /\ OthersSame(m, k, as, a) /\ k.pde = m.pde /\ k.sys = m.sys
      /\ k.free = m.free /\ k.data = m.data /\ k.taint = m.taint /\ k.dir = m.dir /\ k.ref = m.ref
  BY <1>4 DEF PteSet, OnlyPte, Rest, OthersSame
<1>6. NotWritable(k, f)
  <2>1. SUFFICES ASSUME NEW bs \in Spaces, NEW b \in UserPages, k.pte[bs][b].w, k.pte[bs][b].f = f PROVE FALSE
    BY DEF NotWritable
  <2>2. b \in Pages
    BY PageRegions
  <2>3. bs # as \/ b # a
    BY <1>5, <2>1, NoPteIs
  <2>4. m.pte[bs][b].w /\ m.pte[bs][b].f = f
    BY <1>5, <2>1, <2>2, <2>3 DEF OthersSame
  <2>5. PteFits(m, bs, b)
    BY <2>2, SoundIs
  <2>6. m.ref[m.pte[bs][b].f] = 1 /\ m.pte[bs][b].f # NoFrame
    BY <1>1, <2>4, <2>5 DEF PteFits
  <2>7. \A cs \in Spaces, c \in Pages : cs # bs \/ c # b => m.pte[cs][c].f # m.pte[bs][b].f
    BY <2>2, <2>6, AloneWithOne
  <2>. QED
    BY <1>1, <2>3, <2>4, <2>7
<1>7. k.ref[f] > 0 /\ Sound(n, X, h)
  BY <1>2, <1>3, <1>6, DecSound
<1>8. /\ n \in Memory /\ SameTables(k, n) /\ n.dir = k.dir /\ n.ref[f] = k.ref[f] - 1
      /\ \A g \in Frames : g # f => /\ n.ref[g] = k.ref[g] /\ n.data[g] = k.data[g]
                                    /\ (g \in n.taint <=> g \in k.taint) /\ (g \in n.free <=> g \in k.free)
      /\ k.ref[f] # 1 => n.data[f] = k.data[f] /\ (f \in n.taint <=> f \in k.taint)
  <2>1. DecDone(k, n, f)
    BY <1>2, <1>5, <1>7, DecIs
  <2>. QED
    BY <2>1 DEF DecDone
<1>9. n = MiRemovePage(m, as, a)
  BY <1>1, <1>2 DEF MiRemovePage, WithPte
<1>10. SameData(m, n)
  <2>1. SUFFICES ASSUME NEW g \in Frames, m.ref[g] > 0, n.ref[g] > 0
                 PROVE  n.data[g] = m.data[g] /\ (g \in n.taint <=> g \in m.taint)
    BY DEF SameData
  <2>2. CASE g = f
    <3>1. k.ref[f] # 1
      BY <1>8, <2>1, <2>2
    <3>. QED
      BY <1>5, <1>8, <2>2, <3>1
  <2>3. CASE g # f
    BY <1>5, <1>8, <2>3
  <2>. QED
    BY <2>2, <2>3
<1>11. m.free \subseteq n.free
  <2>1. f \notin m.free
    BY <1>5, <1>7, SoundIs
  <2>. QED
    BY <1>0, <1>5, <1>8, <2>1, MemoryTypes
<1>12. n.pte = k.pte /\ n.pde = k.pde /\ n.sys = k.sys
  BY <1>8 DEF SameTables
<1>14. FramesSame(m, n, f)
  BY <1>5, <1>8 DEF FramesSame, FrameSame
<1>15. OthersSame(m, n, as, a)
  BY <1>5, <1>12, OthersTrans
<1>13. RemoveDone(m, n, as, a)
  BY <1>1, <1>5, <1>8, <1>10, <1>11, <1>12, <1>14, <1>15 DEF RemoveDone
<1>. QED
  BY <1>7, <1>9, <1>13

NewPte(f) == [f |-> f, w |-> TRUE, cow |-> FALSE]

LEMMA NewPteIs ==
    ASSUME NEW f \in Frames
    PROVE  NewPte(f) \in Pte /\ NewPte(f).f = f /\ NewPte(f).w /\ ~NewPte(f).cow
BY DEF NewPte, Pte

InsertDone(m, n, as, a, f) ==
    /\ n.pte[as][a] = NewPte(f) /\ OthersSame(m, n, as, a)
    /\ n.pde[as][a[1]] # NoFrame /\ KeepsTables(m, n)
    /\ TablesSame(m, n, as, a[1])
    /\ n.sys = m.sys /\ n.dir = m.dir /\ SameData(m, n)
    /\ n.data[f] = m.data[f] /\ (f \in n.taint <=> f \in m.taint)
    /\ n.ref[f] = m.ref[f] + 1
    /\ m.pte[as][a].f = NoFrame => Free(n) = Free(m) - NeedsTable(m, as, a[1])

\* The entry is empty, with a table above it, and nothing else has changed.
Emptied(m, k, as, a, f) ==
    /\ k \in Memory /\ k.pte[as][a] = NoPte /\ OthersSame(m, k, as, a)
    /\ k.pde[as][a[1]] # NoFrame /\ KeepsTables(m, k)
    /\ TablesSame(m, k, as, a[1])
    /\ k.sys = m.sys /\ k.dir = m.dir /\ SameData(m, k)
    /\ k.data[f] = m.data[f] /\ (f \in k.taint <=> f \in m.taint)
    /\ k.ref[f] = m.ref[f] /\ f \notin k.free
    /\ m.pte[as][a].f = NoFrame => Free(k) = Free(m) - NeedsTable(m, as, a[1])

LEMMA EmptiedSound ==
    ASSUME NEW m, NEW X, NEW h \in Extras, Sound(m, X, h), NEW as \in Spaces, NEW a \in Pages, NEW f \in Frames,
           f \notin m.free, m.pte[as][a].f # f, m.pde[as][a[1]] # NoFrame \/ m.free # {},
           NEW k, NEW t, t = WithTable(m, as, a[1]), k = IF Valid(t, as, a) THEN MiRemovePage(t, as, a) ELSE t
    PROVE  Sound(k, X, h) /\ Emptied(m, k, as, a, f)
<1>0. m \in Memory /\ a[1] \in Region
  BY SoundIs, PageRegions
<1>1. Sound(t, X, h) /\ TableDone(m, t, as, a[1])
  BY <1>0, TableSound
<1>2. /\ t.pte = m.pte /\ t.sys = m.sys /\ t.dir = m.dir /\ t.data = m.data /\ t.taint = m.taint
      /\ t.pde[as][a[1]] # NoFrame /\ KeepsTables(m, t)
      /\ TablesSame(m, t, as, a[1])
      /\ \A g \in Frames : g \notin m.free => t.ref[g] = m.ref[g] /\ g \notin t.free
      /\ Free(t) = Free(m) - NeedsTable(m, as, a[1])
  BY <1>1 DEF TableDone
<1>3. t \in Memory
  BY <1>1, SoundIs
<1>4. CASE Valid(t, as, a)
  <2>1. k = MiRemovePage(t, as, a) /\ t.pte[as][a].f # NoFrame
    BY <1>4 DEF Valid
  <2>2. Sound(k, X, h) /\ RemoveDone(t, k, as, a)
    BY <1>1, <2>1, RemoveSound
  <2>3. /\ k.pte[as][a] = NoPte /\ OthersSame(t, k, as, a) /\ k.pde = t.pde /\ k.sys = t.sys /\ k.dir = t.dir
        /\ SameData(t, k) /\ FramesSame(t, k, t.pte[as][a].f)
    BY <2>2 DEF RemoveDone
  <2>4. KeepsTables(m, k) /\ OthersSame(m, k, as, a) /\ TablesSame(m, k, as, a[1])
    BY <1>2, <2>3, TablesTrans, OthersTrans
  <2>5. SameData(m, k)
    <3>1. SUFFICES ASSUME NEW g \in Frames, m.ref[g] > 0, k.ref[g] > 0
                   PROVE  k.data[g] = m.data[g] /\ (g \in k.taint <=> g \in m.taint)
      BY DEF SameData
    <3>2. g \notin m.free
      BY <3>1, SoundIs
    <3>3. t.ref[g] > 0
      BY <1>2, <3>1, <3>2
    <3>4. k.data[g] = t.data[g] /\ (g \in k.taint <=> g \in t.taint)
      <4>1. SameData(t, k)
        BY <2>3
      <4>. QED
        BY <3>1, <3>3, <4>1 DEF SameData
    <3>. QED
      BY <1>2, <3>4
  <2>6. FrameSame(t, k, f) /\ t.ref[f] = m.ref[f] /\ f \notin t.free
    BY <1>2, <2>3 DEF FramesSame
  <2>9. /\ k.data[f] = m.data[f] /\ (f \in k.taint <=> f \in m.taint)
        /\ k.ref[f] = m.ref[f] /\ f \notin k.free
    BY <1>2, <2>6 DEF FrameSame
  <2>10. k.pde[as][a[1]] # NoFrame /\ k.sys = m.sys /\ k.dir = m.dir
    BY <1>2, <2>3
  <2>7. k \in Memory
    BY <2>2, SoundIs
  <2>8. m.pte[as][a].f # NoFrame
    BY <1>2, <2>1
  <2>. QED
    BY <2>2, <2>3, <2>4, <2>5, <2>7, <2>8, <2>9, <2>10 DEF Emptied
<1>5. CASE ~Valid(t, as, a)
  <2>1. k = t /\ t.pte[as][a].f = NoFrame
    BY <1>5 DEF Valid
  <2>2. t.pte[as][a] = NoPte
    <3>1. PteFits(t, as, a)
      BY <1>1, SoundIs
    <3>. QED
      BY <2>1, <3>1 DEF PteFits
  <2>3. OthersSame(m, k, as, a)
    BY <1>2, <2>1, OthersTrans
  <2>4. SameData(m, k)
    BY <1>2, <2>1 DEF SameData
  <2>5. t.ref[f] = m.ref[f] /\ f \notin t.free
    BY <1>2
  <2>. QED
    BY <1>1, <1>2, <1>3, <2>1, <2>2, <2>3, <2>4, <2>5 DEF Emptied
<1>. QED
  BY <1>4, <1>5

LEMMA InsertSound ==
    ASSUME NEW m, NEW X, NEW h \in Extras, Sound(m, X, h), NEW as \in Spaces, NEW a \in Pages, NEW f \in Frames,
           f \notin m.free, m.pte[as][a].f # f, m.pde[as][a[1]] # NoFrame \/ m.free # {},
           NotWritable(m, f), a \in UserPages => m.ref[f] = 0
    PROVE  Sound(MiInsertPage(m, as, a, f), X \ {f}, h) /\ InsertDone(m, MiInsertPage(m, as, a, f), as, a, f)
<1>1. PICK t : t = WithTable(m, as, a[1])
  OBVIOUS
<1>2. PICK k : k = IF Valid(t, as, a) THEN MiRemovePage(t, as, a) ELSE t
  OBVIOUS
<1>3. Sound(k, X, h) /\ Emptied(m, k, as, a, f)
  BY <1>1, <1>2, EmptiedSound
<1>4. /\ k \in Memory /\ k.pte[as][a] = NoPte /\ OthersSame(m, k, as, a)
      /\ k.pde[as][a[1]] # NoFrame /\ KeepsTables(m, k)
      /\ TablesSame(m, k, as, a[1])
      /\ k.sys = m.sys /\ k.dir = m.dir /\ SameData(m, k)
      /\ k.data[f] = m.data[f] /\ (f \in k.taint <=> f \in m.taint)
      /\ k.ref[f] = m.ref[f] /\ f \notin k.free
      /\ m.pte[as][a].f = NoFrame => Free(k) = Free(m) - NeedsTable(m, as, a[1])
  BY <1>3 DEF Emptied
<1>5. NotWritable(k, f)
  <2>1. SUFFICES ASSUME NEW bs \in Spaces, NEW b \in UserPages, k.pte[bs][b].w PROVE k.pte[bs][b].f # f
    BY DEF NotWritable
  <2>2. b \in Pages
    BY PageRegions
  <2>3. CASE bs = as /\ b = a
    BY <1>4, <2>1, <2>3, NoPteIs
  <2>4. CASE ~(bs = as /\ b = a)
    <3>1. k.pte[bs][b] = m.pte[bs][b]
      BY <1>4, <2>2, <2>4 DEF OthersSame
    <3>. QED
      BY <2>1, <3>1 DEF NotWritable
  <2>. QED
    BY <2>3, <2>4
<1>6. PICK u, Y : u = Counting(k, f) /\ Y = X \ {f}
  OBVIOUS
<1>7. Sound(u, Y, Up(h, f))
  BY <1>3, <1>4, <1>5, <1>6, CountingSound
<1>8. /\ u \in Memory /\ SameTables(k, u) /\ u.ref[f] = k.ref[f] + 1
      /\ \A g \in Frames : g # f => u.ref[g] = k.ref[g]
      /\ u.free = k.free /\ u.data = k.data /\ u.taint = k.taint /\ u.dir = k.dir
  BY <1>4, <1>6, CountingIs
<1>9. u.pte = k.pte /\ u.pde = k.pde /\ u.sys = k.sys
  BY <1>8 DEF SameTables
<1>10. PICK e, n : e = NewPte(f) /\ n = WithPte(u, as, a, e)
  OBVIOUS
<1>11. e \in Pte /\ e.f = f /\ e.w /\ ~e.cow
  BY <1>10, NewPteIs
<1>12. u.pte[as][a].f = NoFrame /\ u.pde[as][a[1]] # NoFrame /\ (a \in UserPages => u.ref[f] = 1)
  <2>1. u.pte[as][a] = NoPte /\ u.pde[as][a[1]] # NoFrame
    BY <1>4, <1>9
  <2>2. a \in UserPages => u.ref[f] = 1
    BY <1>4, <1>8
  <2>. QED
    BY <2>1, <2>2, NoPteIs
<1>13. Sound(n, Y, h)
  BY <1>7, <1>10, <1>11, <1>12, PutPteSound
<1>14. PteSet(u, n, as, a, e)
  BY <1>8, <1>10, <1>11, WithPteIs
<1>15. /\ n.pte[as][a] = e /\ OthersSame(u, n, as, a) /\ n.pde = u.pde /\ n.sys = u.sys
       /\ n.free = u.free /\ n.data = u.data /\ n.taint = u.taint /\ n.dir = u.dir /\ n.ref = u.ref
  BY <1>14 DEF PteSet, OnlyPte, OthersSame, Rest
<1>16. OthersSame(m, n, as, a) /\ KeepsTables(m, n) /\ TablesSame(m, n, as, a[1])
  <2>1. OthersSame(m, u, as, a) /\ KeepsTables(m, u) /\ TablesSame(m, u, as, a[1])
    BY <1>4, <1>9, OthersTrans, TablesTrans
  <2>. QED
    BY <1>15, <2>1, OthersTrans, TablesTrans
<1>17. SameData(m, n)
  <2>1. SUFFICES ASSUME NEW g \in Frames, m.ref[g] > 0, n.ref[g] > 0
                 PROVE  n.data[g] = m.data[g] /\ (g \in n.taint <=> g \in m.taint)
    BY DEF SameData
  <2>2. CASE g = f
    BY <1>4, <1>8, <1>15, <2>2
  <2>3. CASE g # f
    BY <1>4, <1>8, <1>15, <2>1, <2>3 DEF SameData
  <2>. QED
    BY <2>2, <2>3
<1>18. Free(n) = Free(k)
  BY <1>8, <1>15 DEF Free
<1>19. InsertDone(m, n, as, a, f)
  <2>1. n.ref[f] = m.ref[f] + 1
    BY <1>4, <1>8, <1>15
  <2>2. n.pte[as][a] = NewPte(f) /\ n.pde[as][a[1]] # NoFrame /\ n.sys = m.sys /\ n.dir = m.dir
    BY <1>4, <1>8, <1>9, <1>10, <1>15
  <2>3. n.data[f] = m.data[f] /\ (f \in n.taint <=> f \in m.taint)
    BY <1>4, <1>8, <1>15
  <2>4. m.pte[as][a].f = NoFrame => Free(n) = Free(m) - NeedsTable(m, as, a[1])
    BY <1>4, <1>18
  <2>. QED
    BY <1>16, <1>17, <2>1, <2>2, <2>3, <2>4 DEF InsertDone
<1>20. n = MiInsertPage(m, as, a, f)
  <2>1. n = [k EXCEPT !.pte[as][a] = NewPte(f), !.ref[f] = @ + 1]
    BY <1>6, <1>10 DEF WithPte, Counting
  <2>. QED
    BY <1>1, <1>2, <2>1 DEF MiInsertPage, NewPte
<1>. QED
  BY <1>6, <1>13, <1>19, <1>20

\* A fresh frame at a page.
NewDone(m, n, as, a, f) ==
    /\ f \in Frames /\ m.ref[f] = 0 /\ n.ref[f] = 1 /\ n.data[f] = Unset /\ f \notin n.taint
    /\ n.pte[as][a] = NewPte(f) /\ OthersSame(m, n, as, a)
    /\ KeepsTables(m, n) /\ TablesSame(m, n, as, a[1])
    /\ n.sys = m.sys /\ n.dir = m.dir /\ SameData(m, n)

LEMMA MapNewSound ==
    ASSUME NEW m, NEW h \in Extras, Sound(m, {}, h), NEW as \in Spaces, NEW a \in Pages,
           Free(m) >= FramesFor(m, as, a[1], 1)
    PROVE  /\ Sound(MapNew(m, as, a), {}, h) /\ NewDone(m, MapNew(m, as, a), as, a, NextFree(m))
<1>0. m \in Memory /\ Free(m) \in Nat /\ NeedsTable(m, as, a[1]) \in {0, 1}
  BY SoundIs, FreeCounts DEF NeedsTable
<1>1. Free(m) >= 1 + NeedsTable(m, as, a[1])
  BY DEF FramesFor
<1>2. m.free # {}
  <2>0. NeedsTable(m, as, a[1]) \in Nat
    BY DEF NeedsTable
  <2>1. PICK x \in Nat, y \in Nat : x = Free(m) /\ y = NeedsTable(m, as, a[1])
    BY <1>0, <2>0
  <2>2. x >= 1 + y
    BY <1>1, <2>1
  <2>3. x # 0
    BY <2>2
  <2>. QED
    BY <1>0, <2>1, <2>3, FreeCounts
<1>3. PICK f, k, X : f = NextFree(m) /\ k = Allocated(m) /\ X = {} \cup {f}
  OBVIOUS
<1>4. Sound(k, X, h) /\ f \in Frames /\ m.ref[f] = 0
  BY <1>2, <1>3, AllocatedSound
<1>5. /\ k \in Memory /\ SameTables(m, k) /\ k.free = m.free \ {f} /\ k.ref = m.ref
      /\ k.data = m.data /\ k.taint = m.taint /\ k.dir = m.dir
  BY <1>0, <1>2, <1>3, AllocatedIs
<1>6. k.pte = m.pte /\ k.pde = m.pde /\ k.sys = m.sys
  BY <1>5 DEF SameTables
<1>7. f \notin k.free /\ k.ref[f] = 0
  BY <1>4, <1>5
<1>8. NotWritable(k, f) /\ k.pte[as][a].f # f
  <2>1. Unmapped(k, f)
    BY <1>4, <1>7, UnreferencedUnmapped
  <2>. QED
    BY <1>4, <1>7, <2>1, UnreferencedNotWritable DEF Unmapped
<1>9. k.pde[as][a[1]] # NoFrame \/ k.free # {}
  <2>1. SUFFICES ASSUME k.pde[as][a[1]] = NoFrame PROVE k.free # {}
    OBVIOUS
  <2>2. NeedsTable(m, as, a[1]) = 1
    BY <1>6, <2>1 DEF NeedsTable
  <2>3. Free(k) = Free(m) - 1
    BY <1>0, <1>2, <1>3, AllocatedCounts
  <2>4. Free(k) # 0
    BY <1>0, <1>1, <2>2, <2>3
  <2>. QED
    BY <1>5, <2>4, FreeCounts
<1>10. PICK n, Y : n = MiInsertPage(k, as, a, f) /\ Y = X \ {f}
  OBVIOUS
<1>11. Sound(n, Y, h) /\ InsertDone(k, n, as, a, f)
  BY <1>4, <1>7, <1>8, <1>9, <1>10, InsertSound
<1>12. Y = {}
  BY <1>3, <1>10
<1>13. n = MapNew(m, as, a)
  BY <1>3, <1>10 DEF MapNew
<1>14. /\ n.pte[as][a] = NewPte(f) /\ OthersSame(k, n, as, a) /\ KeepsTables(k, n) /\ TablesSame(k, n, as, a[1])
       /\ n.sys = k.sys /\ n.dir = k.dir /\ SameData(k, n)
       /\ n.data[f] = k.data[f] /\ (f \in n.taint <=> f \in k.taint) /\ n.ref[f] = k.ref[f] + 1
  BY <1>11 DEF InsertDone
<1>15. OthersSame(m, n, as, a) /\ KeepsTables(m, n) /\ TablesSame(m, n, as, a[1]) /\ SameData(m, n)
  <2>1. OthersSame(m, n, as, a)
    BY <1>6, <1>14 DEF OthersSame
  <2>2. KeepsTables(m, n)
    BY <1>6, <1>14 DEF KeepsTables
  <2>3. TablesSame(m, n, as, a[1])
    BY <1>6, <1>14 DEF TablesSame
  <2>4. SameData(m, n)
    BY <1>5, <1>14 DEF SameData
  <2>. QED
    BY <2>1, <2>2, <2>3, <2>4
<1>16. n.data[f] = Unset /\ f \notin n.taint /\ n.ref[f] = 1
  <2>1. m.data[f] = Unset /\ f \notin m.taint
    BY <1>4, SoundIs
  <2>. QED
    BY <1>5, <1>7, <1>14, <2>1
<1>17. NewDone(m, n, as, a, f)
  BY <1>4, <1>5, <1>6, <1>14, <1>15, <1>16 DEF NewDone
<1>. QED
  BY <1>3, <1>11, <1>12, <1>13, <1>17

SysDone(m, n, s) ==
    /\ n.pte = m.pte /\ n.pde = m.pde /\ n.data = m.data /\ n.taint = m.taint /\ n.dir = m.dir
    /\ n.sys[s] # NoFrame /\ SlotsAgreeBut(m, n, s)

LEMMA SysSound ==
    ASSUME NEW m, NEW h \in Extras, Sound(m, {}, h), NEW s \in Slots, m.free # {}, m.sys[s] = NoFrame
    PROVE  Sound(WithSys(m, s), {}, h) /\ SysDone(m, WithSys(m, s), s)
<1>1. PICK f, k, n : f = NextFree(m) /\ k = Counting(Allocated(m), f) /\ n = WithSlot(k, s, f)
  OBVIOUS
<1>2. Sound(k, {}, Up(h, f)) /\ FreshSet(m, k, f)
  BY <1>1, FreshSound
<1>3. /\ k \in Memory /\ SameTables(m, k) /\ k.data = m.data /\ k.taint = m.taint /\ k.dir = m.dir /\ f \in Frames
  BY <1>2 DEF FreshSet
<1>4. k.pte = m.pte /\ k.pde = m.pde /\ k.sys = m.sys
  BY <1>3 DEF SameTables
<1>5. Sound(n, {}, h)
  BY <1>1, <1>2, <1>3, <1>4, PutSlotSound
<1>6. SlotSet(k, n, s, f)
  <2>1. f \in FrameOrNone
    BY <1>3 DEF FrameOrNone
  <2>. QED
    BY <1>1, <1>3, <2>1, WithSlotIs
<1>7. /\ n.sys[s] = f /\ OnlySlot(k, n, s) /\ n.data = k.data /\ n.taint = k.taint /\ n.dir = k.dir
  BY <1>6 DEF SlotSet, Rest
<1>8. f # NoFrame
  BY <1>3, Sizes
<1>9. SysDone(m, n, s)
  BY <1>3, <1>4, <1>7, <1>8 DEF SysDone, OnlySlot, SlotsAgreeBut
<1>10. n = WithSys(m, s)
  BY <1>1 DEF WithSys, WithSlot, Counting
<1>. QED
  BY <1>5, <1>9, <1>10

\* The directory of a process is noted.
DirDone(m, n, as, s) ==
    /\ n \in Memory /\ SameTables(m, n) /\ n.data = m.data /\ n.taint = m.taint /\ n.ref = m.ref /\ n.free = m.free
    /\ n.dir[as] = s /\ \A bs \in Spaces : bs # as => n.dir[bs] = m.dir[bs]

LEMMA DirSound ==
    ASSUME NEW m, NEW X, NEW h \in Extras, Sound(m, X, h), NEW as \in Spaces, NEW s \in Slots,
           NEW n, n = [m EXCEPT !.dir[as] = s]
    PROVE  Sound(n, X, h) /\ DirDone(m, n, as, s)
<1>0. m \in Memory
  BY SoundIs
<1>1. PICK D : D = [m.dir EXCEPT ![as] = s]
  OBVIOUS
<1>2. /\ D \in [Spaces -> Slots \cup {NoSlot}] /\ D[as] = s /\ \A bs \in Spaces : bs # as => D[bs] = m.dir[bs]
  BY <1>0, <1>1, MemoryTypes
<1>3. n = [m EXCEPT !.dir = D]
  BY <1>1
<1>4. n \in Memory
  BY <1>0, <1>2, <1>3 DEF Memory
<1>5. /\ n.dir = D /\ SameTables(m, n) /\ n.data = m.data /\ n.taint = m.taint /\ n.ref = m.ref /\ n.free = m.free
  BY <1>0, <1>3 DEF Memory, SameTables
<1>6. DirDone(m, n, as, s)
  BY <1>2, <1>4, <1>5 DEF DirDone
<1>7. Counted(n, h)
  BY <1>5, SoundIs, SameMappings DEF Counted
<1>8. FreeFits(n, X) /\ Clean(n)
  BY <1>5, SoundIs DEF FreeFits, Clean
<1>9. EntriesFit(n)
  <2>1. SUFFICES ASSUME NEW bs \in Spaces, NEW b \in Pages PROVE PteFits(n, bs, b)
    BY DEF EntriesFit
  <2>2. PteFits(m, bs, b)
    BY SoundIs
  <2>. QED
    BY <1>5, <2>2 DEF PteFits, SameTables
<1>. QED
  BY <1>4, <1>6, <1>7, <1>8, <1>9 DEF Sound

\* Contents change, of frames in use only.
DataDone(m, n) ==
    /\ n \in Memory /\ SameTables(m, n) /\ n.ref = m.ref /\ n.free = m.free /\ n.dir = m.dir
    /\ \A f \in Frames : m.ref[f] = 0 => n.data[f] = m.data[f] /\ (f \in n.taint <=> f \in m.taint)

LEMMA DataSound ==
    ASSUME NEW m, NEW X, NEW h \in Extras, Sound(m, X, h), NEW n, DataDone(m, n)
    PROVE  Sound(n, X, h)
<1>1. /\ n \in Memory /\ SameTables(m, n) /\ n.ref = m.ref /\ n.free = m.free
      /\ \A f \in Frames : m.ref[f] = 0 => n.data[f] = m.data[f] /\ (f \in n.taint <=> f \in m.taint)
  BY DEF DataDone
<1>2. Counted(n, h)
  BY <1>1, SoundIs, SameMappings DEF Counted
<1>3. FreeFits(n, X) /\ Clean(n)
  BY <1>1, SoundIs DEF FreeFits, Clean
<1>4. EntriesFit(n)
  <2>1. SUFFICES ASSUME NEW bs \in Spaces, NEW b \in Pages PROVE PteFits(n, bs, b)
    BY DEF EntriesFit
  <2>2. PteFits(m, bs, b)
    BY SoundIs
  <2>. QED
    BY <1>1, <2>2 DEF PteFits, SameTables
<1>. QED
  BY <1>1, <1>2, <1>3, <1>4 DEF Sound

\* A page with the only reference to its frame becomes writable.
LEMMA WritableSound ==
    ASSUME NEW m, NEW X, NEW h \in Extras, Sound(m, X, h), NEW as \in Spaces, NEW a \in UserPages,
           NEW f \in Frames, m.pte[as][a].f = f, m.ref[f] = 1
    PROVE  Sound(WithPte(m, as, a, NewPte(f)), X, h) /\ PteSet(m, WithPte(m, as, a, NewPte(f)), as, a, NewPte(f))
<1>0. m \in Memory /\ a \in Pages
  BY SoundIs, PageRegions
<1>1. PICK e, n : e = NewPte(f) /\ n = WithPte(m, as, a, e)
  OBVIOUS
<1>2. e \in Pte /\ e.f = f /\ e.w /\ ~e.cow /\ f # NoFrame
  BY <1>1, NewPteIs, Sizes
<1>3. PteSet(m, n, as, a, e)
  BY <1>0, <1>1, <1>2, WithPteIs
<1>4. /\ n \in Memory /\ n.pte[as][a] = e /\ OnlyPte(m, n, as, a)
      /\ n.free = m.free /\ n.data = m.data /\ n.taint = m.taint /\ n.ref = m.ref
  BY <1>3 DEF PteSet, Rest
<1>5. Counted(n, h)
  <2>1. SUFFICES ASSUME NEW g \in Frames PROVE n.ref[g] = Mappings(n, g) + h[g]
    BY DEF Counted
  <2>2. Balanced(Mappings(n, g), Is(m.pte[as][a].f, g), Mappings(m, g), Is(n.pte[as][a].f, g))
    BY <1>0, <1>4, PteStep
  <2>3. m.pte[as][a].f = f /\ n.pte[as][a].f = f
    BY <1>2, <1>4
  <2>4. PICK i \in Nat, x \in Nat, y \in Nat : i = Is(f, g) /\ x = Mappings(m, g) /\ y = Mappings(n, g)
    BY IsNumber, RefsFinite
  <2>5. y + i = x + i
    BY <2>2, <2>3, <2>4 DEF Balanced
  <2>6. y = x
    BY <2>5
  <2>. QED
    BY <1>4, <2>4, <2>6, SoundIs
<1>6. FreeFits(n, X) /\ Clean(n)
  BY <1>4, SoundIs DEF FreeFits, Clean
<1>7. EntriesFit(n)
  <2>1. SUFFICES ASSUME NEW bs \in Spaces, NEW b \in Pages PROVE PteFits(n, bs, b)
    BY DEF EntriesFit
  <2>4. n.pde = m.pde
    BY <1>4 DEF OnlyPte
  <2>2. CASE bs = as /\ b = a
    <3>1. PteFits(m, as, a)
      BY <1>0, SoundIs
    <3>. QED
      BY <1>2, <1>4, <2>2, <2>4, <3>1 DEF PteFits
  <2>3. CASE ~(bs = as /\ b = a)
    <3>1. n.pte[bs][b] = m.pte[bs][b]
      BY <1>4, <2>3 DEF OnlyPte
    <3>2. PteFits(m, bs, b)
      BY SoundIs
    <3>. QED
      BY <1>4, <2>4, <3>1, <3>2 DEF PteFits
  <2>. QED
    BY <2>2, <2>3
<1>. QED
  BY <1>1, <1>3, <1>4, <1>5, <1>6, <1>7 DEF Sound

-----------------------------------------------------------------------------
(* Deleting an address space.                                               *)

RemoveAllDone(m, n, as) ==
    /\ \A bs \in Spaces, a \in Pages : n.pte[bs][a] = IF bs = as THEN NoPte ELSE m.pte[bs][a]
    /\ \A bs \in Spaces, r \in Region : n.pde[bs][r] = IF bs = as THEN NoFrame ELSE m.pde[bs][r]
    /\ n.sys[m.dir[as]] = NoFrame /\ SlotsAgreeBut(m, n, m.dir[as])
    /\ \A bs \in Spaces : bs # as => n.dir[bs] = m.dir[bs]
    /\ SameData(m, n)

LEMMA DroppedIs ==
    ASSUME NEW m, NEW as \in Spaces, NEW f
    PROVE  /\ Dropped(m, as, f) = Cardinality(PteRow(m, as, f)) + Cardinality(PdeRow(m, as, f)) + Is(m.sys[m.dir[as]], f)
           /\ IsFiniteSet(PteRow(m, as, f)) /\ IsFiniteSet(PdeRow(m, as, f))
           /\ Cardinality(PteRow(m, as, f)) \in Nat /\ Cardinality(PdeRow(m, as, f)) \in Nat
           /\ Dropped(m, as, f) \in Nat
<1>1. Dropped(m, as, f) = Cardinality(PteRow(m, as, f)) + Cardinality(PdeRow(m, as, f)) + Is(m.sys[m.dir[as]], f)
  BY DEF Dropped, PteRow, PdeRow, Is
<1>2. PteRow(m, as, f) \subseteq Pages /\ PdeRow(m, as, f) \subseteq Region
  BY DEF PteRow, PdeRow
<1>3. IsFiniteSet(PteRow(m, as, f)) /\ IsFiniteSet(PdeRow(m, as, f))
  BY <1>2, FiniteSizes, FS_Subset
<1>4. Cardinality(PteRow(m, as, f)) \in Nat /\ Cardinality(PdeRow(m, as, f)) \in Nat
  BY <1>3, FS_CardinalityType
<1>5. Is(m.sys[m.dir[as]], f) \in Nat
  BY DEF Is
<1>6. PICK x \in Nat, y \in Nat, z \in Nat :
          x = Cardinality(PteRow(m, as, f)) /\ y = Cardinality(PdeRow(m, as, f)) /\ z = Is(m.sys[m.dir[as]], f)
  BY <1>4, <1>5
<1>7. Dropped(m, as, f) = x + y + z
  BY <1>1, <1>6
<1>8. Dropped(m, as, f) \in Nat
  BY <1>7
<1>. QED
  BY <1>1, <1>3, <1>4, <1>8

\* The mappings that remain are those that are not dropped.
RemoveTables(m, n, as) ==
    /\ \A bs \in Spaces, a \in Pages : n.pte[bs][a] = IF bs = as THEN NoPte ELSE m.pte[bs][a]
    /\ \A bs \in Spaces, r \in Region : n.pde[bs][r] = IF bs = as THEN NoFrame ELSE m.pde[bs][r]
    /\ n.sys[m.dir[as]] = NoFrame /\ SlotsAgreeBut(m, n, m.dir[as])

LEMMA RemoveCounts ==
    ASSUME NEW m, NEW n, NEW as \in Spaces, m.dir[as] \in Slots, RemoveTables(m, n, as), NEW f \in Frames
    PROVE  Mappings(m, f) = Mappings(n, f) + Dropped(m, as, f)
<1>1. PteRowOnly(m, n, as) /\ PdeRowOnly(m, n, as)
  BY DEF PteRowOnly, PdeRowOnly, RemoveTables
<1>2. PteRowBalanced(m, n, as, f) /\ PdeRowBalanced(m, n, as, f)
  BY <1>1, PteRowChange, PdeRowChange
<1>3. SlotBalanced(m, n, m.dir[as], f)
  <2>1. PICK s \in Slots : s = m.dir[as]
    OBVIOUS
  <2>2. SlotsAgreeBut(m, n, s)
    BY <2>1 DEF RemoveTables
  <2>3. SlotBalanced(m, n, s, f)
    BY <2>2, SysStep
  <2>. QED
    BY <2>1, <2>3
<1>4. PteRow(n, as, f) = {} /\ PdeRow(n, as, f) = {} /\ Is(n.sys[m.dir[as]], f) = 0
  <2>1. f # NoFrame
    BY Sizes
  <2>2. PteRow(n, as, f) = {}
    BY <2>1, NoPteIs DEF PteRow, RemoveTables
  <2>3. PdeRow(n, as, f) = {}
    BY <2>1 DEF PdeRow, RemoveTables
  <2>. QED
    BY <2>1, <2>2, <2>3 DEF Is, RemoveTables
<1>5. Cardinality(PteRow(n, as, f)) = 0 /\ Cardinality(PdeRow(n, as, f)) = 0
  BY <1>4, FS_EmptySet
<1>6. PICK u \in Nat, v \in Nat, w \in Nat : u = Cardinality(PteRow(m, as, f)) /\ v = Cardinality(PdeRow(m, as, f))
                                                /\ w = Is(m.sys[m.dir[as]], f)
  <2>1. Cardinality(PteRow(m, as, f)) \in Nat /\ Cardinality(PdeRow(m, as, f)) \in Nat
    BY DroppedIs
  <2>2. Is(m.sys[m.dir[as]], f) \in Nat
    BY DEF Is
  <2>. QED
    BY <2>1, <2>2
<1>7. PICK p \in Nat, q \in Nat, r \in Nat, x \in Nat, y \in Nat, z \in Nat :
          /\ p = Cardinality(PteRefs(m, f)) /\ q = Cardinality(PdeRefs(m, f)) /\ r = Cardinality(SysRefs(m, f))
          /\ x = Cardinality(PteRefs(n, f)) /\ y = Cardinality(PdeRefs(n, f)) /\ z = Cardinality(SysRefs(n, f))
  BY RefsFinite
<1>8. x + u = p
  <2>1. x + u = p + 0
    BY <1>2, <1>5, <1>6, <1>7 DEF PteRowBalanced
  <2>. QED
    BY <2>1
<1>9. y + v = q
  <2>1. y + v = q + 0
    BY <1>2, <1>5, <1>6, <1>7 DEF PdeRowBalanced
  <2>. QED
    BY <2>1
<1>10. z + w = r
  <2>1. z + w = r + 0
    BY <1>3, <1>4, <1>6, <1>7 DEF SlotBalanced
  <2>. QED
    BY <2>1
<1>11. Mappings(m, f) = p + q + r /\ Mappings(n, f) = x + y + z
  BY <1>7, RefsFinite
<1>12. Dropped(m, as, f) = u + v + w
  BY <1>6, DroppedIs
<1>13. p + q + r = (x + y + z) + (u + v + w)
  BY <1>8, <1>9, <1>10
<1>. QED
  BY <1>11, <1>12, <1>13

\* A process that has a frame to itself loses no reference when another is deleted.
LEMMA NotDropped ==
    ASSUME NEW m, NEW as \in Spaces, NEW f \in Frames, m.dir[as] \in Slots,
           \A a \in Pages : m.pte[as][a].f # f, \A r \in Region : m.pde[as][r] # f, \A s \in Slots : m.sys[s] # f
    PROVE  Dropped(m, as, f) = 0
<1>1. PteRow(m, as, f) = {} /\ PdeRow(m, as, f) = {} /\ Is(m.sys[m.dir[as]], f) = 0
  BY DEF PteRow, PdeRow, Is
<1>2. Cardinality(PteRow(m, as, f)) = 0 /\ Cardinality(PdeRow(m, as, f)) = 0
  BY <1>1, FS_EmptySet
<1>3. Dropped(m, as, f) = 0 + 0 + 0
  BY <1>1, <1>2, DroppedIs
<1>. QED
  BY <1>3

Gone(m, R) == {f \in Frames : R[f] = 0 /\ m.ref[f] > 0}

RemovedAll(m, n, as, R, G) ==
    /\ n.ref = R /\ n.free = m.free \cup G /\ n.taint = m.taint \ G
    /\ \A f \in Frames : n.data[f] = IF f \in G THEN Unset ELSE m.data[f]
    /\ RemoveTables(m, n, as) /\ \A bs \in Spaces : bs # as => n.dir[bs] = m.dir[bs]

LEMMA RemoveAllIs ==
    ASSUME NEW m \in Memory, NEW as \in Spaces, m.dir[as] \in Slots, NEW R, NEW G, NEW n,
           R = [f \in Frames |-> m.ref[f] - Dropped(m, as, f)], G = Gone(m, R), n = RemoveAll(m, as)
    PROVE  RemovedAll(m, n, as, R, G) /\ ((\A f \in Frames : R[f] \in Nat) => n \in Memory)
<1>0. /\ m.free \in SUBSET Frames /\ m.ref \in [Frames -> Nat] /\ m.data \in [Frames -> Values]
      /\ m.taint \in SUBSET Frames /\ m.pde \in [Spaces -> [Region -> Frames \cup {NoFrame}]]
      /\ m.pte \in [Spaces -> [Pages -> Pte]] /\ m.sys \in [Slots -> Frames \cup {NoFrame}]
      /\ m.dir \in [Spaces -> Slots \cup {NoSlot}]
  BY MemoryTypes
<1>1. PICK D, F, T : /\ D = [f \in Frames |-> IF f \in G THEN Unset ELSE m.data[f]]
                     /\ F = m.free \cup G /\ T = m.taint \ G
  OBVIOUS
<1>2. PICK P, Q, S, E : /\ P = [m.pte EXCEPT ![as] = [a \in Pages |-> NoPte]]
                        /\ Q = [m.pde EXCEPT ![as] = [r \in Region |-> NoFrame]]
                        /\ S = [m.sys EXCEPT ![m.dir[as]] = NoFrame] /\ E = [m.dir EXCEPT ![as] = NoSlot]
  OBVIOUS
<1>3. n = [m EXCEPT !.ref = R, !.free = F, !.data = D, !.taint = T, !.pte = P, !.pde = Q, !.sys = S, !.dir = E]
  BY <1>1, <1>2 DEF RemoveAll, Gone, Memory
<1>4. F \in SUBSET Frames /\ T \in SUBSET Frames
  BY <1>0, <1>1 DEF Gone
<1>5. D \in [Frames -> Values]
  BY <1>0, <1>1, Sizes
<1>6. P \in [Spaces -> [Pages -> Pte]] /\ \A bs \in Spaces, a \in Pages : P[bs][a] = IF bs = as THEN NoPte ELSE m.pte[bs][a]
  BY <1>0, <1>2, NoPteIs
<1>7. /\ Q \in [Spaces -> [Region -> Frames \cup {NoFrame}]]
      /\ \A bs \in Spaces, r \in Region : Q[bs][r] = IF bs = as THEN NoFrame ELSE m.pde[bs][r]
  BY <1>0, <1>2
<1>8. /\ S \in [Slots -> Frames \cup {NoFrame}] /\ S[m.dir[as]] = NoFrame
      /\ \A z \in Slots : z # m.dir[as] => S[z] = m.sys[z]
  BY <1>0, <1>2
<1>9. E \in [Spaces -> Slots \cup {NoSlot}] /\ \A bs \in Spaces : bs # as => E[bs] = m.dir[bs]
  BY <1>0, <1>2
<1>10. ASSUME \A f \in Frames : R[f] \in Nat PROVE n \in Memory
  <2>1. R \in [Frames -> Nat]
    BY <1>10
  <2>. QED
    BY <1>3, <1>4, <1>5, <1>6, <1>7, <1>8, <1>9, <2>1 DEF Memory
<1>11. n.ref = R /\ n.free = F /\ n.data = D /\ n.taint = T /\ n.pte = P /\ n.pde = Q /\ n.sys = S /\ n.dir = E
  BY <1>3 DEF Memory
<1>12. RemoveTables(m, n, as)
  BY <1>6, <1>7, <1>8, <1>11 DEF RemoveTables, SlotsAgreeBut
<1>13. \A f \in Frames : n.data[f] = IF f \in G THEN Unset ELSE m.data[f]
  BY <1>1, <1>11
<1>14. \A bs \in Spaces : bs # as => n.dir[bs] = m.dir[bs]
  BY <1>9, <1>11
<1>15. RemovedAll(m, n, as, R, G)
  BY <1>1, <1>11, <1>12, <1>13, <1>14 DEF RemovedAll
<1>. QED
  BY <1>10, <1>15

LEMMA RemoveAllSound ==
    ASSUME NEW m, NEW h \in Extras, Sound(m, {}, h), NEW as \in Spaces, m.dir[as] \in Slots
    PROVE  Sound(RemoveAll(m, as), {}, h) /\ RemoveAllDone(m, RemoveAll(m, as), as)
<1>0. m \in Memory
  BY SoundIs
<1>1. PICK R, n : R = [f \in Frames |-> m.ref[f] - Dropped(m, as, f)] /\ n = RemoveAll(m, as)
  OBVIOUS
<1>5. PICK G : G = Gone(m, R)
  OBVIOUS
<1>2. RemovedAll(m, n, as, R, G) /\ ((\A f \in Frames : R[f] \in Nat) => n \in Memory)
  BY <1>0, <1>1, <1>5, RemoveAllIs
<1>3. /\ n.ref = R /\ n.free = m.free \cup G /\ n.taint = m.taint \ G
      /\ \A f \in Frames : n.data[f] = IF f \in G THEN Unset ELSE m.data[f]
      /\ RemoveTables(m, n, as) /\ \A bs \in Spaces : bs # as => n.dir[bs] = m.dir[bs]
  BY <1>2 DEF RemovedAll
<1>9. Counted(n, h) /\ \A f \in Frames : R[f] \in Nat
  <2>1. SUFFICES ASSUME NEW f \in Frames PROVE n.ref[f] = Mappings(n, f) + h[f] /\ R[f] \in Nat
    BY DEF Counted
  <2>2. Mappings(m, f) = Mappings(n, f) + Dropped(m, as, f)
    BY <1>3, RemoveCounts
  <2>3. Mappings(n, f) \in Nat /\ h[f] \in Nat /\ Dropped(m, as, f) \in Nat
    BY RefsFinite, DroppedIs DEF Extras
  <2>4. m.ref[f] = Mappings(m, f) + h[f]
    BY SoundIs
  <2>5. PICK x \in Nat, y \in Nat, z \in Nat : x = Mappings(n, f) /\ y = h[f] /\ z = Dropped(m, as, f)
    BY <2>3
  <2>6. m.ref[f] = (x + z) + y
    BY <2>2, <2>4, <2>5
  <2>7. m.ref[f] - z = x + y
    BY <2>6
  <2>8. R[f] = m.ref[f] - z
    BY <1>1, <2>5
  <2>9. R[f] = x + y
    BY <2>7, <2>8
  <2>10. R[f] \in Nat
    BY <2>9
  <2>11. n.ref[f] = R[f]
    BY <1>3
  <2>. QED
    BY <2>5, <2>9, <2>10, <2>11
<1>4. \A f \in Frames : R[f] = m.ref[f] - Dropped(m, as, f) /\ R[f] \in Nat /\ m.ref[f] \in Nat
  BY <1>1, <1>9, SoundIs
<1>6. /\ n \in Memory /\ n.ref = R /\ n.free = m.free \cup G /\ n.taint = m.taint \ G
      /\ \A f \in Frames : n.data[f] = IF f \in G THEN Unset ELSE m.data[f]
      /\ RemoveTables(m, n, as) /\ \A bs \in Spaces : bs # as => n.dir[bs] = m.dir[bs]
  BY <1>2, <1>3, <1>9
<1>7. \A f \in G : R[f] = 0 /\ m.ref[f] > 0 /\ f \in Frames
  BY <1>5 DEF Gone
<1>8. \A f \in Frames : m.ref[f] = 0 => R[f] = 0
  <2>1. SUFFICES ASSUME NEW f \in Frames, m.ref[f] = 0 PROVE R[f] = 0
    OBVIOUS
  <2>2. Unmapped(m, f)
    BY <2>1, UnreferencedUnmapped
  <2>3. Dropped(m, as, f) = 0
    BY <2>2, NotDropped DEF Unmapped
  <2>4. R[f] = 0 - 0
    BY <1>4, <2>1, <2>3
  <2>. QED
    BY <2>4
<1>10. FreeFits(n, {})
  <2>1. SUFFICES ASSUME NEW f \in Frames PROVE f \in n.free <=> R[f] = 0
    BY <1>6 DEF FreeFits
  <2>2. f \in m.free <=> m.ref[f] = 0
    BY SoundIs
  <2>3. m.ref[f] \in Nat
    BY SoundIs
  <2>4. f \in G <=> R[f] = 0 /\ m.ref[f] > 0
    BY <1>5 DEF Gone
  <2>. QED
    BY <1>6, <1>8, <2>2, <2>3, <2>4
<1>11. Clean(n)
  <2>1. SUFFICES ASSUME NEW f \in Frames, R[f] = 0 PROVE n.data[f] = Unset /\ f \notin n.taint
    BY <1>6 DEF Clean
  <2>2. f \in G \/ m.ref[f] = 0
    BY <1>5, <2>1, SoundIs DEF Gone
  <2>3. m.ref[f] = 0 => m.data[f] = Unset /\ f \notin m.taint
    BY SoundIs
  <2>. QED
    BY <1>6, <2>2, <2>3
<1>12. EntriesFit(n)
  <2>1. SUFFICES ASSUME NEW bs \in Spaces, NEW b \in Pages PROVE PteFits(n, bs, b)
    BY DEF EntriesFit
  <2>2. CASE bs = as
    <3>1. n.pte[bs][b] = NoPte
      BY <1>6, <2>2 DEF RemoveTables
    <3>. QED
      BY <3>1, NoPteIs DEF PteFits
  <2>3. CASE bs # as
    <3>0. b[1] \in Region
      BY PageRegions
    <3>1. n.pte[bs][b] = m.pte[bs][b] /\ n.pde[bs][b[1]] = m.pde[bs][b[1]]
      <4>1. RemoveTables(m, n, as)
        BY <1>6
      <4>. QED
        BY <2>3, <3>0, <4>1 DEF RemoveTables
    <3>2. PteFits(m, bs, b)
      BY SoundIs
    <3>3. ASSUME b \in UserPages, m.pte[bs][b].w PROVE n.ref[m.pte[bs][b].f] = 1
      <4>1. m.ref[m.pte[bs][b].f] = 1 /\ m.pte[bs][b].f # NoFrame
        BY <3>2, <3>3, NoPteIs DEF PteFits
      <4>2. PICK f \in Frames : f = m.pte[bs][b].f
        BY <1>0, <4>1, EntryTypes
      <4>3. /\ \A cs \in Spaces, c \in Pages : cs # bs \/ c # b => m.pte[cs][c].f # f
            /\ \A cs \in Spaces, r \in Region : m.pde[cs][r] # f
            /\ \A s \in Slots : m.sys[s] # f
        BY <4>1, <4>2, AloneWithOne
      <4>4. Dropped(m, as, f) = 0
        BY <2>3, <4>3, NotDropped
      <4>6. R[f] = 1 - 0
        BY <1>4, <4>1, <4>2, <4>4
      <4>5. R[f] = 1
        BY <4>6
      <4>. QED
        BY <1>6, <4>2, <4>5
    <3>. QED
      BY <3>1, <3>2, <3>3 DEF PteFits
  <2>. QED
    BY <2>2, <2>3
<1>13. SameData(m, n)
  <2>1. SUFFICES ASSUME NEW f \in Frames, n.ref[f] > 0
                 PROVE  n.data[f] = m.data[f] /\ (f \in n.taint <=> f \in m.taint)
    BY DEF SameData
  <2>2. f \notin G
    BY <1>4, <1>6, <1>7, <2>1
  <2>. QED
    BY <1>6, <2>2
<1>14. RemoveAllDone(m, n, as)
  BY <1>6, <1>13 DEF RemoveAllDone, RemoveTables
<1>. QED
  BY <1>1, <1>6, <1>9, <1>10, <1>11, <1>12, <1>14 DEF Sound

-----------------------------------------------------------------------------
(* Cloning a region.                                                        *)

LEMMA CopyOnWriteIs ==
    ASSUME NEW e \in Pte
    PROVE  /\ CopyOnWrite(e) \in Pte /\ CopyOnWrite(e).f = e.f /\ ~CopyOnWrite(e).w
           /\ (e.w \/ e.cow) => CopyOnWrite(e).cow
BY DEF CopyOnWrite, Pte

\* The pages of a set that map a frame.
SharedRow(m, p, A, f) == {a \in A : m.pte[p][a].f = f}

SharedDone(m, n, p, c, A) ==
    /\ \A bs \in Spaces, a \in Pages :
          n.pte[bs][a] = IF a \in A /\ bs \in {p, c} THEN CopyOnWrite(m.pte[p][a]) ELSE m.pte[bs][a]
    /\ n.pde = m.pde /\ n.sys = m.sys /\ n.dir = m.dir /\ n.data = m.data /\ n.taint = m.taint /\ n.free = m.free
    /\ \A f \in Frames : n.ref[f] = m.ref[f] + Cardinality(SharedRow(m, p, A, f))

LEMMA SharedRowIs ==
    ASSUME NEW m, NEW p, NEW A \in SUBSET Pages, NEW f
    PROVE  IsFiniteSet(SharedRow(m, p, A, f)) /\ Cardinality(SharedRow(m, p, A, f)) \in Nat
<1>1. SharedRow(m, p, A, f) \subseteq Pages
  BY DEF SharedRow
<1>. QED
  BY <1>1, FiniteSizes, FS_Subset, FS_CardinalityType

LEMMA SharedIs ==
    ASSUME NEW m \in Memory, NEW p \in Spaces, NEW c \in Spaces, p # c, NEW A \in SUBSET Pages,
           NEW n, n = Shared(m, p, c, A)
    PROVE  n \in Memory /\ SharedDone(m, n, p, c, A)
<1>0. m.ref \in [Frames -> Nat] /\ m.pte \in [Spaces -> [Pages -> Pte]]
  BY MemoryTypes
<1>3. PICK U, V : /\ U = [a \in Pages |-> IF a \in A THEN CopyOnWrite(m.pte[p][a]) ELSE m.pte[p][a]]
                  /\ V = [a \in Pages |-> IF a \in A THEN CopyOnWrite(m.pte[p][a]) ELSE m.pte[c][a]]
  OBVIOUS
<1>4. PICK P, R : /\ P = [m.pte EXCEPT ![p] = U, ![c] = V]
                  /\ R = [f \in Frames |-> m.ref[f] + Cardinality({a \in A : m.pte[p][a].f = f})]
  OBVIOUS
<1>5. n = [m EXCEPT !.pte = P, !.ref = R]
  BY <1>0, <1>3, <1>4 DEF Shared, Memory
<1>6. U \in [Pages -> Pte] /\ V \in [Pages -> Pte]
  <2>1. \A a \in Pages : m.pte[p][a] \in Pte /\ m.pte[c][a] \in Pte
    BY <1>0
  <2>2. \A a \in Pages : CopyOnWrite(m.pte[p][a]) \in Pte
    BY <2>1, CopyOnWriteIs
  <2>. QED
    BY <1>3, <2>1, <2>2
<1>7. P \in [Spaces -> [Pages -> Pte]] /\ P[p] = U /\ P[c] = V /\ \A bs \in Spaces : bs \notin {p, c} => P[bs] = m.pte[bs]
  BY <1>0, <1>4, <1>6
<1>8. \A f \in Frames : R[f] = m.ref[f] + Cardinality(SharedRow(m, p, A, f))
  BY <1>4 DEF SharedRow
<1>9. R \in [Frames -> Nat]
  <2>1. \A f \in Frames : R[f] \in Nat
    BY <1>0, <1>8, SharedRowIs
  <2>. QED
    BY <1>4, <2>1
<1>10. n \in Memory
  BY <1>5, <1>7, <1>9 DEF Memory
<1>11. /\ n.pte = P /\ n.ref = R /\ n.pde = m.pde /\ n.sys = m.sys /\ n.dir = m.dir /\ n.data = m.data
       /\ n.taint = m.taint /\ n.free = m.free
  BY <1>5 DEF Memory
<1>12. ASSUME NEW bs \in Spaces, NEW a \in Pages
       PROVE  n.pte[bs][a] = IF a \in A /\ bs \in {p, c} THEN CopyOnWrite(m.pte[p][a]) ELSE m.pte[bs][a]
  BY <1>3, <1>7, <1>11
<1>. QED
  BY <1>8, <1>10, <1>11, <1>12 DEF SharedDone

\* Pages of the parent that the child may share.
MayShare(m, p, c, A) ==
    /\ A \in SUBSET Pages
    /\ \A a \in A : m.pte[p][a].f # NoFrame /\ m.pte[c][a].f = NoFrame /\ m.pde[c][a[1]] # NoFrame

LEMMA SharedCounts ==
    ASSUME NEW m \in Memory, NEW n, NEW p \in Spaces, NEW c \in Spaces, p # c, NEW A, MayShare(m, p, c, A),
           SharedDone(m, n, p, c, A), NEW f \in Frames
    PROVE  Mappings(n, f) = Mappings(m, f) + Cardinality(SharedRow(m, p, A, f))
<1>0. A \in SUBSET Pages /\ f # NoFrame
  BY Sizes DEF MayShare
<1>1. \A a \in Pages : CopyOnWrite(m.pte[p][a]).f = m.pte[p][a].f
  BY EntryTypes, CopyOnWriteIs
<1>2. PteRowOnly(m, n, c)
  <2>1. SUFFICES ASSUME NEW bs \in Spaces, NEW a \in Pages, bs # c PROVE n.pte[bs][a].f = m.pte[bs][a].f
    BY DEF PteRowOnly
  <2>2. n.pte[bs][a] = IF a \in A /\ bs \in {p, c} THEN CopyOnWrite(m.pte[p][a]) ELSE m.pte[bs][a]
    BY DEF SharedDone
  <2>. QED
    BY <1>1, <2>1, <2>2
<1>3. PteRowBalanced(m, n, c, f)
  BY <1>2, PteRowChange
<1>4. PICK B, C, D : B = PteRow(m, c, f) /\ C = SharedRow(m, p, A, f) /\ D = PteRow(n, c, f)
  OBVIOUS
<1>5. D = B \cup C /\ B \cap C = {}
  <2>1. \A a \in Pages : n.pte[c][a] = IF a \in A THEN CopyOnWrite(m.pte[p][a]) ELSE m.pte[c][a]
    BY DEF SharedDone
  <2>2. \A a \in Pages : n.pte[c][a].f = IF a \in A THEN m.pte[p][a].f ELSE m.pte[c][a].f
    BY <1>1, <2>1
  <2>3. \A a \in A : m.pte[c][a].f = NoFrame
    BY DEF MayShare
  <2>4. B = {a \in Pages : m.pte[c][a].f = f} /\ C = {a \in A : m.pte[p][a].f = f} /\ D = {a \in Pages : n.pte[c][a].f = f}
    BY <1>4 DEF PteRow, SharedRow
  <2>. QED
    BY <1>0, <2>2, <2>3, <2>4
<1>6. IsFiniteSet(B) /\ IsFiniteSet(C) /\ Cardinality(B) \in Nat /\ Cardinality(C) \in Nat
  BY <1>0, <1>3, <1>4, SharedRowIs DEF PteRowBalanced
<1>7. Cardinality(D) = Cardinality(B) + Cardinality(C)
  <2>1. Cardinality(B \cup C) = Cardinality(B) + Cardinality(C) - Cardinality(B \cap C)
    BY <1>6, FS_Union
  <2>2. Cardinality(B \cap C) = 0
    BY <1>5, FS_EmptySet
  <2>3. PICK x \in Nat, y \in Nat : x = Cardinality(B) /\ y = Cardinality(C)
    BY <1>6
  <2>4. Cardinality(D) = x + y - 0
    BY <1>5, <2>1, <2>2, <2>3
  <2>. QED
    BY <2>3, <2>4
<1>8. PdeRefs(n, f) = PdeRefs(m, f) /\ SysRefs(n, f) = SysRefs(m, f)
  BY DEF SharedDone, PdeRefs, SysRefs
<1>9. PICK b \in Nat, d \in Nat, x \in Nat, y \in Nat, q \in Nat, s \in Nat :
          /\ b = Cardinality(B) /\ d = Cardinality(C) /\ x = Cardinality(PteRefs(m, f)) /\ y = Cardinality(PteRefs(n, f))
          /\ q = Cardinality(PdeRefs(m, f)) /\ s = Cardinality(SysRefs(m, f))
  BY <1>6, RefsFinite
<1>10. y + b = x + (b + d)
  BY <1>3, <1>4, <1>7, <1>9 DEF PteRowBalanced
<1>11. y = x + d
  BY <1>10
<1>12. Mappings(m, f) = x + q + s /\ Mappings(n, f) = y + q + s
  BY <1>8, <1>9, RefsFinite
<1>13. y + q + s = (x + q + s) + d
  BY <1>11
<1>. QED
  BY <1>4, <1>9, <1>12, <1>13

LEMMA SharedSound ==
    ASSUME NEW m, NEW X, NEW h \in Extras, Sound(m, X, h), NEW p \in Spaces, NEW c \in Spaces, p # c,
           NEW A, MayShare(m, p, c, A), NEW n, n = Shared(m, p, c, A)
    PROVE  Sound(n, X, h) /\ SharedDone(m, n, p, c, A)
<1>0. m \in Memory /\ A \in SUBSET Pages
  BY SoundIs DEF MayShare
<1>1. n \in Memory /\ SharedDone(m, n, p, c, A)
  BY <1>0, SharedIs
<1>2. /\ n.pde = m.pde /\ n.sys = m.sys /\ n.dir = m.dir /\ n.data = m.data /\ n.taint = m.taint /\ n.free = m.free
      /\ \A f \in Frames : n.ref[f] = m.ref[f] + Cardinality(SharedRow(m, p, A, f))
  BY <1>1 DEF SharedDone
<1>3. \A f \in Frames : m.ref[f] \in Nat /\ Cardinality(SharedRow(m, p, A, f)) \in Nat /\ IsFiniteSet(SharedRow(m, p, A, f))
  BY <1>0, SoundIs, SharedRowIs
<1>4. Counted(n, h)
  <2>1. SUFFICES ASSUME NEW f \in Frames PROVE n.ref[f] = Mappings(n, f) + h[f]
    BY DEF Counted
  <2>2. Mappings(n, f) = Mappings(m, f) + Cardinality(SharedRow(m, p, A, f))
    BY <1>0, <1>1, SharedCounts
  <2>3. m.ref[f] = Mappings(m, f) + h[f] /\ Mappings(m, f) \in Nat
    BY SoundIs
  <2>4. PICK x \in Nat, y \in Nat, z \in Nat : x = Mappings(m, f) /\ y = h[f] /\ z = Cardinality(SharedRow(m, p, A, f))
    BY <1>3, <2>3 DEF Extras
  <2>5. n.ref[f] = (x + y) + z /\ Mappings(n, f) = x + z
    BY <1>2, <2>2, <2>3, <2>4
  <2>6. (x + y) + z = (x + z) + y
    OBVIOUS
  <2>. QED
    BY <2>4, <2>5, <2>6
<1>5. \A f \in Frames : m.ref[f] = 0 <=> n.ref[f] = 0
  <2>1. SUFFICES ASSUME NEW f \in Frames PROVE m.ref[f] = 0 <=> n.ref[f] = 0
    OBVIOUS
  <2>2. CASE m.ref[f] = 0
    <3>1. Unmapped(m, f)
      BY <2>2, UnreferencedUnmapped
    <3>2. SharedRow(m, p, A, f) = {}
      BY <1>0, <3>1 DEF Unmapped, SharedRow
    <3>3. Cardinality(SharedRow(m, p, A, f)) = 0
      BY <3>2, FS_EmptySet
    <3>4. n.ref[f] = 0 + 0
      BY <1>2, <2>2, <3>3
    <3>. QED
      BY <2>2, <3>4
  <2>3. CASE m.ref[f] # 0
    <3>1. PICK x \in Nat, z \in Nat : x = m.ref[f] /\ z = Cardinality(SharedRow(m, p, A, f))
      BY <1>3
    <3>2. x + z # 0
      BY <2>3, <3>1
    <3>. QED
      BY <1>2, <2>3, <3>1, <3>2
  <2>. QED
    BY <2>2, <2>3
<1>6. FreeFits(n, X) /\ Clean(n)
  BY <1>2, <1>5, SoundIs DEF FreeFits, Clean
<1>7. EntriesFit(n)
  <2>1. SUFFICES ASSUME NEW bs \in Spaces, NEW b \in Pages PROVE PteFits(n, bs, b)
    BY DEF EntriesFit
  <2>2. n.pte[bs][b] = IF b \in A /\ bs \in {p, c} THEN CopyOnWrite(m.pte[p][b]) ELSE m.pte[bs][b]
    BY <1>1 DEF SharedDone
  <2>3. PteFits(m, bs, b) /\ PteFits(m, p, b)
    BY SoundIs
  <2>4. CASE b \in A /\ bs \in {p, c}
    <3>1. n.pte[bs][b] = CopyOnWrite(m.pte[p][b])
      BY <2>2, <2>4
    <3>2. m.pte[p][b].f # NoFrame /\ m.pde[c][b[1]] # NoFrame
      BY <2>4 DEF MayShare
    <3>3. m.pde[bs][b[1]] # NoFrame
      BY <2>3, <2>4, <3>2 DEF PteFits
    <3>4. m.pte[p][b] \in Pte
      BY <1>0, EntryTypes
    <3>5. /\ n.pte[bs][b].f = m.pte[p][b].f /\ ~n.pte[bs][b].w
          /\ (m.pte[p][b].w \/ m.pte[p][b].cow) => n.pte[bs][b].cow
      BY <3>1, <3>4, CopyOnWriteIs
    <3>. QED
      BY <1>2, <2>3, <3>2, <3>3, <3>5 DEF PteFits
  <2>5. CASE ~(b \in A /\ bs \in {p, c})
    <3>1. n.pte[bs][b] = m.pte[bs][b]
      BY <2>2, <2>5
    <3>2. ASSUME b \in UserPages, m.pte[bs][b].w PROVE n.ref[m.pte[bs][b].f] = 1
      <4>1. m.ref[m.pte[bs][b].f] = 1 /\ m.pte[bs][b].f # NoFrame
        BY <2>3, <3>2, NoPteIs DEF PteFits
      <4>2. PICK f \in Frames : f = m.pte[bs][b].f
        BY <1>0, <4>1, EntryTypes
      <4>3. \A cs \in Spaces, d \in Pages : cs # bs \/ d # b => m.pte[cs][d].f # f
        BY <4>1, <4>2, AloneWithOne
      <4>4. SharedRow(m, p, A, f) = {}
        BY <1>0, <2>5, <4>3 DEF SharedRow
      <4>5. Cardinality(SharedRow(m, p, A, f)) = 0
        BY <4>4, FS_EmptySet
      <4>6. n.ref[f] = 1 + 0
        BY <1>2, <4>1, <4>2, <4>5
      <4>. QED
        BY <4>2, <4>6
    <3>. QED
      BY <1>2, <2>3, <3>1, <3>2 DEF PteFits
  <2>. QED
    BY <2>4, <2>5
<1>. QED
  BY <1>1, <1>4, <1>6, <1>7 DEF Sound

LEMMA TempForIs ==
    ASSUME NEW m, NEW as, TempFree(m, as) # {}
    PROVE  /\ TempFor(m, as) \in TempPages /\ ~Valid(m, as, TempFor(m, as))
           /\ TempFor(m, as) \in Pages /\ TempFor(m, as)[1] = "temp" /\ TempFor(m, as) \notin UserPages
<1>1. PICK S : S = {a[2] : a \in TempFree(m, as)}
  OBVIOUS
<1>2. \A a \in TempFree(m, as) : a \in TempPages /\ ~Valid(m, as, a)
  BY DEF TempFree
<1>3. \A a \in TempPages : a = <<"temp", a[2]>> /\ a[2] \in 0 .. NTemp - 1
  BY DEF TempPages
<1>4. S \subseteq Nat /\ S # {}
  <2>1. 0 .. NTemp - 1 \subseteq Nat
    BY Sizes
  <2>. QED
    BY <1>1, <1>2, <1>3, <2>1
<1>5. Min(S) \in S
  BY <1>4, MinIs
<1>6. PICK a \in TempFree(m, as) : a[2] = Min(S)
  BY <1>1, <1>5
<1>7. TempFor(m, as) = a
  BY <1>1, <1>2, <1>3, <1>6 DEF TempFor
<1>8. a \in TempPages /\ ~Valid(m, as, a)
  BY <1>2, <1>6
<1>. QED
  BY <1>7, <1>8, PageRegions

\* What has a reference is mapped, or has an extra one.
LEMMA ReferencedMapped ==
    ASSUME NEW m, NEW X, NEW h \in Extras, Sound(m, X, h), NEW f \in Frames, m.ref[f] > 0
    PROVE  \/ h[f] > 0
           \/ \E as \in Spaces, a \in Pages : m.pte[as][a].f = f
           \/ \E as \in Spaces, r \in Region : m.pde[as][r] = f
           \/ \E s \in Slots : m.sys[s] = f
<1>1. SUFFICES ASSUME ~(h[f] > 0), \A as \in Spaces, a \in Pages : m.pte[as][a].f # f,
                      \A as \in Spaces, r \in Region : m.pde[as][r] # f, \A s \in Slots : m.sys[s] # f
               PROVE  FALSE
  OBVIOUS
<1>2. PteRefs(m, f) = {} /\ PdeRefs(m, f) = {} /\ SysRefs(m, f) = {}
  BY <1>1 DEF PteRefs, PdeRefs, SysRefs
<1>3. Mappings(m, f) = 0 + 0 + 0
  BY <1>2, RefsFinite, FS_EmptySet
<1>4. m.ref[f] = Mappings(m, f) + h[f] /\ h[f] \in Nat
  BY SoundIs DEF Extras
<1>5. h[f] = 0
  BY <1>1, <1>4
<1>6. m.ref[f] = 0 + 0
  BY <1>3, <1>4, <1>5
<1>. QED
  BY <1>6

KeepsPages(m, n) == \A as \in Spaces, a \in Pages : m.pte[as][a].f # NoFrame => n.pte[as][a].f = m.pte[as][a].f
StaysReferenced(m, n) == \A f \in Frames : m.ref[f] > 0 => n.ref[f] > 0

LEMMA StillReferenced ==
    ASSUME NEW m, NEW X, NEW h \in Extras, Sound(m, X, h), NEW n, NEW Y, Sound(n, Y, h),
           KeepsPages(m, n), KeepsTables(m, n), n.sys = m.sys
    PROVE  StaysReferenced(m, n)
<1>1. SUFFICES ASSUME NEW f \in Frames, m.ref[f] > 0, ~(n.ref[f] > 0) PROVE FALSE
  BY DEF StaysReferenced
<1>2. n.ref[f] = 0 /\ f # NoFrame
  BY <1>1, SoundIs, Sizes
<1>3. Unmapped(n, f) /\ h[f] = 0
  BY <1>2, UnreferencedUnmapped
<1>4. \/ \E as \in Spaces, a \in Pages : m.pte[as][a].f = f
      \/ \E as \in Spaces, r \in Region : m.pde[as][r] = f
      \/ \E s \in Slots : m.sys[s] = f
  BY <1>1, <1>3, ReferencedMapped
<1>5. CASE \E as \in Spaces, a \in Pages : m.pte[as][a].f = f
  BY <1>2, <1>3, <1>5 DEF KeepsPages, Unmapped
<1>6. CASE \E as \in Spaces, r \in Region : m.pde[as][r] = f
  BY <1>2, <1>3, <1>6 DEF KeepsTables, Unmapped
<1>7. CASE \E s \in Slots : m.sys[s] = f
  BY <1>2, <1>3, <1>7 DEF Unmapped
<1>. QED
  BY <1>4, <1>5, <1>6, <1>7

\* A page table for the child.
ChildTable(m, c, r) == [Allocated(m) EXCEPT !.ref[NextFree(m)] = @ + 1, !.pde[c][r] = NextFree(m)]
ChildTableDone(m, k, c, r, t) ==
    /\ k \in Memory /\ t \in Frames /\ m.ref[t] = 0 /\ t \notin k.free /\ k.pde[c][r] = t
    /\ k.pte = m.pte /\ k.sys = m.sys /\ k.dir = m.dir /\ k.data = m.data /\ k.taint = m.taint
    /\ TablesSame(m, k, c, r) /\ KeepsTables(m, k)
    /\ \A f \in Frames : f # t => k.ref[f] = m.ref[f]
    /\ Free(k) = Free(m) - 1 /\ NotWritable(k, t)

LEMMA ChildTableSound ==
    ASSUME NEW m, NEW h \in Extras, Sound(m, {}, h), m.free # {}, NEW c \in Spaces, NEW r \in Region,
           m.pde[c][r] = NoFrame
    PROVE  Sound(ChildTable(m, c, r), {}, h) /\ ChildTableDone(m, ChildTable(m, c, r), c, r, NextFree(m))
<1>0. m \in Memory
  BY SoundIs
<1>1. PICK t, k, n : t = NextFree(m) /\ k = Counting(Allocated(m), t) /\ n = WithPde(k, c, r, t)
  OBVIOUS
<1>2. Sound(k, {}, Up(h, t)) /\ FreshSet(m, k, t)
  BY <1>1, FreshSound
<1>3. /\ k \in Memory /\ SameTables(m, k) /\ k.data = m.data /\ k.taint = m.taint /\ k.dir = m.dir
      /\ t \in Frames /\ m.ref[t] = 0 /\ k.ref[t] = 1 /\ \A g \in Frames : g # t => k.ref[g] = m.ref[g]
      /\ k.free = m.free \ {t} /\ t \in m.free
  BY <1>2 DEF FreshSet
<1>4. k.pte = m.pte /\ k.pde = m.pde /\ k.sys = m.sys
  BY <1>3 DEF SameTables
<1>5. Sound(n, {}, h)
  BY <1>1, <1>2, <1>3, <1>4, PutPdeSound
<1>6. PdeSet(k, n, c, r, t)
  <2>1. t \in FrameOrNone
    BY <1>3 DEF FrameOrNone
  <2>. QED
    BY <1>1, <1>3, <2>1, WithPdeIs
<1>7. /\ n.pde[c][r] = t /\ n.pte = k.pte /\ n.sys = k.sys /\ OnlyPde(k, n, c, r)
      /\ n.free = k.free /\ n.data = k.data /\ n.taint = k.taint /\ n.dir = k.dir /\ n.ref = k.ref /\ n \in Memory
  BY <1>6 DEF PdeSet, OnlyPde, Rest
<1>8. n = ChildTable(m, c, r)
  BY <1>1 DEF ChildTable, WithPde, Counting
<1>9. Free(n) = Free(m) - 1
  <2>1. n.free = Allocated(m).free
    BY <1>0, <1>1, <1>3, <1>7, AllocatedIs
  <2>. QED
    BY <1>0, <2>1, AllocatedCounts DEF Free
<1>10. TablesSame(m, n, c, r)
  BY <1>4, <1>7 DEF TablesSame, OnlyPde
<1>11. KeepsTables(m, n)
  <2>1. SUFFICES ASSUME NEW bs \in Spaces, NEW q \in Region, m.pde[bs][q] # NoFrame
                 PROVE  n.pde[bs][q] = m.pde[bs][q]
    BY DEF KeepsTables
  <2>2. bs # c \/ q # r
    BY <2>1
  <2>. QED
    BY <1>10, <2>2 DEF TablesSame
<1>12. NotWritable(n, t)
  <2>1. NotWritable(m, t)
    BY <1>3, UnreferencedNotWritable
  <2>. QED
    BY <1>4, <1>7, <2>1 DEF NotWritable
<1>13. ChildTableDone(m, n, c, r, t)
  <2>1. t \notin n.free /\ \A f \in Frames : f # t => n.ref[f] = m.ref[f]
    BY <1>3, <1>7
  <2>2. n.pte = m.pte /\ n.sys = m.sys /\ n.dir = m.dir /\ n.data = m.data /\ n.taint = m.taint
    BY <1>3, <1>4, <1>7
  <2>. QED
    BY <1>3, <1>7, <1>9, <1>10, <1>11, <1>12, <2>1, <2>2 DEF ChildTableDone
<1>. QED
  BY <1>1, <1>5, <1>8, <1>13

\* A turn of the clone loop: what it leaves alone, and what the child gets.
ParentLasts(z, y, p) ==
    /\ \A a \in Pages : y.pte[p][a].f = z.pte[p][a].f /\ (y.pte[p][a].w => z.pte[p][a].w)
    /\ \A q \in Region : q # "temp" => y.pde[p][q] = z.pde[p][q]
OutsidersSame(z, y, p, c) ==
    \A bs \in Spaces : bs # p /\ bs # c =>
        (\A a \in Pages : y.pte[bs][a] = z.pte[bs][a]) /\ (\A q \in Region : y.pde[bs][q] = z.pde[bs][q])
ChildOutside(z, y, c, r) ==
    /\ \A a \in Pages : a[1] # r => y.pte[c][a] = z.pte[c][a]
    /\ \A q \in Region : q # r => y.pde[c][q] = z.pde[c][q]
\* A page of the child has the frame of the parent's, or is a window page with one that was free.
Inherits(z, y, p, c, a) ==
    \/ y.pte[c][a].f = z.pte[p][a].f
    \/ a \in TempPages /\ y.pte[c][a].f \in Frames /\ z.ref[y.pte[c][a].f] = 0
ChildInside(z, y, p, c, r) == \A a \in Pages : a[1] = r => Inherits(z, y, p, c, a)

Has(z, p, r) == IF z.pde[p][r] # NoFrame THEN 1 ELSE 0
Costs(z, y, p, r) ==
    Free(y) + Has(z, p, r) + NeedsTable(z, p, "temp") >= Free(z) + NeedsTable(y, p, "temp")

RegionDone(z, y, p, c, r) ==
    /\ y.sys = z.sys /\ y.dir = z.dir /\ SameData(z, y) /\ StaysReferenced(z, y) /\ KeepsTables(z, y)
    /\ ParentLasts(z, y, p) /\ OutsidersSame(z, y, p, c) /\ ChildOutside(z, y, c, r) /\ ChildInside(z, y, p, c, r)
    /\ Costs(z, y, p, r)

\* The child has nothing of the region yet.
Vacant(z, c, r) == z.pde[c][r] = NoFrame /\ \A a \in Pages : a[1] = r => z.pte[c][a].f = NoFrame

\* The turn up to the sharing: the child's table is in the parent's window.
WindowDone(z, n, p, c, r, i, t) ==
    /\ t \in Frames /\ z.ref[t] = 0 /\ i \in TempPages /\ i \in Pages /\ i[1] = "temp" /\ z.pte[p][i] = NoPte
    /\ n.pte[p][i] = NewPte(t) /\ OthersSame(z, n, p, i)
    /\ n.pde[c][r] # NoFrame /\ n.pde[p]["temp"] # NoFrame /\ KeepsTables(z, n)
    /\ \A bs \in Spaces, q \in Region : (bs # c \/ q # r) /\ (bs # p \/ q # "temp") => n.pde[bs][q] = z.pde[bs][q]
    /\ n.sys = z.sys /\ n.dir = z.dir /\ SameData(z, n)
    /\ Free(n) = Free(z) - 1 - NeedsTable(z, p, "temp")

LEMMA WindowSound ==
    ASSUME NEW z, NEW h \in Extras, Sound(z, {}, h), NEW p \in Spaces, NEW c \in Spaces, p # c, NEW r \in Region,
           z.pde[c][r] = NoFrame, TempFree(z, p) # {}, Free(z) >= 1 + NeedsTable(z, p, "temp"),
           NEW i, i = TempFor(z, p), NEW t, t = NextFree(z), NEW n, n = MiInsertPage(ChildTable(z, c, r), p, i, t)
    PROVE  Sound(n, {}, h) /\ WindowDone(z, n, p, c, r, i, t)
<1>0. z \in Memory /\ "temp" \in Region
  BY SoundIs DEF Region
<1>1. Free(z) \in Nat /\ NeedsTable(z, p, "temp") \in {0, 1}
  BY <1>0, FreeCounts DEF NeedsTable
<1>2. z.free # {}
  BY <1>0, <1>1, FreeCounts
<1>3. PICK k : k = ChildTable(z, c, r)
  OBVIOUS
<1>4. Sound(k, {}, h) /\ ChildTableDone(z, k, c, r, t)
  BY <1>2, <1>3, ChildTableSound
<1>5. /\ k \in Memory /\ t \in Frames /\ z.ref[t] = 0 /\ t \notin k.free /\ k.pde[c][r] = t
      /\ k.pte = z.pte /\ k.sys = z.sys /\ k.dir = z.dir /\ k.data = z.data /\ k.taint = z.taint
      /\ TablesSame(z, k, c, r) /\ KeepsTables(z, k)
      /\ Free(k) = Free(z) - 1 /\ NotWritable(k, t)
  BY <1>4 DEF ChildTableDone
<1>5a. \A f \in Frames : f # t => k.ref[f] = z.ref[f]
  BY <1>4 DEF ChildTableDone
<1>6. /\ i \in TempPages /\ ~Valid(z, p, i) /\ i \in Pages /\ i[1] = "temp" /\ i \notin UserPages
  BY TempForIs
<1>7. z.pte[p][i].f = NoFrame /\ z.pte[p][i] = NoPte
  <2>1. PteFits(z, p, i)
    BY <1>6, SoundIs
  <2>. QED
    BY <1>6, <2>1 DEF PteFits, Valid
<1>8. k.pde[p]["temp"] = z.pde[p]["temp"]
  BY <1>0, <1>5 DEF TablesSame
<1>8a. NeedsTable(k, p, "temp") = NeedsTable(z, p, "temp")
  BY <1>8 DEF NeedsTable
<1>9. k.pde[p][i[1]] # NoFrame \/ k.free # {}
  <2>1. CASE z.pde[p]["temp"] # NoFrame
    BY <1>6, <1>8, <2>1
  <2>2. CASE z.pde[p]["temp"] = NoFrame
    <3>1. NeedsTable(z, p, "temp") = 1
      BY <2>2 DEF NeedsTable
    <3>2. Free(k) # 0
      BY <1>1, <1>5, <3>1
    <3>. QED
      BY <1>5, <3>2, FreeCounts
  <2>. QED
    BY <2>1, <2>2
<1>10. k.pte[p][i].f # t /\ k.pte[p][i].f = NoFrame
  BY <1>5, <1>7, Sizes
<1>11. PICK Y : Y = {} \ {t}
  OBVIOUS
<1>12. Y = {}
  BY <1>11
<1>13. Sound(n, Y, h) /\ InsertDone(k, n, p, i, t)
  BY <1>3, <1>4, <1>5, <1>6, <1>9, <1>10, <1>11, InsertSound
<1>14. Sound(n, {}, h)
  BY <1>12, <1>13
<1>15. /\ n.pte[p][i] = NewPte(t) /\ OthersSame(k, n, p, i)
       /\ n.pde[p][i[1]] # NoFrame /\ KeepsTables(k, n) /\ TablesSame(k, n, p, i[1])
       /\ n.sys = k.sys /\ n.dir = k.dir /\ SameData(k, n)
       /\ Free(n) = Free(k) - NeedsTable(k, p, i[1])
  BY <1>10, <1>13 DEF InsertDone
<1>16. OthersSame(z, n, p, i) /\ KeepsTables(z, n)
  BY <1>5, <1>15, OthersTrans, TablesTrans
<1>17. n.pde[c][r] # NoFrame
  <2>1. k.pde[c][r] # NoFrame
    BY <1>5, Sizes
  <2>. QED
    BY <1>15, <2>1 DEF KeepsTables
<1>18. \A bs \in Spaces, q \in Region : (bs # c \/ q # r) /\ (bs # p \/ q # "temp") => n.pde[bs][q] = z.pde[bs][q]
  BY <1>5, <1>6, <1>15 DEF TablesSame
<1>19. Free(n) = Free(z) - 1 - NeedsTable(z, p, "temp")
  BY <1>1, <1>5, <1>6, <1>8a, <1>15
<1>20. SameData(z, n)
  <2>1. SUFFICES ASSUME NEW f \in Frames, z.ref[f] > 0, n.ref[f] > 0
                 PROVE  n.data[f] = z.data[f] /\ (f \in n.taint <=> f \in z.taint)
    BY DEF SameData
  <2>2. k.ref[f] > 0
    BY <1>5, <1>5a, <2>1
  <2>3. n.data[f] = k.data[f] /\ (f \in n.taint <=> f \in k.taint)
    BY <1>15, <2>1, <2>2, DataAt
  <2>. QED
    BY <1>5, <2>3
<1>21. n.sys = z.sys /\ n.dir = z.dir /\ n.pde[p]["temp"] # NoFrame
  BY <1>5, <1>6, <1>15
<1>22. WindowDone(z, n, p, c, r, i, t)
  BY <1>5, <1>6, <1>7, <1>15, <1>16, <1>17, <1>18, <1>19, <1>20, <1>21 DEF WindowDone
<1>. QED
  BY <1>14, <1>22

\* What the sharing leaves in the parent and the child, once the window page is gone.
LEMMA ShareMayStart ==
    ASSUME NEW z, NEW h \in Extras, Sound(z, {}, h), NEW p \in Spaces, NEW c \in Spaces, p # c, NEW r \in Region,
           Vacant(z, c, r), NEW n, NEW i, NEW t, WindowDone(z, n, p, c, r, i, t), NEW A, A = RegionPages(n, p, r)
    PROVE  MayShare(n, p, c, A)
<1>1. A \in SUBSET Pages /\ \A a \in A : a[1] = r /\ n.pte[p][a].f # NoFrame
  BY DEF RegionPages, Valid
<1>2. \A a \in A : n.pte[c][a].f = NoFrame
  <2>1. \A a \in Pages : n.pte[c][a] = z.pte[c][a]
    BY DEF WindowDone, OthersSame
  <2>. QED
    BY <1>1, <2>1 DEF Vacant
<1>3. n.pde[c][r] # NoFrame
  BY DEF WindowDone
<1>. QED
  BY <1>1, <1>2, <1>3 DEF MayShare

LEMMA FreeGrows ==
    ASSUME NEW m \in Memory, NEW n \in Memory, m.free \subseteq n.free
    PROVE  Free(n) >= Free(m)
BY FS_Subset, FS_CardinalityType, FiniteSizes, MemoryTypes DEF Free

LEMMA SharedRegionSound ==
    ASSUME NEW z, NEW h \in Extras, Sound(z, {}, h), NEW p \in Spaces, NEW c \in Spaces, p # c, NEW r \in Region,
           z.pde[p][r] # NoFrame, Vacant(z, c, r), NEW n, Sound(n, {}, h), NEW i, NEW t, WindowDone(z, n, p, c, r, i, t),
           NEW u, u = Shared(n, p, c, RegionPages(n, p, r)), NEW y, y = MiRemovePage(u, p, i)
    PROVE  Sound(y, {}, h) /\ RegionDone(z, y, p, c, r)
<1>0. z \in Memory /\ n \in Memory /\ "temp" \in Region
  BY SoundIs DEF Region
<1>1. PICK A : A = RegionPages(n, p, r)
  OBVIOUS
<1>2. MayShare(n, p, c, A)
  BY <1>1, ShareMayStart
<1>3. Sound(u, {}, h) /\ SharedDone(n, u, p, c, A)
  BY <1>1, <1>2, SharedSound
<1>4. u \in Memory
  BY <1>3, SoundIs
<1>5. /\ t \in Frames /\ z.ref[t] = 0 /\ i \in TempPages /\ i \in Pages /\ i[1] = "temp" /\ z.pte[p][i] = NoPte
      /\ n.pte[p][i] = NewPte(t) /\ OthersSame(z, n, p, i)
      /\ n.pde[c][r] # NoFrame /\ n.pde[p]["temp"] # NoFrame /\ KeepsTables(z, n)
      /\ n.sys = z.sys /\ n.dir = z.dir /\ SameData(z, n)
      /\ Free(n) = Free(z) - 1 - NeedsTable(z, p, "temp")
  BY DEF WindowDone
<1>6. \A bs \in Spaces, q \in Region : (bs # c \/ q # r) /\ (bs # p \/ q # "temp") => n.pde[bs][q] = z.pde[bs][q]
  BY DEF WindowDone
<1>7. /\ u.pde = n.pde /\ u.sys = n.sys /\ u.dir = n.dir /\ u.data = n.data /\ u.taint = n.taint /\ u.free = n.free
  BY <1>3 DEF SharedDone
<1>8. \A bs \in Spaces, a \in Pages :
          u.pte[bs][a] = IF a \in A /\ bs \in {p, c} THEN CopyOnWrite(n.pte[p][a]) ELSE n.pte[bs][a]
  BY <1>3 DEF SharedDone
<1>9. \A a \in A : a \in Pages /\ a[1] = r
  BY <1>1 DEF RegionPages
<1>10. \A a \in Pages : n.pte[p][a] \in Pte
  BY <1>0, EntryTypes
<1>11. u.pte[p][i].f = t /\ u.pte[p][i].f # NoFrame
  <2>1. n.pte[p][i].f = t
    BY <1>5, NewPteIs
  <2>2. u.pte[p][i].f = n.pte[p][i].f
    BY <1>5, <1>8, <1>10, CopyOnWriteIs
  <2>. QED
    BY <1>5, <2>1, <2>2, Sizes
<1>12. Sound(y, {}, h) /\ RemoveDone(u, y, p, i)
  BY <1>3, <1>5, <1>11, RemoveSound
<1>13. /\ y.pte[p][i] = NoPte /\ OthersSame(u, y, p, i) /\ y.pde = u.pde /\ y.sys = u.sys /\ y.dir = u.dir
       /\ SameData(u, y) /\ u.free \subseteq y.free /\ y \in Memory
  BY <1>12, SoundIs DEF RemoveDone
<1>14. \A bs \in Spaces, a \in Pages : bs # p \/ a # i => y.pte[bs][a] = u.pte[bs][a]
  BY <1>13 DEF OthersSame
<1>15. \A bs \in Spaces, a \in Pages : bs # p \/ a # i => n.pte[bs][a] = z.pte[bs][a]
  BY <1>5 DEF OthersSame
<1>16. KeepsTables(z, y) /\ y.sys = z.sys /\ y.dir = z.dir
  BY <1>5, <1>7, <1>13 DEF KeepsTables
<1>17. ParentLasts(z, y, p)
  <2>1. ASSUME NEW a \in Pages PROVE y.pte[p][a].f = z.pte[p][a].f /\ (y.pte[p][a].w => z.pte[p][a].w)
    <3>1. CASE a = i
      BY <1>5, <1>13, <3>1
    <3>2. CASE a # i
      <4>1. y.pte[p][a] = u.pte[p][a] /\ n.pte[p][a] = z.pte[p][a]
        BY <1>14, <1>15, <3>2
      <4>2. u.pte[p][a].f = n.pte[p][a].f /\ (u.pte[p][a].w => n.pte[p][a].w)
        BY <1>8, <1>10, CopyOnWriteIs
      <4>. QED
        BY <4>1, <4>2
    <3>. QED
      BY <3>1, <3>2
  <2>2. \A q \in Region : q # "temp" => y.pde[p][q] = z.pde[p][q]
    BY <1>6, <1>7, <1>13
  <2>. QED
    BY <2>1, <2>2 DEF ParentLasts
<1>18. OutsidersSame(z, y, p, c)
  <2>1. SUFFICES ASSUME NEW bs \in Spaces, bs # p, bs # c
                 PROVE  (\A a \in Pages : y.pte[bs][a] = z.pte[bs][a]) /\ (\A q \in Region : y.pde[bs][q] = z.pde[bs][q])
    BY DEF OutsidersSame
  <2>2. \A a \in Pages : y.pte[bs][a] = z.pte[bs][a]
    BY <1>8, <1>14, <1>15, <2>1
  <2>3. \A q \in Region : y.pde[bs][q] = z.pde[bs][q]
    BY <1>6, <1>7, <1>13, <2>1
  <2>. QED
    BY <2>2, <2>3
<1>19. ChildOutside(z, y, c, r)
  <2>1. \A a \in Pages : a[1] # r => y.pte[c][a] = z.pte[c][a]
    BY <1>8, <1>9, <1>14, <1>15
  <2>2. \A q \in Region : q # r => y.pde[c][q] = z.pde[c][q]
    BY <1>6, <1>7, <1>13
  <2>. QED
    BY <2>1, <2>2 DEF ChildOutside
<1>20. ChildInside(z, y, p, c, r)
  <2>1. SUFFICES ASSUME NEW a \in Pages, a[1] = r PROVE Inherits(z, y, p, c, a)
    BY DEF ChildInside
  <2>2. y.pte[c][a] = u.pte[c][a]
    BY <1>14
  <2>3. CASE a \notin A
    <3>1. n.pte[p][a].f = NoFrame
      BY <1>1, <2>1, <2>3 DEF RegionPages, Valid
    <3>2. a # i
      BY <1>5, <3>1, NewPteIs, Sizes
    <3>3. z.pte[p][a].f = NoFrame
      BY <1>15, <3>1, <3>2
    <3>4. u.pte[c][a].f = NoFrame
      <4>1. u.pte[c][a] = z.pte[c][a]
        BY <1>8, <1>15, <2>3
      <4>. QED
        BY <2>1, <4>1 DEF Vacant
    <3>. QED
      BY <2>2, <3>3, <3>4 DEF Inherits
  <2>4. CASE a \in A
    <3>1. u.pte[c][a].f = n.pte[p][a].f
      BY <1>8, <1>10, <2>4, CopyOnWriteIs
    <3>2. CASE a = i
      <4>1. y.pte[c][a].f = t
        BY <1>5, <2>2, <3>1, <3>2, NewPteIs
      <4>. QED
        BY <1>5, <3>2, <4>1 DEF Inherits
    <3>3. CASE a # i
      BY <1>15, <2>2, <3>1, <3>3 DEF Inherits
    <3>. QED
      BY <3>2, <3>3
  <2>. QED
    BY <2>3, <2>4
<1>21. KeepsPages(z, y)
  <2>1. SUFFICES ASSUME NEW bs \in Spaces, NEW a \in Pages, z.pte[bs][a].f # NoFrame
                 PROVE  y.pte[bs][a].f = z.pte[bs][a].f
    BY DEF KeepsPages
  <2>2. CASE bs = p
    BY <1>17, <2>2 DEF ParentLasts
  <2>3. CASE bs = c
    <3>1. a[1] # r
      BY <2>1, <2>3 DEF Vacant
    <3>. QED
      BY <1>19, <2>3, <3>1 DEF ChildOutside
  <2>4. CASE bs # p /\ bs # c
    BY <1>18, <2>4 DEF OutsidersSame
  <2>. QED
    BY <2>2, <2>3, <2>4
<1>22. StaysReferenced(z, y)
  BY <1>12, <1>16, <1>21, StillReferenced
<1>23. SameData(z, y)
  <2>0. KeepsPages(z, n)
    <3>1. SUFFICES ASSUME NEW bs \in Spaces, NEW a \in Pages, z.pte[bs][a].f # NoFrame
                   PROVE  n.pte[bs][a].f = z.pte[bs][a].f
      BY DEF KeepsPages
    <3>2. bs # p \/ a # i
      BY <1>5, <3>1, NoPteIs
    <3>. QED
      BY <1>15, <3>2
  <2>1. SUFFICES ASSUME NEW f \in Frames, z.ref[f] > 0, y.ref[f] > 0
                 PROVE  y.data[f] = z.data[f] /\ (f \in y.taint <=> f \in z.taint)
    BY DEF SameData
  <2>2. n.ref[f] > 0
    BY <1>5, <2>0, <2>1, StillReferenced DEF StaysReferenced
  <2>3. u.ref[f] > 0
    <3>1. u.ref[f] = n.ref[f] + Cardinality(SharedRow(n, p, A, f))
      BY <1>3 DEF SharedDone
    <3>2. Cardinality(SharedRow(n, p, A, f)) \in Nat /\ n.ref[f] \in Nat
      BY <1>2, SharedRowIs, SoundIs DEF MayShare
    <3>. QED
      BY <2>2, <3>1, <3>2
  <2>4. n.data[f] = z.data[f] /\ (f \in n.taint <=> f \in z.taint)
    BY <1>5, <2>1, <2>2, DataAt
  <2>5. y.data[f] = u.data[f] /\ (f \in y.taint <=> f \in u.taint)
    BY <1>13, <2>1, <2>3, DataAt
  <2>. QED
    BY <1>7, <2>4, <2>5
<1>24. Costs(z, y, p, r)
  <2>1. Has(z, p, r) = 1 /\ NeedsTable(y, p, "temp") = 0
    BY <1>5, <1>7, <1>13 DEF Has, NeedsTable
  <2>2. Free(u) = Free(n)
    BY <1>7 DEF Free
  <2>3. Free(y) >= Free(u)
    BY <1>4, <1>13, FreeGrows
  <2>4. Free(y) \in Nat /\ Free(u) \in Nat /\ Free(n) \in Nat /\ Free(z) \in Nat
    BY <1>0, <1>4, <1>13, FreeCounts
  <2>5. NeedsTable(z, p, "temp") \in {0, 1}
    BY DEF NeedsTable
  <2>6. PICK b \in {0, 1} : b = NeedsTable(z, p, "temp")
    BY <2>5
  <2>7. Free(y) + 1 + b >= Free(z) + 0
    BY <1>5, <2>2, <2>3, <2>4, <2>6
  <2>. QED
    BY <2>1, <2>6, <2>7 DEF Costs
<1>. QED
  BY <1>12, <1>16, <1>17, <1>18, <1>19, <1>20, <1>22, <1>23, <1>24 DEF RegionDone

\* A turn of the loop over the regions.
LEMMA CloneRegionSound ==
    ASSUME NEW z, NEW h \in Extras, Sound(z, {}, h), NEW p \in Spaces, NEW c \in Spaces, p # c, NEW r \in Region,
           Vacant(z, c, r), TempFree(z, p) # {}, Free(z) >= Has(z, p, r) + NeedsTable(z, p, "temp"),
           NEW y, y = CloneRegion(z, p, c, r)
    PROVE  Sound(y, {}, h) /\ RegionDone(z, y, p, c, r)
<1>0. z \in Memory
  BY SoundIs
<1>1. CASE z.pde[p][r] = NoFrame
  <2>1. y = z
    BY <1>1 DEF CloneRegion
  <2>2. \A a \in Pages : a[1] = r => z.pte[p][a].f = NoFrame
    <3>1. \A a \in Pages : PteFits(z, p, a)
      BY SoundIs
    <3>. QED
      BY <1>1, <3>1 DEF PteFits
  <2>3. ChildInside(z, z, p, c, r)
    BY <2>2 DEF ChildInside, Inherits, Vacant
  <2>4. SameData(z, z) /\ StaysReferenced(z, z) /\ KeepsTables(z, z)
    BY DEF SameData, StaysReferenced, KeepsTables
  <2>5. ParentLasts(z, z, p) /\ OutsidersSame(z, z, p, c) /\ ChildOutside(z, z, c, r)
    BY DEF ParentLasts, OutsidersSame, ChildOutside
  <2>6. Costs(z, z, p, r)
    <3>1. Free(z) \in Nat /\ Has(z, p, r) = 0 /\ NeedsTable(z, p, "temp") \in {0, 1}
      BY <1>0, <1>1, FreeCounts DEF Has, NeedsTable
    <3>2. PICK b \in {0, 1}, x \in Nat : b = NeedsTable(z, p, "temp") /\ x = Free(z)
      BY <3>1
    <3>3. x + 0 + b >= x + b
      BY <3>2
    <3>. QED
      BY <3>1, <3>2, <3>3 DEF Costs
  <2>. QED
    BY <2>1, <2>3, <2>4, <2>5, <2>6 DEF RegionDone
<1>2. CASE z.pde[p][r] # NoFrame
  <2>1. PICK i, t, n, u : /\ i = TempFor(z, p) /\ t = NextFree(z) /\ n = MiInsertPage(ChildTable(z, c, r), p, i, t)
                          /\ u = Shared(n, p, c, RegionPages(n, p, r))
    OBVIOUS
  <2>2. Free(z) >= 1 + NeedsTable(z, p, "temp")
    BY <1>2 DEF Has
  <2>3. z.pde[c][r] = NoFrame
    BY DEF Vacant
  <2>4. Sound(n, {}, h) /\ WindowDone(z, n, p, c, r, i, t)
    BY <2>1, <2>2, <2>3, WindowSound
  <2>5. y = MiRemovePage(u, p, i)
    BY <1>2, <2>1 DEF CloneRegion, ChildTable, MmUnMapPageTemp
  <2>. QED
    BY <1>2, <2>1, <2>4, <2>5, SharedRegionSound
<1>. QED
  BY <1>1, <1>2

CloneDone(m, n, p, c) ==
    /\ n.sys = m.sys /\ n.dir = m.dir /\ SameData(m, n) /\ StaysReferenced(m, n) /\ KeepsTables(m, n)
    /\ ParentLasts(m, n, p) /\ OutsidersSame(m, n, p, c) /\ \A a \in Pages : Inherits(m, n, p, c, a)

LEMMA RegionTrans ==
    ASSUME NEW m, NEW k, NEW n, NEW p, NEW c
    PROVE  /\ ParentLasts(m, k, p) /\ ParentLasts(k, n, p) => ParentLasts(m, n, p)
           /\ OutsidersSame(m, k, p, c) /\ OutsidersSame(k, n, p, c) => OutsidersSame(m, n, p, c)
           /\ KeepsTables(m, k) /\ KeepsTables(k, n) => KeepsTables(m, n)
           /\ StaysReferenced(m, k) /\ StaysReferenced(k, n) => StaysReferenced(m, n)
           /\ SameData(m, k) /\ StaysReferenced(m, k) /\ SameData(k, n) => SameData(m, n)
<1>1. ParentLasts(m, k, p) /\ ParentLasts(k, n, p) => ParentLasts(m, n, p)
  BY DEF ParentLasts
<1>2. OutsidersSame(m, k, p, c) /\ OutsidersSame(k, n, p, c) => OutsidersSame(m, n, p, c)
  BY DEF OutsidersSame
<1>3. KeepsTables(m, k) /\ KeepsTables(k, n) => KeepsTables(m, n)
  BY DEF KeepsTables
<1>4. StaysReferenced(m, k) /\ StaysReferenced(k, n) => StaysReferenced(m, n)
  BY DEF StaysReferenced
<1>5. SameData(m, k) /\ StaysReferenced(m, k) /\ SameData(k, n) => SameData(m, n)
  BY DEF SameData, StaysReferenced
<1>. QED
  BY <1>1, <1>2, <1>3, <1>4, <1>5

\* Tables of the parent, by region.
LEMMA TableTotal ==
    ASSUME NEW m, NEW p
    PROVE  Cardinality({r \in Region : m.pde[p][r] # NoFrame}) = Has(m, p, "temp") + Has(m, p, "text") + Has(m, p, "pool")
<1>1. PICK P, S, T, U : /\ P = {r \in {} : m.pde[p][r] # NoFrame} /\ S = {r \in {"temp"} : m.pde[p][r] # NoFrame}
                        /\ T = {r \in {"temp", "text"} : m.pde[p][r] # NoFrame}
                        /\ U = {r \in Region : m.pde[p][r] # NoFrame}
  OBVIOUS
<1>2. P = {} /\ IsFiniteSet(P) /\ Cardinality(P) = 0
  BY <1>1, FS_EmptySet
<1>3. IsFiniteSet(S) /\ Cardinality(S) \in Nat /\ Cardinality(S) + 0 = 0 + Has(m, p, "temp")
  <2>1. \A y : y # "temp" => (y \in S <=> y \in P)
    BY <1>1
  <2>2. /\ IsFiniteSet(S) /\ Cardinality(P) \in Nat /\ Cardinality(S) \in Nat
        /\ Cardinality(S) + (IF "temp" \in P THEN 1 ELSE 0) = Cardinality(P) + (IF "temp" \in S THEN 1 ELSE 0)
    BY <1>2, <2>1, OneElement
  <2>3. "temp" \notin P /\ ("temp" \in S <=> m.pde[p]["temp"] # NoFrame)
    BY <1>1
  <2>. QED
    BY <1>2, <2>2, <2>3 DEF Has
<1>4. IsFiniteSet(T) /\ Cardinality(T) \in Nat /\ Cardinality(T) + 0 = Cardinality(S) + Has(m, p, "text")
  <2>1. \A y : y # "text" => (y \in T <=> y \in S)
    BY <1>1
  <2>2. /\ IsFiniteSet(T) /\ Cardinality(S) \in Nat /\ Cardinality(T) \in Nat
        /\ Cardinality(T) + (IF "text" \in S THEN 1 ELSE 0) = Cardinality(S) + (IF "text" \in T THEN 1 ELSE 0)
    BY <1>3, <2>1, OneElement
  <2>3. "text" \notin S /\ ("text" \in T <=> m.pde[p]["text"] # NoFrame)
    BY <1>1
  <2>. QED
    BY <2>2, <2>3 DEF Has
<1>5. Cardinality(U) \in Nat /\ Cardinality(U) + 0 = Cardinality(T) + Has(m, p, "pool")
  <2>1. \A y : y # "pool" => (y \in U <=> y \in T)
    BY <1>1 DEF Region
  <2>2. /\ IsFiniteSet(U) /\ Cardinality(T) \in Nat /\ Cardinality(U) \in Nat
        /\ Cardinality(U) + (IF "pool" \in T THEN 1 ELSE 0) = Cardinality(T) + (IF "pool" \in U THEN 1 ELSE 0)
    BY <1>4, <2>1, OneElement
  <2>3. "pool" \notin T /\ ("pool" \in U <=> m.pde[p]["pool"] # NoFrame)
    BY <1>1 DEF Region
  <2>. QED
    BY <2>2, <2>3 DEF Has
<1>6. Has(m, p, "temp") \in {0, 1} /\ Has(m, p, "text") \in {0, 1} /\ Has(m, p, "pool") \in {0, 1}
  BY DEF Has
<1>7. PICK x \in {0, 1}, y \in {0, 1}, w \in {0, 1} :
        x = Has(m, p, "temp") /\ y = Has(m, p, "text") /\ w = Has(m, p, "pool")
  BY <1>6
<1>8. Cardinality(U) = x + y + w
  BY <1>3, <1>4, <1>5, <1>7
<1>. QED
  BY <1>1, <1>7, <1>8

LEMMA VacantStays ==
    ASSUME NEW m, NEW n, NEW c, NEW r \in Region, NEW q \in Region, q # r, ChildOutside(m, n, c, r), Vacant(m, c, q)
    PROVE  Vacant(n, c, q)
BY DEF ChildOutside, Vacant

LEMMA TempFreeStays ==
    ASSUME NEW m, NEW n, NEW p, ParentLasts(m, n, p)
    PROVE  /\ TempFree(n, p) = TempFree(m, p)
           /\ \A r \in Region : r # "temp" => Has(n, p, r) = Has(m, p, r)
<1>1. TempFree(n, p) = TempFree(m, p)
  BY PageRegions DEF TempFree, Valid, ParentLasts
<1>2. \A r \in Region : r # "temp" => Has(n, p, r) = Has(m, p, r)
  BY DEF ParentLasts, Has
<1>. QED
  BY <1>1, <1>2

LEMMA CloneSound ==
    ASSUME NEW m, NEW h \in Extras, Sound(m, {}, h), NEW p \in Spaces, NEW c \in Spaces, p # c,
           Empty(m, c), TempFree(m, p) # {},
           Free(m) >= Cardinality({r \in Region : m.pde[p][r] # NoFrame}) + NeedsTable(m, p, "temp"),
           NEW k, k = CloneRegion(m, p, c, "temp"), NEW l, l = CloneRegion(k, p, c, "text"),
           NEW n, n = CloneRegion(l, p, c, "pool")
    PROVE  Sound(n, {}, h) /\ CloneDone(m, n, p, c)
<1>0. m \in Memory /\ Region = {"temp", "text", "pool"} /\ "temp" \in Region /\ "text" \in Region /\ "pool" \in Region
  BY SoundIs DEF Region
<1>1. Vacant(m, c, "temp") /\ Vacant(m, c, "text") /\ Vacant(m, c, "pool")
  BY <1>0, NoPteIs DEF Empty, Vacant
<1>2. Has(m, p, "temp") \in {0, 1} /\ Has(m, p, "text") \in {0, 1} /\ Has(m, p, "pool") \in {0, 1}
  BY DEF Has
<1>3. \A z : NeedsTable(z, p, "temp") \in {0, 1}
  BY DEF NeedsTable
<1>4. PICK x \in {0, 1}, y \in {0, 1}, w \in {0, 1} :
        x = Has(m, p, "temp") /\ y = Has(m, p, "text") /\ w = Has(m, p, "pool")
  BY <1>2
<1>5. PICK am \in {0, 1}, ak \in {0, 1}, al \in {0, 1} :
        am = NeedsTable(m, p, "temp") /\ ak = NeedsTable(k, p, "temp") /\ al = NeedsTable(l, p, "temp")
  BY <1>3
<1>6. Free(m) \in Nat
  BY <1>0, FreeCounts
<1>7. Free(m) >= x + y + w + am
  BY <1>4, <1>5, TableTotal
<1>8. Free(m) >= Has(m, p, "temp") + NeedsTable(m, p, "temp")
  <2>1. Free(m) >= x + am
    BY <1>6, <1>7
  <2>. QED
    BY <1>4, <1>5, <2>1
<1>9. Sound(k, {}, h) /\ RegionDone(m, k, p, c, "temp")
  BY <1>0, <1>1, <1>8, CloneRegionSound
<1>10. /\ k.sys = m.sys /\ k.dir = m.dir /\ SameData(m, k) /\ StaysReferenced(m, k) /\ KeepsTables(m, k)
       /\ ParentLasts(m, k, p) /\ OutsidersSame(m, k, p, c) /\ ChildOutside(m, k, c, "temp")
       /\ ChildInside(m, k, p, c, "temp") /\ Costs(m, k, p, "temp")
  BY <1>9 DEF RegionDone
<1>11. Vacant(k, c, "text") /\ Vacant(k, c, "pool")
  BY <1>0, <1>1, <1>10, VacantStays
<1>12. TempFree(k, p) # {} /\ Has(k, p, "text") = y /\ Has(k, p, "pool") = w
  BY <1>0, <1>4, <1>10, TempFreeStays
<1>13. Free(k) \in Nat
  BY <1>9, SoundIs, FreeCounts
<1>14. Free(k) >= y + w + ak
  <2>1. Free(k) + x + am >= Free(m) + ak
    BY <1>4, <1>5, <1>10 DEF Costs
  <2>. QED
    BY <1>4, <1>5, <1>6, <1>7, <1>13, <2>1
<1>15. Free(k) >= Has(k, p, "text") + NeedsTable(k, p, "temp")
  <2>1. Free(k) >= y + ak
    BY <1>13, <1>14
  <2>. QED
    BY <1>5, <1>12, <2>1
<1>16. Sound(l, {}, h) /\ RegionDone(k, l, p, c, "text")
  BY <1>0, <1>9, <1>11, <1>12, <1>15, CloneRegionSound
<1>17. /\ l.sys = k.sys /\ l.dir = k.dir /\ SameData(k, l) /\ StaysReferenced(k, l) /\ KeepsTables(k, l)
       /\ ParentLasts(k, l, p) /\ OutsidersSame(k, l, p, c) /\ ChildOutside(k, l, c, "text")
       /\ ChildInside(k, l, p, c, "text") /\ Costs(k, l, p, "text")
  BY <1>16 DEF RegionDone
<1>18. Vacant(l, c, "pool")
  BY <1>0, <1>11, <1>17, VacantStays
<1>19. TempFree(l, p) # {} /\ Has(l, p, "pool") = w
  BY <1>0, <1>12, <1>17, TempFreeStays
<1>20. Free(l) >= Has(l, p, "pool") + NeedsTable(l, p, "temp")
  <2>1. Free(k) + y + ak >= Free(k) + ak - ak + ak
    BY <1>13
  <2>2. Free(l) + y + ak >= Free(k) + al
    BY <1>5, <1>12, <1>17 DEF Costs
  <2>3. Free(l) \in Nat
    BY <1>16, SoundIs, FreeCounts
  <2>4. Free(l) >= w + al
    BY <1>13, <1>14, <2>2, <2>3
  <2>. QED
    BY <1>5, <1>19, <2>4
<1>21. Sound(n, {}, h) /\ RegionDone(l, n, p, c, "pool")
  BY <1>0, <1>16, <1>18, <1>19, <1>20, CloneRegionSound
<1>22. /\ n.sys = l.sys /\ n.dir = l.dir /\ SameData(l, n) /\ StaysReferenced(l, n) /\ KeepsTables(l, n)
       /\ ParentLasts(l, n, p) /\ OutsidersSame(l, n, p, c) /\ ChildOutside(l, n, c, "pool")
       /\ ChildInside(l, n, p, c, "pool")
  BY <1>21 DEF RegionDone
<1>23. ParentLasts(m, l, p) /\ OutsidersSame(m, l, p, c) /\ KeepsTables(m, l) /\ StaysReferenced(m, l) /\ SameData(m, l)
  BY <1>10, <1>17, RegionTrans
<1>24. ParentLasts(m, n, p) /\ OutsidersSame(m, n, p, c) /\ KeepsTables(m, n) /\ StaysReferenced(m, n) /\ SameData(m, n)
  BY <1>22, <1>23, RegionTrans
<1>25. \A a \in Pages : Inherits(m, n, p, c, a)
  <2>1. SUFFICES ASSUME NEW a \in Pages PROVE Inherits(m, n, p, c, a)
    OBVIOUS
  <2>2. a[1] \in Region
    BY PageRegions
  <2>3. CASE a[1] = "temp"
    <3>1. Inherits(m, k, p, c, a)
      BY <1>10, <2>3 DEF ChildInside
    <3>2. n.pte[c][a] = k.pte[c][a]
      BY <1>17, <1>22, <2>3 DEF ChildOutside
    <3>. QED
      BY <3>1, <3>2 DEF Inherits
  <2>4. CASE a[1] = "text"
    <3>1. Inherits(k, l, p, c, a) /\ a \notin TempPages
      BY <1>17, <2>4, PageRegions DEF ChildInside
    <3>2. n.pte[c][a] = l.pte[c][a]
      BY <1>22, <2>4 DEF ChildOutside
    <3>3. k.pte[p][a].f = m.pte[p][a].f
      BY <1>10 DEF ParentLasts
    <3>. QED
      BY <3>1, <3>2, <3>3 DEF Inherits
  <2>5. CASE a[1] = "pool"
    <3>1. Inherits(l, n, p, c, a) /\ a \notin TempPages
      BY <1>22, <2>5, PageRegions DEF ChildInside
    <3>2. l.pte[p][a].f = m.pte[p][a].f
      BY <1>23 DEF ParentLasts
    <3>. QED
      BY <3>1, <3>2 DEF Inherits
  <2>. QED
    BY <1>0, <2>2, <2>3, <2>4, <2>5
<1>26. n.sys = m.sys /\ n.dir = m.dir
  BY <1>10, <1>17, <1>22
<1>. QED
  BY <1>21, <1>24, <1>25, <1>26 DEF CloneDone
=============================================================================
