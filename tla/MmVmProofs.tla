----------------------------- MODULE MmVmProofs -----------------------------
(***************************************************************************)
(* Virtual memory for every number of frames, processes, window and pool   *)
(* pages and system PTEs, and every element size of the bitmaps: frames    *)
(* are counted and freed exactly, a writable page is private, copy on      *)
(* write is invisible, bits and PTEs agree, and every bitmap behaves as    *)
(* a set.                                                                  *)
(***************************************************************************)
EXTENDS MmMemoryProofs

-----------------------------------------------------------------------------
(* The inductive invariant.                                                 *)

\* The references of fault handlers.
HandlerRefs == [f \in Frames |-> Cardinality(Handlers(f))]

Handling == {"removed", "temp", "mapped"}
Cloning == {"clone space", "clone bits"}
Populated == {"loaded", "user", "alloc"} \cup Cloning \cup Handling

\* A frame has what was last put into a page, unless it was written past its read-only bit.
Keeps(m, f, v) == f \in m.taint \/ m.data[f] = v

\* A page is mapped and has what the process put there.
Holds(m, as, a, v) == Valid(m, as, a) /\ Keeps(m, m.pte[as][a].f, v)

\* The pages a process can use are there, except the one it is faulting on.
PagesFit(as) ==
    /\ at[as].what \in Populated =>
          \A a \in Reachable(as) :
              at[as].what \notin Handling \/ a # at[as].page => Holds(mm, as, a, priv[as][a])
    /\ at[as].what = "clone bits" =>
          \A a \in Reachable(at[as].child) : Holds(mm, at[as].child, a, priv[at[as].child][a])
    /\ at[as].what \in {"gone", "created"} => Empty(mm, as) /\ owned[as] = {}
    /\ at[as].what = "clone space" => Empty(mm, at[as].child) /\ owned[at[as].child] = {}

\* Where a fault handler is, and a clone, and an allocation.
StepFits(as) ==
    /\ at[as].what # "gone" => mm.dir[as] \in Slots
    /\ at[as].what \notin {"gone", "created", "loaded", "child"} => bitmapOf[as] \in Slots
    /\ at[as].what \in Cloning => at[as].child \in Spaces /\ at[at[as].child].what = "child"
    /\ at[as].what \in Handling =>
          /\ at[as].page \in Reachable(as) /\ mm.pde[as][at[as].page[1]] # NoFrame
          /\ at[as].old \in Frames /\ Keeps(mm, at[as].old, priv[as][at[as].page])
    /\ at[as].what \in {"removed", "temp"} => mm.pte[as][at[as].page] = NoPte
    /\ at[as].what \in {"temp", "mapped"} =>
          mm.pte[as][at[as].temp] = [f |-> at[as].old, w |-> TRUE, cow |-> FALSE]
    /\ at[as].what = "mapped" => mm.pte[as][at[as].page].w
    /\ at[as].what = "alloc" =>
          at[as].left > 0 /\ \E i \in 0 .. NPool - at[as].left : at[as].page = PoolPage(i)

\* Two clones have two children.
ChildrenFit ==
    \A p, q \in Spaces :
        at[p].what \in Cloning /\ at[q].what \in Cloning /\ at[p].child = at[q].child => p = q

\* A window page, but for the one a fault handler is using, maps no page of a program.
WindowFits(as) ==
    \A a \in TempPages :
        Valid(mm, as, a) /\ ~(at[as].what \in {"temp", "mapped"} /\ a = at[as].temp) =>
            \A bs \in Spaces, b \in UserPages : mm.pte[bs][b].f # mm.pte[as][a].f

\* A cached translation may let the program write where the tables do not, never the other way round,
\* and goes to the frame of the page.
TlbFits ==
    \A a \in DOMAIN tlb :
        /\ cur \in Spaces
        /\ ~tlb[a].w => ~mm.pte[cur][a].w
        /\ a \in Reachable(cur) => tlb[a].f = mm.pte[cur][a].f

VmInv ==
    /\ TypeOK
    /\ Sound(mm, {}, HandlerRefs)
    /\ SlotsMatchBits
    /\ \A as \in Spaces : PagesFit(as) /\ StepFits(as) /\ WindowFits(as)
    /\ ChildrenFit /\ TlbFits /\ NoUnexpectedFault

-----------------------------------------------------------------------------
(* Processes: fault handlers' references, and what a step leaves alone.     *)

HandlersOf(t, f) == {as \in Spaces : t[as].what \in Handling /\ t[as].old = f}
RefsOf(t) == [f \in Frames |-> Cardinality(HandlersOf(t, f))]

LEMMA RefsAre == HandlerRefs = RefsOf(at) /\ HandlerRefs' = RefsOf(at')
BY DEF HandlerRefs, RefsOf, Handlers, HandlersOf, Handling

LEMMA RefsType ==
    ASSUME NEW t
    PROVE  RefsOf(t) \in Extras /\ \A f \in Frames : RefsOf(t)[f] = Cardinality(HandlersOf(t, f))
<1>1. \A f \in Frames : Cardinality(HandlersOf(t, f)) \in Nat
  <2>1. SUFFICES ASSUME NEW f \in Frames PROVE Cardinality(HandlersOf(t, f)) \in Nat
    OBVIOUS
  <2>2. IsFiniteSet(HandlersOf(t, f))
    BY FiniteSizes, FS_Subset DEF HandlersOf
  <2>. QED
    BY <2>2, FS_CardinalityType
<1>. QED
  BY <1>1 DEF RefsOf, Extras

\* A handler has a reference.
LEMMA HandlerCounts ==
    ASSUME NEW t, NEW as \in Spaces, t[as].what \in Handling, t[as].old \in Frames
    PROVE  RefsOf(t)[t[as].old] > 0
<1>0. PICK f \in Frames : f = t[as].old
  OBVIOUS
<1>1. PICK S : S = HandlersOf(t, f)
  OBVIOUS
<1>2. as \in S
  BY <1>0, <1>1 DEF HandlersOf
<1>3. IsFiniteSet(S)
  BY <1>1, FiniteSizes, FS_Subset DEF HandlersOf
<1>4. Cardinality(S) \in Nat /\ Cardinality(S) # 0
  BY <1>2, <1>3, FS_CardinalityType, FS_EmptySet
<1>5. RefsOf(t)[f] = Cardinality(S)
  BY <1>1, RefsType
<1>6. RefsOf(t)[f] > 0
  BY <1>4, <1>5
<1>. QED
  BY <1>0, <1>6

\* Nobody takes or drops a handler's reference.
SameHandlers(s, t) ==
    \A bs \in Spaces : /\ s[bs].what \in Handling <=> t[bs].what \in Handling
                       /\ s[bs].what \in Handling => s[bs].old = t[bs].old

LEMMA RefsSame ==
    ASSUME NEW s, NEW t, SameHandlers(s, t)
    PROVE  RefsOf(t) = RefsOf(s)
<1>1. \A f : HandlersOf(t, f) = HandlersOf(s, f)
  BY DEF SameHandlers, HandlersOf
<1>. QED
  BY <1>1 DEF RefsOf

\* One process becomes a handler.
Joins(s, t, as, f) ==
    /\ s[as].what \notin Handling /\ t[as].what \in Handling /\ t[as].old = f
    /\ \A bs \in Spaces : bs # as => t[bs] = s[bs]

LEMMA RefsUp ==
    ASSUME NEW s, NEW t, NEW as \in Spaces, NEW f \in Frames, Joins(s, t, as, f)
    PROVE  RefsOf(t) = Up(RefsOf(s), f)
<1>1. SUFFICES ASSUME NEW g \in Frames PROVE RefsOf(t)[g] = Up(RefsOf(s), f)[g]
  <2>1. Up(RefsOf(s), f) \in Extras /\ RefsOf(t) \in Extras
    BY RefsType, UpIs
  <2>. QED
    BY <1>1, <2>1 DEF Extras
<1>2. PICK S, T : S = HandlersOf(s, g) /\ T = HandlersOf(t, g)
  OBVIOUS
<1>3. IsFiniteSet(S)
  BY <1>2, FiniteSizes, FS_Subset DEF HandlersOf
<1>4. \A y : y # as => (y \in T <=> y \in S)
  BY <1>2 DEF HandlersOf, Joins
<1>5. as \notin S /\ (as \in T <=> f = g)
  BY <1>2 DEF HandlersOf, Joins
<1>6. /\ Cardinality(S) \in Nat /\ Cardinality(T) \in Nat
      /\ Cardinality(T) + (IF as \in S THEN 1 ELSE 0) = Cardinality(S) + (IF as \in T THEN 1 ELSE 0)
  BY <1>3, <1>4, OneElement
<1>7. Cardinality(T) = Cardinality(S) + Is(f, g)
  <2>0. PICK x \in Nat, y \in Nat : x = Cardinality(S) /\ y = Cardinality(T)
    BY <1>6
  <2>1. CASE f = g
    <3>1. y + 0 = x + 1
      BY <1>5, <1>6, <2>0, <2>1
    <3>2. y = x + 1 /\ Is(f, g) = 1
      BY <2>1, <3>1 DEF Is
    <3>. QED
      BY <2>0, <3>2
  <2>2. CASE f # g
    <3>1. y + 0 = x + 0
      BY <1>5, <1>6, <2>0, <2>2
    <3>2. y = x + 0 /\ Is(f, g) = 0
      BY <2>2, <3>1 DEF Is
    <3>. QED
      BY <2>0, <3>2
  <2>. QED
    BY <2>1, <2>2
<1>8. RefsOf(t)[g] = Cardinality(T) /\ RefsOf(s)[g] = Cardinality(S)
  BY <1>2, RefsType
<1>9. UpFits(RefsOf(s), f, g)
  BY RefsType, UpAt
<1>. QED
  BY <1>7, <1>8, <1>9 DEF UpFits

-----------------------------------------------------------------------------
(* What a step leaves alone of the other processes.                        *)

\* What was put into a frame is still there, or the frame is tainted.
FrameLasts(m, n, f) == f \in n.taint \/ (f \notin m.taint /\ n.data[f] = m.data[f])
DataLasts(m, n) == \A f \in Frames : m.ref[f] > 0 /\ n.ref[f] > 0 => FrameLasts(m, n, f)
Stays(m, n, as) ==
    /\ \A a \in Pages : n.pte[as][a] = m.pte[as][a]
    /\ \A r \in Region : n.pde[as][r] = m.pde[as][r]
    /\ n.dir[as] = m.dir[as]

LEMMA SameDataLasts ==
    ASSUME NEW m, NEW n, SameData(m, n)
    PROVE  DataLasts(m, n)
BY DEF SameData, DataLasts, FrameLasts

LEMMA HoldsLasts ==
    ASSUME NEW m, NEW h \in Extras, Sound(m, {}, h), NEW n, NEW g \in Extras, Sound(n, {}, g), DataLasts(m, n),
           NEW as \in Spaces, NEW a \in Pages, NEW bs \in Spaces, NEW v, Holds(m, as, a, v),
           n.pte[bs][a].f = m.pte[as][a].f
    PROVE  Holds(n, bs, a, v)
<1>1. PICK f : f = m.pte[as][a].f
  OBVIOUS
<1>2. f # NoFrame /\ n.pte[bs][a].f = f /\ Keeps(m, f, v)
  BY <1>1 DEF Holds, Valid
<1>3. f \in Frames
  <2>1. m \in Memory
    BY SoundIs
  <2>. QED
    BY <1>1, <1>2, <2>1, EntryTypes
<1>4. m.ref[f] > 0 /\ n.ref[f] > 0
  BY <1>1, <1>2, MappedReferenced
<1>5. FrameLasts(m, n, f)
  BY <1>3, <1>4 DEF DataLasts
<1>. QED
  BY <1>2, <1>5 DEF Holds, Valid, Keeps, FrameLasts

LEMMA OldLasts ==
    ASSUME NEW m, NEW h \in Extras, Sound(m, {}, h), NEW n, NEW g \in Extras, Sound(n, {}, g), DataLasts(m, n),
           NEW f \in Frames, NEW v, Keeps(m, f, v), h[f] > 0, g[f] > 0
    PROVE  Keeps(n, f, v)
<1>1. m.ref[f] > 0 /\ n.ref[f] > 0
  BY MappedReferenced
<1>2. FrameLasts(m, n, f)
  BY <1>1 DEF DataLasts
<1>. QED
  BY <1>2 DEF Keeps, FrameLasts

LEMMA InvIs ==
    ASSUME VmInv
    PROVE  /\ TypeOK /\ Sound(mm, {}, HandlerRefs) /\ SlotsMatchBits /\ ChildrenFit /\ TlbFits /\ NoUnexpectedFault
           /\ \A as \in Spaces : PagesFit(as) /\ StepFits(as) /\ WindowFits(as)
           /\ HandlerRefs \in Extras /\ mm \in Memory
BY RefsAre, RefsType, SoundIs DEF VmInv

\* Nothing of a process changes.
Idle(bs) == at'[bs] = at[bs] /\ owned'[bs] = owned[bs] /\ bitmapOf'[bs] = bitmapOf[bs] /\ priv'[bs] = priv[bs]
Bystander(bs) == Idle(bs) /\ Stays(mm, mm', bs)

LEMMA ReachablePages ==
    ASSUME TypeOK, NEW as \in Spaces
    PROVE  Reachable(as) \subseteq UserPages /\ Reachable(as) \subseteq Pages /\ Text \in Reachable(as)
<1>1. owned[as] \subseteq 0 .. NPool - 1
  BY DEF TypeOK
<1>2. \A i \in owned[as] : PoolPage(i) \in UserPages
  BY <1>1, PageRegions
<1>3. UserPages \subseteq Pages /\ Text \in UserPages
  BY PageRegions
<1>. QED
  BY <1>2, <1>3 DEF Reachable

\* What the pages of a process have, and what a handler keeps, stays.
PagesLast(m, n, bs) == \A a \in Pages : \A v : Holds(m, bs, a, v) => Holds(n, bs, a, v)
OldsStay(m, n, h, g) == \A f \in Frames : \A v : h[f] > 0 /\ g[f] > 0 /\ Keeps(m, f, v) => Keeps(n, f, v)

LEMMA IdleFits ==
    ASSUME VmInv, OldsStay(mm, mm', HandlerRefs, HandlerRefs'),
           NEW bs \in Spaces, Bystander(bs), PagesLast(mm, mm', bs),
           at[bs].what \in Cloning => Bystander(at[bs].child) /\ PagesLast(mm, mm', at[bs].child)
    PROVE  PagesFit(bs)' /\ StepFits(bs)'
<1>0. TypeOK /\ PagesFit(bs) /\ StepFits(bs)
  BY InvIs
<1>1. PICK m, n, h, g : m = mm /\ n = mm' /\ h = HandlerRefs /\ g = HandlerRefs'
  OBVIOUS
<1>2. OldsStay(m, n, h, g) /\ PagesLast(m, n, bs)
  BY <1>1
<1>3. /\ at'[bs] = at[bs] /\ owned'[bs] = owned[bs] /\ bitmapOf'[bs] = bitmapOf[bs] /\ priv'[bs] = priv[bs]
      /\ Stays(m, n, bs) /\ Reachable(bs)' = Reachable(bs)
  BY <1>1 DEF Bystander, Idle, Reachable
<1>4. \A a \in Pages : n.pte[bs][a] = m.pte[bs][a]
  BY <1>3 DEF Stays
<1>5. ASSUME NEW a \in Pages, NEW v, Holds(m, bs, a, v) PROVE Holds(n, bs, a, v)
  BY <1>2, <1>5 DEF PagesLast
<1>6. Empty(m, bs) => Empty(n, bs)
  BY <1>3 DEF Empty, Stays
<1>7. Reachable(bs) \subseteq Pages
  BY <1>0, ReachablePages
<1>8. ASSUME at[bs].what \in Cloning
      PROVE  /\ at[bs].child \in Spaces /\ at[at[bs].child].what = "child" /\ at'[at[bs].child].what = "child"
             /\ owned'[at[bs].child] = owned[at[bs].child] /\ priv'[at[bs].child] = priv[at[bs].child]
             /\ Empty(m, at[bs].child) => Empty(n, at[bs].child)
             /\ \A a \in Reachable(at[bs].child) : a \in Pages /\ n.pte[at[bs].child][a] = m.pte[at[bs].child][a]
  <2>1. at[bs].child \in Spaces /\ at[at[bs].child].what = "child"
    BY <1>0, <1>8 DEF StepFits
  <2>2. PICK c \in Spaces : c = at[bs].child
    BY <2>1
  <2>3. Idle(c) /\ Stays(m, n, c)
    BY <1>1, <1>8, <2>2 DEF Bystander
  <2>4. Reachable(c) \subseteq Pages
    BY <1>0, ReachablePages
  <2>5. Empty(m, c) => Empty(n, c)
    BY <2>3 DEF Empty, Stays
  <2>6. \A a \in Reachable(c) : a \in Pages /\ n.pte[c][a] = m.pte[c][a]
    BY <2>3, <2>4 DEF Stays
  <2>. QED
    BY <2>1, <2>2, <2>3, <2>5, <2>6 DEF Idle
<1>9. PagesFit(bs)'
  <2>1. ASSUME at[bs].what \in Populated, NEW a \in Reachable(bs), at[bs].what \notin Handling \/ a # at[bs].page
        PROVE  Holds(n, bs, a, priv[bs][a])
    <3>1. Holds(m, bs, a, priv[bs][a])
      BY <1>0, <1>1, <2>1 DEF PagesFit
    <3>. QED
      BY <1>5, <1>7, <3>1
  <2>2. ASSUME at[bs].what = "clone bits", NEW a \in Reachable(at[bs].child)
        PROVE  Holds(n, at[bs].child, a, priv[at[bs].child][a])
    <3>1. Holds(m, at[bs].child, a, priv[at[bs].child][a])
      BY <1>0, <1>1, <2>2 DEF PagesFit
    <3>2. at[bs].what \in Cloning /\ a \in Pages
      BY <1>8, <2>2 DEF Cloning
    <3>3. PagesLast(m, n, at[bs].child)
      BY <1>1, <3>2
    <3>. QED
      BY <3>1, <3>2, <3>3 DEF PagesLast
  <2>3. at[bs].what \in {"gone", "created"} => Empty(n, bs) /\ owned'[bs] = {}
    BY <1>0, <1>1, <1>3, <1>6 DEF PagesFit
  <2>4. at[bs].what = "clone space" => Empty(n, at[bs].child) /\ owned'[at[bs].child] = {}
    BY <1>0, <1>1, <1>8 DEF PagesFit, Cloning
  <2>5. at[bs].what = "clone bits" =>
          \A a \in {Text} \cup {PoolPage(i) : i \in owned'[at[bs].child]} :
              Holds(n, at[bs].child, a, priv'[at[bs].child][a])
    <3>1. SUFFICES ASSUME at[bs].what = "clone bits"
                   PROVE  \A a \in {Text} \cup {PoolPage(i) : i \in owned'[at[bs].child]} :
                              Holds(n, at[bs].child, a, priv'[at[bs].child][a])
      OBVIOUS
    <3>2. owned'[at[bs].child] = owned[at[bs].child] /\ priv'[at[bs].child] = priv[at[bs].child]
      BY <1>8, <3>1 DEF Cloning
    <3>. QED
      BY <2>2, <3>1, <3>2 DEF Reachable
  <2>6. at[bs].what \in Populated =>
          \A a \in {Text} \cup {PoolPage(i) : i \in owned'[bs]} :
              at[bs].what \notin Handling \/ a # at[bs].page => Holds(n, bs, a, priv[bs][a])
    BY <1>3, <2>1 DEF Reachable
  <2>. QED
    BY <1>1, <1>3, <2>3, <2>4, <2>5, <2>6 DEF PagesFit, Reachable
<1>10. StepFits(bs)'
  <2>1. n.dir[bs] = m.dir[bs] /\ \A r \in Region : n.pde[bs][r] = m.pde[bs][r]
    BY <1>3 DEF Stays
  <2>2. at[bs].what \in Cloning => at[bs].child \in Spaces /\ at'[at[bs].child].what = "child"
    BY <1>8
  <2>3. ASSUME at[bs].what \in Handling
        PROVE  /\ at[bs].page \in Reachable(bs) /\ n.pde[bs][at[bs].page[1]] # NoFrame
               /\ at[bs].old \in Frames /\ Keeps(n, at[bs].old, priv[bs][at[bs].page])
    <3>1. /\ at[bs].page \in Reachable(bs) /\ m.pde[bs][at[bs].page[1]] # NoFrame
          /\ at[bs].old \in Frames /\ Keeps(m, at[bs].old, priv[bs][at[bs].page])
      BY <1>0, <1>1, <2>3 DEF StepFits
    <3>2. at[bs].page[1] \in Region
      BY <1>7, <3>1, PageRegions
    <3>3. h[at[bs].old] > 0 /\ g[at[bs].old] > 0
      BY <1>1, <1>3, <2>3, <3>1, RefsAre, HandlerCounts
    <3>4. Keeps(n, at[bs].old, priv[bs][at[bs].page])
      BY <1>2, <3>1, <3>3 DEF OldsStay
    <3>. QED
      BY <2>1, <3>1, <3>2, <3>4
  <2>4. at[bs].page \in Pages /\ at[bs].temp \in Pages
    BY <1>0, PageRegions DEF TypeOK, Doings
  <2>5. /\ at[bs].what \in {"removed", "temp"} => n.pte[bs][at[bs].page] = NoPte
        /\ at[bs].what \in {"temp", "mapped"} =>
              n.pte[bs][at[bs].temp] = [f |-> at[bs].old, w |-> TRUE, cow |-> FALSE]
        /\ at[bs].what = "mapped" => n.pte[bs][at[bs].page].w
    BY <1>0, <1>1, <1>4, <2>4 DEF StepFits
  <2>6. at[bs].what = "alloc" => at[bs].left > 0 /\ \E i \in 0 .. NPool - at[bs].left : at[bs].page = PoolPage(i)
    BY <1>0 DEF StepFits
  <2>7. /\ at[bs].what # "gone" => n.dir[bs] \in Slots
        /\ at[bs].what \notin {"gone", "created", "loaded", "child"} => bitmapOf'[bs] \in Slots
    BY <1>0, <1>1, <1>3, <2>1 DEF StepFits
  <2>8. at[bs].what \in Handling => at[bs].page \in Reachable(bs)'
    BY <1>3, <2>3
  <2>. QED
    BY <1>1, <1>3, <2>2, <2>3, <2>5, <2>6, <2>7, <2>8 DEF StepFits
<1>. QED
  BY <1>9, <1>10

LEMMA BystanderFits ==
    ASSUME VmInv, Sound(mm', {}, HandlerRefs'), DataLasts(mm, mm'), NEW bs \in Spaces, Bystander(bs),
           at[bs].what \in Cloning => Bystander(at[bs].child)
    PROVE  PagesFit(bs)' /\ StepFits(bs)'
<1>1. PICK m, n, h, g : m = mm /\ n = mm' /\ h = HandlerRefs /\ g = HandlerRefs'
  OBVIOUS
<1>2. h \in Extras /\ g \in Extras /\ Sound(m, {}, h) /\ Sound(n, {}, g) /\ DataLasts(m, n) /\ StepFits(bs)
  BY <1>1, InvIs, RefsAre, RefsType
<1>3. ASSUME NEW cs \in Spaces, Bystander(cs) PROVE PagesLast(m, n, cs)
  <2>1. \A a \in Pages : n.pte[cs][a].f = m.pte[cs][a].f
    BY <1>1, <1>3 DEF Bystander, Stays
  <2>2. SUFFICES ASSUME NEW a \in Pages, NEW v, Holds(m, cs, a, v) PROVE Holds(n, cs, a, v)
    BY DEF PagesLast
  <2>. QED
    BY <1>2, <2>1, <2>2, HoldsLasts
<1>4. OldsStay(m, n, h, g)
  <2>1. SUFFICES ASSUME NEW f \in Frames, NEW v, h[f] > 0, g[f] > 0, Keeps(m, f, v) PROVE Keeps(n, f, v)
    BY DEF OldsStay
  <2>. QED
    BY <1>2, <2>1, OldLasts
<1>5. at[bs].what \in Cloning => at[bs].child \in Spaces
  BY <1>2 DEF StepFits
<1>. QED
  BY <1>1, <1>3, <1>4, <1>5, IdleFits

\* Frames of programs: none but those of before and fresh ones.
Program(m, f) == \E bs \in Spaces, b \in UserPages : m.pte[bs][b].f = f
NewPrograms(m, n) == \A f \in Frames : Program(n, f) => Program(m, f) \/ m.ref[f] = 0

LEMMA WindowStays ==
    ASSUME VmInv, NewPrograms(mm, mm'), NEW as \in Spaces,
           \A a \in TempPages : mm'.pte[as][a] = mm.pte[as][a] \/ mm'.pte[as][a].f = NoFrame,
           at[as].what \in {"temp", "mapped"} => at'[as].what \in {"temp", "mapped"} /\ at'[as].temp = at[as].temp
    PROVE  WindowFits(as)'
<1>1. PICK m, n : m = mm /\ n = mm'
  OBVIOUS
<1>2. SUFFICES ASSUME NEW a \in TempPages, Valid(n, as, a), ~(at'[as].what \in {"temp", "mapped"} /\ a = at'[as].temp),
                      NEW bs \in Spaces, NEW b \in UserPages, n.pte[bs][b].f = n.pte[as][a].f
               PROVE  FALSE
  BY <1>1 DEF WindowFits
<1>3. n.pte[as][a] = m.pte[as][a] /\ m.pte[as][a].f # NoFrame /\ a \in Pages
  BY <1>1, <1>2, PageRegions DEF Valid
<1>4. m \in Memory /\ Sound(m, {}, HandlerRefs) /\ HandlerRefs \in Extras
  BY <1>1, InvIs
<1>5. PICK f \in Frames : f = m.pte[as][a].f
  BY <1>3, <1>4, EntryTypes
<1>6. m.ref[f] > 0
  BY <1>3, <1>4, <1>5, MappedReferenced
<1>7. Program(m, f)
  <2>1. Program(n, f)
    BY <1>2, <1>3, <1>5 DEF Program
  <2>2. NewPrograms(m, n)
    BY <1>1
  <2>3. m.ref[f] # 0
    BY <1>6
  <2>. QED
    BY <2>1, <2>2, <2>3 DEF NewPrograms
<1>8. PICK cs \in Spaces, c \in UserPages : m.pte[cs][c].f = f
  BY <1>7 DEF Program
<1>9. ~(at[as].what \in {"temp", "mapped"} /\ a = at[as].temp)
  BY <1>2
<1>10. WindowFits(as)
  BY InvIs
<1>. QED
  BY <1>1, <1>3, <1>5, <1>8, <1>9, <1>10 DEF WindowFits, Valid

LEMMA SamePrograms ==
    ASSUME NEW m, NEW n,
           \A bs \in Spaces, b \in UserPages : n.pte[bs][b].f = m.pte[bs][b].f \/ n.pte[bs][b].f = NoFrame
    PROVE  NewPrograms(m, n)
BY Sizes DEF NewPrograms, Program

\* The translations that stay in the TLB are those of before, of pages that have not moved.
TlbLasts ==
    /\ cur' = cur /\ \A a \in DOMAIN tlb' : a \in DOMAIN tlb /\ tlb'[a] = tlb[a]
    /\ cur \in Spaces => \A a \in DOMAIN tlb' :
          /\ mm'.pte[cur][a].w => mm.pte[cur][a].w
          /\ a \in Reachable(cur)' => a \in Reachable(cur) /\ mm'.pte[cur][a].f = mm.pte[cur][a].f

LEMMA TlbStays ==
    ASSUME VmInv, TlbLasts
    PROVE  TlbFits' /\ DOMAIN tlb' \subseteq UserPages
           /\ \A a \in DOMAIN tlb' : tlb'[a] \in [f : Frames \cup {NoFrame}, w : BOOLEAN]
<1>1. TlbFits /\ TypeOK
  BY InvIs
<1>2. DOMAIN tlb' \subseteq UserPages /\ \A a \in DOMAIN tlb' : tlb'[a] \in [f : Frames \cup {NoFrame}, w : BOOLEAN]
  BY <1>1 DEF TypeOK, TlbLasts
<1>3. TlbFits'
  <2>1. SUFFICES ASSUME NEW a \in DOMAIN tlb'
                 PROVE  /\ cur' \in Spaces
                        /\ ~tlb'[a].w => ~mm'.pte[cur'][a].w
                        /\ a \in Reachable(cur)' => tlb'[a].f = mm'.pte[cur'][a].f
    BY DEF TlbFits
  <2>2. a \in DOMAIN tlb /\ tlb'[a] = tlb[a] /\ cur' = cur
    BY DEF TlbLasts
  <2>3. /\ cur \in Spaces
        /\ ~tlb[a].w => ~mm.pte[cur][a].w
        /\ a \in Reachable(cur) => tlb[a].f = mm.pte[cur][a].f
    BY <1>1, <2>2 DEF TlbFits
  <2>4. /\ mm'.pte[cur][a].w => mm.pte[cur][a].w
        /\ a \in Reachable(cur)' => a \in Reachable(cur) /\ mm'.pte[cur][a].f = mm.pte[cur][a].f
    BY <1>1, <2>2, <2>3 DEF TlbLasts, TlbFits
  <2>. QED
    BY <2>2, <2>3, <2>4
<1>. QED
  BY <1>2, <1>3

LEMMA NoTlbFits ==
    ASSUME tlb' = NoTlb
    PROVE  TlbFits' /\ DOMAIN tlb' \subseteq UserPages
           /\ \A a \in DOMAIN tlb' : tlb'[a] \in [f : Frames \cup {NoFrame}, w : BOOLEAN]
<1>1. DOMAIN tlb' = {}
  BY DEF NoTlb
<1>. QED
  BY <1>1 DEF TlbFits

\* No clone starts.
LEMMA ChildrenStay ==
    ASSUME VmInv,
           \A bs \in Spaces : at'[bs].what \in Cloning => at[bs].what \in Cloning /\ at'[bs].child = at[bs].child
    PROVE  ChildrenFit'
<1>1. ChildrenFit
  BY InvIs
<1>2. SUFFICES ASSUME NEW p \in Spaces, NEW q \in Spaces, at'[p].what \in Cloning, at'[q].what \in Cloning,
                      at'[p].child = at'[q].child
               PROVE  p = q
  BY DEF ChildrenFit
<1>. QED
  BY <1>1, <1>2 DEF ChildrenFit

LEMMA DoingIs ==
    ASSUME NEW w \in Steps
    PROVE  /\ Doing(w) \in Doings /\ Doing(w).what = w /\ Doing(w).child = System /\ Doing(w).page = Text
           /\ Doing(w).left = 0 /\ Doing(w).old = NoFrame
<1>1. <<"temp", 0>> \in TempPages /\ Text \in UserPages /\ 0 \in 0 .. NPool
  BY Sizes, PageRegions
<1>. QED
  BY <1>1 DEF Doing, Doings

\* What everything but a process's own part of the invariant needs of a step.
LEMMA Assembled ==
    ASSUME TypeOK', Sound(mm', {}, HandlerRefs'), SlotsMatchBits', ChildrenFit', TlbFits', NoUnexpectedFault',
           \A as \in Spaces : PagesFit(as)' /\ StepFits(as)' /\ WindowFits(as)'
    PROVE  VmInv'
BY DEF VmInv

\* The machine stops; a step that changes neither the memory nor a process.
LEMMA NothingMoves ==
    ASSUME VmInv, mm' = mm, sysBits' = sysBits, poolBits' = poolBits, bitmapOf' = bitmapOf, owned' = owned, at' = at,
           priv' = priv
    PROVE  /\ Sound(mm', {}, HandlerRefs') /\ SlotsMatchBits' /\ ChildrenFit'
           /\ \A as \in Spaces : PagesFit(as)' /\ StepFits(as)' /\ WindowFits(as)'
<1>1. Sound(mm', {}, HandlerRefs')
  <2>1. HandlerRefs' = HandlerRefs
    BY RefsAre
  <2>. QED
    BY <2>1, InvIs
<1>2. SlotsMatchBits' /\ ChildrenFit'
  <2>1. SlotsMatchBits /\ ChildrenFit
    BY InvIs
  <2>. QED
    BY <2>1 DEF SlotsMatchBits, ChildrenFit
<1>3. DataLasts(mm, mm') /\ \A bs : Bystander(bs)
  BY DEF DataLasts, FrameLasts, Bystander, Idle, Stays
<1>4. ASSUME NEW as \in Spaces PROVE PagesFit(as)' /\ StepFits(as)' /\ WindowFits(as)'
  <2>1. PagesFit(as)' /\ StepFits(as)'
    BY <1>1, <1>3, BystanderFits
  <2>2. WindowFits(as)'
    BY InvIs DEF WindowFits
  <2>. QED
    BY <2>1, <2>2
<1>. QED
  BY <1>1, <1>2, <1>4

LEMMA BugCheckFits ==
    ASSUME VmInv, calls' \in 0 .. MaxCalls, KeBugCheck("memory") \/ KeBugCheck("bit")
    PROVE  VmInv'
<1>1. /\ mm' = mm /\ sysBits' = sysBits /\ poolBits' = poolBits /\ bitmapOf' = bitmapOf /\ owned' = owned /\ at' = at
      /\ priv' = priv /\ cur' = cur /\ tlb' = tlb /\ stopped' \in {"memory", "bit"}
  BY DEF KeBugCheck
<1>2. /\ Sound(mm', {}, HandlerRefs') /\ SlotsMatchBits' /\ ChildrenFit'
      /\ \A as \in Spaces : PagesFit(as)' /\ StepFits(as)' /\ WindowFits(as)'
  BY <1>1, NothingMoves
<1>3. TlbFits'
  <2>1. TlbLasts
    BY <1>1 DEF TlbLasts, Reachable
  <2>. QED
    BY <2>1, TlbStays
<1>4. TypeOK' /\ NoUnexpectedFault'
  BY <1>1, InvIs DEF TypeOK, NoUnexpectedFault
<1>. QED
  BY <1>2, <1>3, <1>4, Assembled

LEMMA AttachFits ==
    ASSUME VmInv, calls' \in 0 .. MaxCalls, NEW as \in Spaces \cup {System}, MmAttachToAddressSpace(as)
    PROVE  VmInv'
<1>1. /\ mm' = mm /\ sysBits' = sysBits /\ poolBits' = poolBits /\ bitmapOf' = bitmapOf /\ owned' = owned /\ at' = at
      /\ priv' = priv /\ cur' = as /\ tlb' = NoTlb /\ stopped' = stopped
  BY DEF MmAttachToAddressSpace
<1>2. /\ Sound(mm', {}, HandlerRefs') /\ SlotsMatchBits' /\ ChildrenFit'
      /\ \A bs \in Spaces : PagesFit(bs)' /\ StepFits(bs)' /\ WindowFits(bs)'
  BY <1>1, NothingMoves
<1>3. /\ TlbFits' /\ DOMAIN tlb' \subseteq UserPages
      /\ \A a \in DOMAIN tlb' : tlb'[a] \in [f : Frames \cup {NoFrame}, w : BOOLEAN]
  BY <1>1, NoTlbFits
<1>4. TypeOK' /\ NoUnexpectedFault'
  BY <1>1, <1>3, InvIs DEF TypeOK, NoUnexpectedFault
<1>. QED
  BY <1>2, <1>3, <1>4, Assembled

-----------------------------------------------------------------------------
(* The steps: system pages.                                                 *)

LEMMA SlotTaken ==
    ASSUME VmInv, ~NoSystemPte, NEW s, s = FreeSlot, NEW n, n = WithSys(mm, s), MmAllocateSystemPtes
    PROVE  /\ s \in Slots /\ Sound(n, {}, HandlerRefs) /\ SysDone(mm, n, s)
           /\ sysBits' \in Bitmaps(NSys) /\ Ones(sysBits') = {t \in Slots : n.sys[t] # NoFrame}
<1>0. /\ sysBits \in Bitmaps(NSys) /\ Ones(sysBits) = {t \in Slots : mm.sys[t] # NoFrame}
      /\ Sound(mm, {}, HandlerRefs) /\ HandlerRefs \in Extras /\ mm \in Memory
  BY InvIs DEF TypeOK, SlotsMatchBits
<1>1. NSys \in Nat /\ 1 \in Nat
  BY Sizes
<1>2. s = BmBitmapScan(sysBits, 0, 1, FALSE) /\ s # BITMAP_ERROR /\ Free(mm) # 0
  BY DEF FreeSlot, NoSystemPte
<1>3. s \in 0 .. NSys - 1 /\ Run(s, 1) \cap Ones(sysBits) = {}
  <2>1. PICK b, one : b = sysBits /\ one = 1
    OBVIOUS
  <2>2. BmBitmapScan(b, 0, one, FALSE) # BITMAP_ERROR /\ one \in Nat /\ b \in Bitmaps(NSys)
    BY <1>0, <1>2, <2>1
  <2>3. /\ BmBitmapScan(b, 0, one, FALSE) \in 0 .. NSys - one
        /\ Run(BmBitmapScan(b, 0, one, FALSE), one) \cap Ones(b) = {}
    BY <1>1, <2>2, ScanFinds
  <2>. QED
    BY <1>2, <2>1, <2>3
<1>4. s \in Int /\ Run(s, 1) = {s} /\ s \in Slots
  BY <1>3 DEF Run, Slots
<1>5. mm.sys[s] = NoFrame
  BY <1>0, <1>3, <1>4
<1>6. mm.free # {}
  BY <1>0, <1>2, FreeCounts
<1>7. Sound(n, {}, HandlerRefs) /\ SysDone(mm, n, s)
  BY <1>0, <1>4, <1>5, <1>6, SysSound
<1>8. sysBits' \in Bitmaps(NSys) /\ Ones(sysBits') = Ones(sysBits) \cup {s}
  <2>1. PICK b, c, one : b = sysBits /\ c = sysBits' /\ one = 1
    OBVIOUS
  <2>2. b \in Bitmaps(NSys) /\ one \in Nat /\ s = BmBitmapScan(b, 0, one, FALSE) /\ Run(s, one) = {s}
    BY <1>0, <1>2, <1>4, <2>1
  <2>3. c = ScanAndFlipped(b, 0, one, FALSE)
    BY <2>1 DEF MmAllocateSystemPtes
  <2>4. Takes(b, c, NSys, s, one)
    BY <1>1, <1>2, <2>2, <2>3, TakeRun
  <2>. QED
    BY <2>1, <2>2, <2>4 DEF Takes
<1>9. n.sys[s] # NoFrame /\ \A t \in Slots : t # s => n.sys[t] = mm.sys[t]
  BY <1>7 DEF SysDone, SlotsAgreeBut
<1>10. Ones(sysBits') = {t \in Slots : n.sys[t] # NoFrame}
  BY <1>0, <1>4, <1>8, <1>9
<1>. QED
  BY <1>4, <1>7, <1>8, <1>10

\* Pages, page tables and contents are as before.
PagesSame(m, n) == n.pte = m.pte /\ n.pde = m.pde /\ n.data = m.data /\ n.taint = m.taint

LEMMA PagesSameFits ==
    ASSUME VmInv, PagesSame(mm, mm'), owned' = owned, cur' = cur, tlb' = tlb
    PROVE  /\ DataLasts(mm, mm') /\ TlbFits' /\ DOMAIN tlb' \subseteq UserPages
           /\ \A a \in DOMAIN tlb' : tlb'[a] \in [f : Frames \cup {NoFrame}, w : BOOLEAN]
           /\ \A as \in Spaces : (at[as].what \in {"temp", "mapped"} => at'[as] = at[as]) => WindowFits(as)'
<1>1. DataLasts(mm, mm')
  BY DEF DataLasts, FrameLasts, PagesSame
<1>2. TlbLasts
  BY DEF TlbLasts, PagesSame, Reachable
<1>3. /\ TlbFits' /\ DOMAIN tlb' \subseteq UserPages
      /\ \A a \in DOMAIN tlb' : tlb'[a] \in [f : Frames \cup {NoFrame}, w : BOOLEAN]
  BY <1>2, TlbStays
<1>4. NewPrograms(mm, mm')
  BY DEF NewPrograms, Program, PagesSame
<1>5. ASSUME NEW as \in Spaces, at[as].what \in {"temp", "mapped"} => at'[as] = at[as] PROVE WindowFits(as)'
  BY <1>4, <1>5, WindowStays DEF PagesSame
<1>. QED
  BY <1>1, <1>3, <1>5

\* A step that takes a system page, as far as it is the same for all of them.
DirectoryMade(as, t) ==
    /\ at' = t /\ owned' = owned /\ bitmapOf' = bitmapOf /\ priv' = priv /\ PagesSame(mm, mm')
    /\ mm'.dir[as] \in Slots /\ \A bs \in Spaces : bs # as => mm'.dir[bs] = mm.dir[bs]

LEMMA DirectoryFits ==
    ASSUME VmInv, calls' \in 0 .. MaxCalls, ~NoSystemPte, NEW as \in Spaces, NEW t \in [Spaces -> Doings],
           MmCreateProcessAddressSpace(as, t), SameHandlers(at, t),
           \A bs \in Spaces : at[bs].what \in {"temp", "mapped"} => t[bs] = at[bs]
    PROVE  /\ TypeOK' /\ Sound(mm', {}, HandlerRefs') /\ SlotsMatchBits' /\ TlbFits' /\ NoUnexpectedFault'
           /\ DataLasts(mm, mm') /\ DirectoryMade(as, t) /\ \A bs \in Spaces : WindowFits(bs)'
<1>1. PICK s, k, n, h : s = FreeSlot /\ k = WithSys(mm, s) /\ n = mm' /\ h = HandlerRefs
  OBVIOUS
<1>2. /\ n = [k EXCEPT !.dir[as] = s] /\ MmAllocateSystemPtes /\ at' = t
      /\ poolBits' = poolBits /\ bitmapOf' = bitmapOf /\ owned' = owned /\ cur' = cur /\ tlb' = tlb /\ priv' = priv
      /\ stopped' = stopped
  BY <1>1 DEF MmCreateProcessAddressSpace
<1>3. /\ s \in Slots /\ Sound(k, {}, h) /\ SysDone(mm, k, s)
      /\ sysBits' \in Bitmaps(NSys) /\ Ones(sysBits') = {x \in Slots : k.sys[x] # NoFrame}
  BY <1>1, <1>2, SlotTaken
<1>4. h \in Extras /\ TypeOK /\ NoUnexpectedFault
  BY <1>1, InvIs
<1>5. Sound(n, {}, h) /\ DirDone(k, n, as, s)
  BY <1>2, <1>3, <1>4, DirSound
<1>6. PagesSame(mm, n) /\ n.sys = k.sys /\ n \in Memory /\ n.dir[as] = s /\ \A bs \in Spaces : bs # as => n.dir[bs] = mm.dir[bs]
  BY <1>3, <1>5 DEF PagesSame, SysDone, DirDone, SameTables
<1>7. HandlerRefs' = h
  BY <1>1, <1>2, RefsAre, RefsSame
<1>8. Sound(mm', {}, HandlerRefs')
  BY <1>1, <1>5, <1>7
<1>9. SlotsMatchBits'
  BY <1>1, <1>3, <1>6 DEF SlotsMatchBits
<1>10. /\ DataLasts(mm, mm') /\ TlbFits' /\ DOMAIN tlb' \subseteq UserPages
       /\ \A a \in DOMAIN tlb' : tlb'[a] \in [f : Frames \cup {NoFrame}, w : BOOLEAN]
       /\ \A bs \in Spaces : WindowFits(bs)'
  BY <1>1, <1>2, <1>6, PagesSameFits
<1>11. TypeOK' /\ NoUnexpectedFault'
  BY <1>1, <1>2, <1>3, <1>4, <1>6, <1>10 DEF TypeOK, NoUnexpectedFault
<1>12. DirectoryMade(as, t)
  BY <1>1, <1>2, <1>3, <1>6 DEF DirectoryMade
<1>. QED
  BY <1>8, <1>9, <1>10, <1>11, <1>12

\* The child of a clone is not a process that is gone.
LEMMA ChildIsChild ==
    ASSUME VmInv, NEW bs \in Spaces, at[bs].what \in Cloning
    PROVE  at[bs].child \in Spaces /\ at[at[bs].child].what = "child"
BY InvIs DEF StepFits

LEMMA CreateFits ==
    ASSUME VmInv, calls' \in 0 .. MaxCalls, NEW as \in Spaces, CreateProcess(as)
    PROVE  VmInv'
<1>1. CASE NoSystemPte
  BY <1>1, BugCheckFits DEF CreateProcess
<1>2. CASE ~NoSystemPte
  <2>1. PICK t : t = [at EXCEPT ![as] = Doing("created")]
    OBVIOUS
  <2>2. MmCreateProcessAddressSpace(as, t) /\ as \notin Live
    BY <1>2, <2>1 DEF CreateProcess
  <2>3. at[as].what = "gone" /\ at \in [Spaces -> Doings]
    BY <2>2, InvIs DEF Live, TypeOK
  <2>4. /\ t \in [Spaces -> Doings] /\ t[as].what = "created" /\ \A bs \in Spaces : bs # as => t[bs] = at[bs]
    BY <2>1, <2>3, DoingIs DEF Steps
  <2>5. SameHandlers(at, t) /\ \A bs \in Spaces : at[bs].what \in {"temp", "mapped"} => t[bs] = at[bs]
    BY <2>3, <2>4 DEF SameHandlers, Handling
  <2>6. /\ TypeOK' /\ Sound(mm', {}, HandlerRefs') /\ SlotsMatchBits' /\ TlbFits' /\ NoUnexpectedFault'
        /\ DataLasts(mm, mm') /\ DirectoryMade(as, t) /\ \A bs \in Spaces : WindowFits(bs)'
    BY <1>2, <2>2, <2>4, <2>5, DirectoryFits
  <2>7. /\ at' = t /\ owned' = owned /\ bitmapOf' = bitmapOf /\ priv' = priv /\ PagesSame(mm, mm')
        /\ mm'.dir[as] \in Slots /\ \A bs \in Spaces : bs # as => mm'.dir[bs] = mm.dir[bs]
    BY <2>6 DEF DirectoryMade
  <2>8. ChildrenFit'
    BY <2>4, <2>7, ChildrenStay DEF Cloning
  <2>9. \A bs \in Spaces : bs # as => Bystander(bs)
    BY <2>4, <2>7 DEF Bystander, Idle, Stays, PagesSame
  <2>10. ASSUME NEW bs \in Spaces, bs # as PROVE PagesFit(bs)' /\ StepFits(bs)'
    <3>1. at[bs].what \in Cloning => Bystander(at[bs].child)
      BY <2>3, <2>9, ChildIsChild
    <3>. QED
      BY <2>6, <2>9, <2>10, <3>1, BystanderFits
  <2>11. PagesFit(as)' /\ StepFits(as)'
    <3>1. Empty(mm, as) /\ owned[as] = {}
      BY <2>3, InvIs DEF PagesFit
    <3>2. Empty(mm', as) /\ owned'[as] = {}
      BY <2>7, <3>1 DEF Empty, PagesSame
    <3>3. PagesFit(as)'
      BY <2>4, <2>7, <3>2 DEF PagesFit, Populated, Cloning, Handling
    <3>4. StepFits(as)'
      BY <2>4, <2>7 DEF StepFits, Cloning, Handling
    <3>. QED
      BY <3>3, <3>4
  <2>. QED
    BY <2>6, <2>8, <2>10, <2>11, Assembled
<1>. QED
  BY <1>1, <1>2

LEMMA CloneFits ==
    ASSUME VmInv, calls' \in 0 .. MaxCalls, NEW p \in Spaces, NEW c \in Spaces, CloneProcess(p, c)
    PROVE  VmInv'
<1>1. CASE NoSystemPte
  BY <1>1, BugCheckFits DEF CloneProcess
<1>2. CASE ~NoSystemPte
  <2>1. PICK t : t = [at EXCEPT ![p] = [Doing("clone space") EXCEPT !.child = c], ![c] = Doing("child")]
    OBVIOUS
  <2>2. MmCreateProcessAddressSpace(c, t) /\ c \notin Live /\ Running(p, "user")
    BY <1>2, <2>1 DEF CloneProcess
  <2>3. at[c].what = "gone" /\ at[p].what = "user" /\ at \in [Spaces -> Doings] /\ c # p
    BY <2>2, InvIs DEF Live, TypeOK, Running
  <2>4. /\ t \in [Spaces -> Doings] /\ t[p].what = "clone space" /\ t[p].child = c /\ t[c].what = "child"
        /\ \A bs \in Spaces : bs # p /\ bs # c => t[bs] = at[bs]
    <3>1. PICK d : d = [Doing("clone space") EXCEPT !.child = c]
      OBVIOUS
    <3>2. d \in Doings /\ d.what = "clone space" /\ d.child = c
      <4>1. Doing("clone space") \in Doings /\ Doing("clone space").what = "clone space"
        BY DoingIs DEF Steps
      <4>. QED
        BY <3>1, <4>1 DEF Doings
    <3>3. Doing("child") \in Doings /\ Doing("child").what = "child"
      BY DoingIs DEF Steps
    <3>. QED
      BY <2>1, <2>3, <3>1, <3>2, <3>3
  <2>5. SameHandlers(at, t) /\ \A bs \in Spaces : at[bs].what \in {"temp", "mapped"} => t[bs] = at[bs]
    BY <2>3, <2>4 DEF SameHandlers, Handling
  <2>6. /\ TypeOK' /\ Sound(mm', {}, HandlerRefs') /\ SlotsMatchBits' /\ TlbFits' /\ NoUnexpectedFault'
        /\ DataLasts(mm, mm') /\ DirectoryMade(c, t) /\ \A bs \in Spaces : WindowFits(bs)'
    BY <1>2, <2>2, <2>4, <2>5, DirectoryFits
  <2>7. /\ at' = t /\ owned' = owned /\ bitmapOf' = bitmapOf /\ priv' = priv /\ PagesSame(mm, mm')
        /\ mm'.dir[c] \in Slots /\ \A bs \in Spaces : bs # c => mm'.dir[bs] = mm.dir[bs]
    BY <2>6 DEF DirectoryMade
  <2>8. ChildrenFit'
    <3>1. SUFFICES ASSUME NEW q \in Spaces, NEW r \in Spaces, t[q].what \in Cloning, t[r].what \in Cloning,
                          t[q].child = t[r].child
                   PROVE  q = r
      BY <2>7 DEF ChildrenFit
    <3>2. \A x \in Spaces : t[x].what \in Cloning /\ x # p => at[x].what \in Cloning /\ t[x].child = at[x].child
      BY <2>4 DEF Cloning
    <3>3. \A x \in Spaces : at[x].what \in Cloning => at[x].child # c
      BY <2>3, ChildIsChild
    <3>4. CASE q = p \/ r = p
      BY <2>4, <3>1, <3>2, <3>3, <3>4
    <3>5. CASE q # p /\ r # p
      BY <3>1, <3>2, <3>5, InvIs DEF ChildrenFit
    <3>. QED
      BY <3>4, <3>5
  <2>9. \A bs \in Spaces : bs # p /\ bs # c => Bystander(bs)
    BY <2>4, <2>7 DEF Bystander, Idle, Stays, PagesSame
  <2>10. ASSUME NEW bs \in Spaces, bs # p, bs # c PROVE PagesFit(bs)' /\ StepFits(bs)'
    <3>1. at[bs].what \in Cloning => Bystander(at[bs].child)
      BY <2>3, <2>9, ChildIsChild
    <3>. QED
      BY <2>6, <2>9, <2>10, <3>1, BystanderFits
  <2>11. PagesFit(c)' /\ StepFits(c)'
    <3>1. PagesFit(c)'
      BY <2>4, <2>7 DEF PagesFit, Populated, Cloning, Handling
    <3>2. StepFits(c)'
      BY <2>4, <2>7 DEF StepFits, Cloning, Handling
    <3>. QED
      BY <3>1, <3>2
  <2>12. PagesFit(p)' /\ StepFits(p)'
    <3>1. Empty(mm', c) /\ owned'[c] = {}
      <4>1. Empty(mm, c) /\ owned[c] = {}
        BY <2>3, InvIs DEF PagesFit
      <4>. QED
        BY <2>7, <4>1 DEF Empty, PagesSame
    <3>2. \A a \in Reachable(p)' : Holds(mm', p, a, priv'[p][a])
      <4>1. \A a \in Reachable(p) : Holds(mm, p, a, priv[p][a])
        BY <2>3, InvIs DEF PagesFit, Populated, Handling
      <4>. QED
        BY <2>7, <4>1 DEF Reachable, Holds, Valid, Keeps, PagesSame
    <3>3. PagesFit(p)'
      BY <2>4, <2>7, <3>1, <3>2 DEF PagesFit, Populated, Cloning, Handling
    <3>4. mm.dir[p] \in Slots /\ bitmapOf[p] \in Slots
      BY <2>3, InvIs DEF StepFits
    <3>5. StepFits(p)'
      BY <2>3, <2>4, <2>7, <3>4 DEF StepFits, Cloning, Handling
    <3>. QED
      BY <3>3, <3>5
  <2>. QED
    BY <2>6, <2>8, <2>10, <2>11, <2>12, Assembled
<1>. QED
  BY <1>1, <1>2

\* A page for a user bitmap.
BitmapMade(as, t, of) ==
    /\ at' = t /\ owned' = owned /\ priv' = priv /\ PagesSame(mm, mm') /\ mm'.dir = mm.dir
    /\ bitmapOf' = [bitmapOf EXCEPT ![as] = of]

LEMMA BitmapPageFits ==
    ASSUME VmInv, calls' \in 0 .. MaxCalls, ~NoSystemPte, NEW as \in Spaces, NEW t \in [Spaces -> Doings],
           NEW b \in Bitmaps(NPool), NEW of, of = FreeSlot \/ of \in Slots,
           WithBitmap(as, t, b, of), SameHandlers(at, t),
           \A bs \in Spaces : at[bs].what \in {"temp", "mapped"} => t[bs] = at[bs]
    PROVE  /\ TypeOK' /\ Sound(mm', {}, HandlerRefs') /\ SlotsMatchBits' /\ TlbFits' /\ NoUnexpectedFault'
           /\ DataLasts(mm, mm') /\ BitmapMade(as, t, of) /\ of \in Slots /\ \A bs \in Spaces : WindowFits(bs)'
<1>1. PICK s, n, h : s = FreeSlot /\ n = mm' /\ h = HandlerRefs
  OBVIOUS
<1>2. /\ n = WithSys(mm, s) /\ MmAllocateSystemPtes /\ at' = t
      /\ poolBits' = [poolBits EXCEPT ![s] = b] /\ bitmapOf' = [bitmapOf EXCEPT ![as] = of]
      /\ owned' = owned /\ cur' = cur /\ tlb' = tlb /\ priv' = priv /\ stopped' = stopped
  BY <1>1 DEF WithBitmap
<1>3. /\ s \in Slots /\ Sound(n, {}, h) /\ SysDone(mm, n, s)
      /\ sysBits' \in Bitmaps(NSys) /\ Ones(sysBits') = {x \in Slots : n.sys[x] # NoFrame}
  BY <1>1, <1>2, SlotTaken
<1>4. TypeOK /\ NoUnexpectedFault
  BY InvIs
<1>5. PagesSame(mm, n) /\ n.dir = mm.dir /\ n \in Memory
  BY <1>3, SoundIs DEF PagesSame, SysDone
<1>6. HandlerRefs' = h
  BY <1>1, <1>2, RefsAre, RefsSame
<1>7. Sound(mm', {}, HandlerRefs')
  BY <1>1, <1>3, <1>6
<1>8. SlotsMatchBits'
  BY <1>1, <1>3 DEF SlotsMatchBits
<1>9. /\ DataLasts(mm, mm') /\ TlbFits' /\ DOMAIN tlb' \subseteq UserPages
      /\ \A a \in DOMAIN tlb' : tlb'[a] \in [f : Frames \cup {NoFrame}, w : BOOLEAN]
      /\ \A bs \in Spaces : WindowFits(bs)'
  BY <1>1, <1>2, <1>5, PagesSameFits
<1>10. of \in Slots
  BY <1>1, <1>3
<1>11. poolBits' \in [Slots -> Bitmaps(NPool)] /\ bitmapOf' \in [Spaces -> Slots \cup {NoSlot}]
  <2>1. poolBits \in [Slots -> Bitmaps(NPool)] /\ bitmapOf \in [Spaces -> Slots \cup {NoSlot}]
    BY <1>4 DEF TypeOK
  <2>. QED
    BY <1>2, <1>10, <2>1
<1>12. TypeOK' /\ NoUnexpectedFault'
  BY <1>1, <1>2, <1>3, <1>4, <1>5, <1>9, <1>11 DEF TypeOK, NoUnexpectedFault
<1>13. BitmapMade(as, t, of)
  BY <1>1, <1>2, <1>5 DEF BitmapMade
<1>14. TlbFits' /\ DataLasts(mm, mm') /\ \A bs \in Spaces : WindowFits(bs)'
  BY <1>9
<1>. QED
  BY <1>7, <1>8, <1>10, <1>12, <1>13, <1>14

LEMMA InitializeFits ==
    ASSUME VmInv, calls' \in 0 .. MaxCalls, NEW as \in Spaces, MmInitializeUserPtes(as)
    PROVE  VmInv'
<1>1. CASE NoSystemPte
  BY <1>1, BugCheckFits DEF MmInitializeUserPtes, WithBitmap
<1>2. CASE ~NoSystemPte
  <2>1. PICK t, b, of : t = [at EXCEPT ![as] = Doing("user")] /\ b = BmBitmapCreateInBuffer(NPool) /\ of = FreeSlot
    OBVIOUS
  <2>2. WithBitmap(as, t, b, of) /\ at[as].what = "loaded"
    BY <1>2, <2>1 DEF MmInitializeUserPtes
  <2>3. at \in [Spaces -> Doings] /\ bitmapOf \in [Spaces -> Slots \cup {NoSlot}]
    BY InvIs DEF TypeOK
  <2>4. b \in Bitmaps(NPool)
    BY <2>1, CreateIs, Sizes
  <2>5. /\ t \in [Spaces -> Doings] /\ t[as].what = "user" /\ \A bs \in Spaces : bs # as => t[bs] = at[bs]
    BY <2>1, <2>3, DoingIs DEF Steps
  <2>6. SameHandlers(at, t) /\ \A bs \in Spaces : at[bs].what \in {"temp", "mapped"} => t[bs] = at[bs]
    BY <2>2, <2>5 DEF SameHandlers, Handling
  <2>7. /\ TypeOK' /\ Sound(mm', {}, HandlerRefs') /\ SlotsMatchBits' /\ TlbFits' /\ NoUnexpectedFault'
        /\ DataLasts(mm, mm') /\ BitmapMade(as, t, of) /\ of \in Slots /\ \A bs \in Spaces : WindowFits(bs)'
    BY <1>2, <2>1, <2>2, <2>4, <2>5, <2>6, BitmapPageFits
  <2>8. /\ at' = t /\ owned' = owned /\ priv' = priv /\ PagesSame(mm, mm') /\ mm'.dir = mm.dir
        /\ bitmapOf' = [bitmapOf EXCEPT ![as] = of]
    BY <2>7 DEF BitmapMade
  <2>9. ChildrenFit'
    BY <2>5, <2>8, ChildrenStay DEF Cloning
  <2>10. \A bs \in Spaces : bs # as => Bystander(bs)
    BY <2>3, <2>5, <2>8 DEF Bystander, Idle, Stays, PagesSame
  <2>11. ASSUME NEW bs \in Spaces, bs # as PROVE PagesFit(bs)' /\ StepFits(bs)'
    <3>1. at[bs].what \in Cloning => Bystander(at[bs].child)
      BY <2>2, <2>10, ChildIsChild
    <3>. QED
      BY <2>7, <2>10, <2>11, <3>1, BystanderFits
  <2>12. PagesFit(as)' /\ StepFits(as)'
    <3>1. \A a \in Reachable(as)' : Holds(mm', as, a, priv'[as][a])
      <4>1. \A a \in Reachable(as) : Holds(mm, as, a, priv[as][a])
        BY <2>2, InvIs DEF PagesFit, Populated, Handling
      <4>. QED
        BY <2>8, <4>1 DEF Reachable, Holds, Valid, Keeps, PagesSame
    <3>2. PagesFit(as)'
      BY <2>5, <2>8, <3>1 DEF PagesFit, Populated, Cloning, Handling
    <3>3. mm.dir[as] \in Slots
      BY <2>2, InvIs DEF StepFits
    <3>4. StepFits(as)'
      BY <2>3, <2>5, <2>7, <2>8, <3>3 DEF StepFits, Cloning, Handling
    <3>. QED
      BY <3>2, <3>4
  <2>. QED
    BY <2>7, <2>9, <2>11, <2>12, Assembled
<1>. QED
  BY <1>1, <1>2

\* Two clones do not share a child.
LEMMA OtherChild ==
    ASSUME VmInv, NEW p \in Spaces, at[p].what \in Cloning, NEW bs \in Spaces, bs # p, at[bs].what \in Cloning
    PROVE  at[bs].child # at[p].child /\ at[bs].child # p
<1>1. at[bs].child # at[p].child
  BY InvIs DEF ChildrenFit
<1>2. at[at[bs].child].what = "child" /\ at[p].what # "child"
  BY ChildIsChild DEF Cloning
<1>. QED
  BY <1>1, <1>2

LEMMA CloneBitsFits ==
    ASSUME VmInv, calls' \in 0 .. MaxCalls, NEW p \in Spaces, MmCloneUserPtes(p)
    PROVE  VmInv'
<1>1. CASE NoSystemPte
  BY <1>1, BugCheckFits DEF MmCloneUserPtes, WithBitmap
<1>2. CASE ~NoSystemPte
  <2>0. at[p].what = "clone bits"
    BY DEF MmCloneUserPtes, Running
  <2>1. at[p].child \in Spaces /\ at[at[p].child].what = "child"
    BY <2>0, ChildIsChild DEF Cloning
  <2>2. PICK c \in Spaces : c = at[p].child
    BY <2>1
  <2>3. PICK t, b, of : t = [at EXCEPT ![p] = Doing("user"), ![c] = Doing("user")] /\ b = poolBits[bitmapOf[p]]
                        /\ of = bitmapOf[p]
    OBVIOUS
  <2>4. WithBitmap(c, t, b, of) /\ at[c].what = "child" /\ c # p
    BY <1>2, <2>0, <2>1, <2>2, <2>3 DEF MmCloneUserPtes
  <2>5. /\ at \in [Spaces -> Doings] /\ bitmapOf \in [Spaces -> Slots \cup {NoSlot}]
        /\ poolBits \in [Slots -> Bitmaps(NPool)]
    BY InvIs DEF TypeOK
  <2>6. mm.dir[p] \in Slots /\ mm.dir[c] \in Slots /\ bitmapOf[p] \in Slots
    <3>1. StepFits(p) /\ StepFits(c)
      BY InvIs
    <3>. QED
      BY <2>0, <2>4, <3>1 DEF StepFits
  <2>7. b \in Bitmaps(NPool) /\ of \in Slots
    BY <2>3, <2>5, <2>6
  <2>8. /\ t \in [Spaces -> Doings] /\ t[p].what = "user" /\ t[c].what = "user"
        /\ \A bs \in Spaces : bs # p /\ bs # c => t[bs] = at[bs]
    BY <2>3, <2>4, <2>5, DoingIs DEF Steps
  <2>9. SameHandlers(at, t) /\ \A bs \in Spaces : at[bs].what \in {"temp", "mapped"} => t[bs] = at[bs]
    BY <2>0, <2>4, <2>8 DEF SameHandlers, Handling
  <2>10. /\ TypeOK' /\ Sound(mm', {}, HandlerRefs') /\ SlotsMatchBits' /\ TlbFits' /\ NoUnexpectedFault'
         /\ DataLasts(mm, mm') /\ BitmapMade(c, t, of) /\ \A bs \in Spaces : WindowFits(bs)'
    BY <1>2, <2>4, <2>7, <2>8, <2>9, BitmapPageFits
  <2>11. /\ at' = t /\ owned' = owned /\ priv' = priv /\ PagesSame(mm, mm') /\ mm'.dir = mm.dir
         /\ bitmapOf' = [bitmapOf EXCEPT ![c] = of]
    BY <2>10 DEF BitmapMade
  <2>12. ChildrenFit'
    BY <2>8, <2>11, ChildrenStay DEF Cloning
  <2>13. \A bs \in Spaces : bs # p /\ bs # c => Bystander(bs)
    BY <2>5, <2>8, <2>11 DEF Bystander, Idle, Stays, PagesSame
  <2>14. ASSUME NEW bs \in Spaces, bs # p, bs # c PROVE PagesFit(bs)' /\ StepFits(bs)'
    <3>1. at[bs].what \in Cloning => Bystander(at[bs].child)
      <4>1. at[p].what \in Cloning
        BY <2>0 DEF Cloning
      <4>. QED
        BY <2>2, <2>13, <2>14, <4>1, ChildIsChild, OtherChild
    <3>. QED
      BY <2>10, <2>13, <2>14, <3>1, BystanderFits
  <2>15. ASSUME NEW x \in {p, c} PROVE PagesFit(x)' /\ StepFits(x)'
    <3>1. \A a \in Reachable(x)' : Holds(mm', x, a, priv'[x][a])
      <4>1. \A a \in Reachable(x) : Holds(mm, x, a, priv[x][a])
        <5>1. PagesFit(p)
          BY InvIs
        <5>. QED
          BY <2>0, <2>2, <2>15, <5>1 DEF PagesFit, Populated, Handling, Cloning
      <4>. QED
        BY <2>11, <4>1 DEF Reachable, Holds, Valid, Keeps, PagesSame
    <3>2. PagesFit(x)'
      BY <2>8, <2>11, <2>15, <3>1 DEF PagesFit, Populated, Cloning, Handling
    <3>3. bitmapOf'[x] \in Slots
      BY <2>5, <2>6, <2>7, <2>11, <2>15
    <3>4. StepFits(x)'
      BY <2>6, <2>8, <2>11, <2>15, <3>3 DEF StepFits, Cloning, Handling
    <3>. QED
      BY <3>2, <3>4
  <2>. QED
    BY <2>10, <2>12, <2>14, <2>15, Assembled
<1>. QED
  BY <1>1, <1>2

-----------------------------------------------------------------------------
(* The steps: pages of one process.                                         *)

\* A step of one process, which is nobody's child.
LEMMA OthersFit ==
    ASSUME VmInv, Sound(mm', {}, HandlerRefs'), DataLasts(mm, mm'), NEW as \in Spaces, at[as].what # "child",
           \A bs \in Spaces : bs # as => Bystander(bs)
    PROVE  \A bs \in Spaces : bs # as => PagesFit(bs)' /\ StepFits(bs)'
<1>1. SUFFICES ASSUME NEW bs \in Spaces, bs # as PROVE PagesFit(bs)' /\ StepFits(bs)'
  OBVIOUS
<1>2. at[bs].what \in Cloning => Bystander(at[bs].child)
  BY ChildIsChild
<1>. QED
  BY <1>1, <1>2, BystanderFits

\* A page of a program is mapped, unmapped or remapped.
OnePage(m, n, as, a) ==
    /\ OthersSame(m, n, as, a) /\ KeepsTables(m, n) /\ TablesSame(m, n, as, a[1])
    /\ n.dir = m.dir /\ DataLasts(m, n)
    /\ n.pte[as][a].f = NoFrame \/ n.pte[as][a].f = m.pte[as][a].f \/ m.ref[n.pte[as][a].f] = 0

OnlyOne(m, n, as, a) ==
    /\ NewPrograms(m, n) /\ DataLasts(m, n)
    /\ \A bs \in Spaces : bs # as => Stays(m, n, bs)
    /\ \A b \in Pages : b # a => n.pte[as][b] = m.pte[as][b]
    /\ \A bs \in Spaces, b \in TempPages : n.pte[bs][b] = m.pte[bs][b]

LEMMA OnePageIs ==
    ASSUME NEW m, NEW n, NEW as \in Spaces, NEW a \in UserPages, OnePage(m, n, as, a)
    PROVE  OnlyOne(m, n, as, a)
<1>1. \A bs \in Spaces, b \in Pages : bs # as \/ b # a => n.pte[bs][b] = m.pte[bs][b]
  BY DEF OnePage, OthersSame
<1>2. \A b \in TempPages : b \in Pages /\ b # a
  BY PageRegions
<1>3. \A b \in UserPages : b \in Pages
  BY PageRegions
<1>4. NewPrograms(m, n)
  <2>1. SUFFICES ASSUME NEW f \in Frames, Program(n, f), ~Program(m, f) PROVE m.ref[f] = 0
    BY DEF NewPrograms
  <2>2. PICK bs \in Spaces, b \in UserPages : n.pte[bs][b].f = f
    BY <2>1 DEF Program
  <2>3. m.pte[bs][b].f # f
    BY <2>1 DEF Program
  <2>4. bs = as /\ b = a
    BY <1>1, <1>3, <2>2, <2>3
  <2>. QED
    BY <2>2, <2>3, <2>4, Sizes DEF OnePage
<1>5. \A bs \in Spaces : bs # as => Stays(m, n, bs)
  BY <1>1 DEF OnePage, TablesSame, Stays
<1>. QED
  BY <1>1, <1>2, <1>4, <1>5 DEF OnePage, OnlyOne

LEMMA NewIsOnePage ==
    ASSUME NEW m, NEW n, NEW as, NEW a, NEW f, NewDone(m, n, as, a, f)
    PROVE  OnePage(m, n, as, a)
<1>1. /\ f \in Frames /\ m.ref[f] = 0 /\ n.pte[as][a] = NewPte(f) /\ OthersSame(m, n, as, a)
      /\ KeepsTables(m, n) /\ TablesSame(m, n, as, a[1]) /\ n.dir = m.dir /\ SameData(m, n)
  BY DEF NewDone
<1>2. n.pte[as][a].f = f
  BY <1>1, NewPteIs
<1>3. DataLasts(m, n)
  BY <1>1, SameDataLasts
<1>. QED
  BY <1>1, <1>2, <1>3 DEF OnePage

LEMMA RemoveIsOnePage ==
    ASSUME NEW m, NEW n, NEW as, NEW a, RemoveDone(m, n, as, a)
    PROVE  OnePage(m, n, as, a)
<1>1. /\ n.pte[as][a] = NoPte /\ OthersSame(m, n, as, a) /\ n.pde = m.pde /\ n.dir = m.dir /\ SameData(m, n)
  BY DEF RemoveDone
<1>2. n.pte[as][a].f = NoFrame
  BY <1>1, NoPteIs
<1>3. DataLasts(m, n) /\ KeepsTables(m, n) /\ TablesSame(m, n, as, a[1])
  BY <1>1, SameDataLasts, TablesTrans
<1>. QED
  BY <1>1, <1>2, <1>3 DEF OnePage

\* The other pages of the process have what they had.
LEMMA OtherPagesHold ==
    ASSUME VmInv, Sound(mm', {}, HandlerRefs'), NEW as \in Spaces, NEW a \in UserPages, OnePage(mm, mm', as, a),
           NEW b \in UserPages, b # a, NEW v, Holds(mm, as, b, v)
    PROVE  Holds(mm', as, b, v)
<1>1. PICK m, n, h, g : m = mm /\ n = mm' /\ h = HandlerRefs /\ g = HandlerRefs'
  OBVIOUS
<1>2. Sound(m, {}, h) /\ Sound(n, {}, g) /\ h \in Extras /\ g \in Extras
  BY <1>1, InvIs, RefsAre, RefsType
<1>3. DataLasts(m, n) /\ b \in Pages /\ n.pte[as][b].f = m.pte[as][b].f
  <2>1. OnlyOne(m, n, as, a)
    BY <1>1, OnePageIs
  <2>2. b \in Pages
    BY PageRegions
  <2>. QED
    BY <2>1, <2>2 DEF OnlyOne
<1>4. Holds(m, as, b, v)
  BY <1>1
<1>5. Holds(n, as, b, v)
  BY <1>2, <1>3, <1>4, HoldsLasts
<1>. QED
  BY <1>1, <1>5

\* A frame just taken is found in the page.
LEMMA NewHolds ==
    ASSUME NEW m, NEW n, NEW as, NEW a, NEW f, NewDone(m, n, as, a, f)
    PROVE  Holds(n, as, a, Unset)
<1>1. f \in Frames /\ n.pte[as][a].f = f /\ n.data[f] = Unset
  BY NewPteIs DEF NewDone
<1>. QED
  BY <1>1, Sizes DEF Holds, Valid, Keeps

LEMMA EnoughFree ==
    ASSUME NEW m \in Memory, NEW as, NEW r, ~(Free(m) < FramesFor(m, as, r, 1))
    PROVE  Free(m) >= FramesFor(m, as, r, 1)
<1>1. Free(m) \in Nat /\ NeedsTable(m, as, r) \in {0, 1}
  BY FreeCounts DEF NeedsTable
<1>2. PICK x \in Nat, y \in {0, 1} : x = Free(m) /\ y = NeedsTable(m, as, r)
  BY <1>1
<1>3. FramesFor(m, as, r, 1) = 1 + y
  BY <1>2 DEF FramesFor
<1>4. ~(x < 1 + y)
  BY <1>2, <1>3
<1>5. x >= 1 + y
  BY <1>4
<1>. QED
  BY <1>2, <1>3, <1>5

LEMMA LoadFits ==
    ASSUME VmInv, calls' \in 0 .. MaxCalls, NEW as \in Spaces, ELFBinaryLoader(as)
    PROVE  VmInv'
<1>1. CASE Free(mm) < FramesFor(mm, as, "text", 1)
  BY <1>1, BugCheckFits DEF ELFBinaryLoader
<1>2. CASE ~(Free(mm) < FramesFor(mm, as, "text", 1))
  <2>1. /\ at[as].what = "created" /\ mm' = MapNew(mm, as, Text) /\ priv' = [priv EXCEPT ![as][Text] = Unset]
        /\ at' = [at EXCEPT ![as] = Doing("loaded")] /\ tlb' = NoTlb
        /\ sysBits' = sysBits /\ poolBits' = poolBits /\ bitmapOf' = bitmapOf /\ owned' = owned /\ cur' = cur
        /\ stopped' = stopped
    BY <1>2 DEF ELFBinaryLoader, MmMapSegment, PspAttachProcess
  <2>2. /\ TypeOK /\ NoUnexpectedFault /\ SlotsMatchBits /\ at \in [Spaces -> Doings]
        /\ priv \in [Spaces -> [UserPages -> Values]] /\ Text \in UserPages /\ Text \in Pages /\ Text[1] = "text"
    BY InvIs, PageRegions DEF TypeOK
  <2>3. PICK m, n, h, f : m = mm /\ n = mm' /\ h = HandlerRefs /\ f = NextFree(mm)
    OBVIOUS
  <2>4. Sound(m, {}, h) /\ h \in Extras
    BY <2>3, InvIs
  <2>5. Free(m) >= FramesFor(m, as, Text[1], 1)
    BY <1>2, <2>2, <2>3, <2>4, SoundIs, EnoughFree
  <2>6. Sound(n, {}, h) /\ NewDone(m, n, as, Text, f)
    BY <2>1, <2>2, <2>3, <2>4, <2>5, MapNewSound
  <2>7. /\ at' \in [Spaces -> Doings] /\ at'[as].what = "loaded" /\ \A bs \in Spaces : bs # as => at'[bs] = at[bs]
    BY <2>1, <2>2, DoingIs DEF Steps
  <2>8. HandlerRefs' = h
    <3>1. SameHandlers(at, at')
      BY <2>1, <2>7 DEF SameHandlers, Handling
    <3>. QED
      BY <2>3, <3>1, RefsAre, RefsSame
  <2>9. Sound(mm', {}, HandlerRefs')
    BY <2>3, <2>6, <2>8
  <2>10. OnePage(mm, mm', as, Text) /\ mm'.sys = mm.sys /\ mm'.dir = mm.dir
    BY <2>3, <2>6, NewIsOnePage DEF NewDone
  <2>11. /\ NewPrograms(mm, mm') /\ DataLasts(mm, mm')
         /\ \A bs \in Spaces : bs # as => Stays(mm, mm', bs)
         /\ \A bs \in Spaces, b \in TempPages : mm'.pte[bs][b] = mm.pte[bs][b]
    <3>1. OnlyOne(mm, mm', as, Text)
      BY <2>2, <2>10, OnePageIs
    <3>. QED
      BY <3>1 DEF OnlyOne
  <2>12. SlotsMatchBits'
    BY <2>1, <2>2, <2>10 DEF SlotsMatchBits
  <2>13. TlbFits' /\ DOMAIN tlb' \subseteq UserPages
         /\ \A a \in DOMAIN tlb' : tlb'[a] \in [f : Frames \cup {NoFrame}, w : BOOLEAN]
    BY <2>1, NoTlbFits
  <2>14. /\ priv' \in [Spaces -> [UserPages -> Values]] /\ priv'[as][Text] = Unset
         /\ \A bs \in Spaces : bs # as => priv'[bs] = priv[bs]
    BY <2>1, <2>2, Sizes
  <2>15. mm' \in Memory
    BY <2>9, SoundIs
  <2>16. TypeOK' /\ NoUnexpectedFault'
    BY <2>1, <2>2, <2>7, <2>13, <2>14, <2>15 DEF TypeOK, NoUnexpectedFault
  <2>17. ChildrenFit'
    BY <2>7, ChildrenStay DEF Cloning
  <2>18. \A bs \in Spaces : WindowFits(bs)'
    BY <2>1, <2>7, <2>11, WindowStays
  <2>19. \A bs \in Spaces : bs # as => Bystander(bs)
    BY <2>1, <2>7, <2>11, <2>14 DEF Bystander, Idle
  <2>20. \A bs \in Spaces : bs # as => PagesFit(bs)' /\ StepFits(bs)'
    BY <2>1, <2>9, <2>11, <2>19, OthersFit
  <2>21. PagesFit(as)' /\ StepFits(as)'
    <3>1. owned'[as] = {}
      BY <2>1, InvIs DEF PagesFit
    <3>2. Holds(mm', as, Text, priv'[as][Text])
      BY <2>3, <2>6, <2>14, NewHolds
    <3>3. PagesFit(as)'
      BY <2>7, <3>1, <3>2 DEF PagesFit, Populated, Cloning, Handling, Reachable
    <3>4. mm.dir[as] \in Slots
      BY <2>1, InvIs DEF StepFits
    <3>5. StepFits(as)'
      BY <2>7, <2>10, <3>4 DEF StepFits, Cloning, Handling
    <3>. QED
      BY <3>3, <3>5
  <2>. QED
    BY <2>9, <2>12, <2>13, <2>16, <2>17, <2>18, <2>20, <2>21, Assembled
<1>. QED
  BY <1>1, <1>2

\* Pages of the pool are told apart by their index.
LEMMA PoolPages ==
    /\ \A i, j : PoolPage(i) = PoolPage(j) => i = j
    /\ \A i : PoolPage(i) # Text /\ PoolPage(i)[2] = i /\ PoolPage(i)[1] = "pool"
BY DEF PoolPage, Text

LEMMA AllocateFits ==
    ASSUME VmInv, calls' \in 0 .. MaxCalls, NEW as \in Spaces, NEW n \in 1 .. NPool, MmAllocateUserPtes(as, n)
    PROVE  VmInv'
<1>1. /\ cur = as /\ at[as].what = "user"
      /\ mm' = mm /\ sysBits' = sysBits /\ bitmapOf' = bitmapOf /\ owned' = owned /\ cur' = cur /\ tlb' = tlb
      /\ priv' = priv /\ stopped' = stopped
  BY DEF MmAllocateUserPtes, Running
<1>2. PICK b, i : /\ b = poolBits[bitmapOf[as]] /\ i = BmBitmapScan(b, 0, n, FALSE) /\ i # BITMAP_ERROR
                  /\ poolBits' = [poolBits EXCEPT ![bitmapOf[as]] = ScanAndFlipped(b, 0, n, FALSE)]
                  /\ at' = [at EXCEPT ![as] = [Doing("alloc") EXCEPT !.page = PoolPage(i), !.left = n]]
  BY DEF MmAllocateUserPtes
<1>3. /\ TypeOK /\ NoUnexpectedFault /\ SlotsMatchBits /\ at \in [Spaces -> Doings] /\ n \in Nat /\ NPool \in Nat
      /\ poolBits \in [Slots -> Bitmaps(NPool)]
  <2>1. n \in Nat /\ NPool \in Nat
    BY Sizes
  <2>. QED
    BY <2>1, InvIs DEF TypeOK
<1>4. mm.dir[as] \in Slots /\ bitmapOf[as] \in Slots
  BY <1>1, InvIs DEF StepFits
<1>5. b \in Bitmaps(NPool)
  BY <1>2, <1>3, <1>4
<1>6. i \in 0 .. NPool - n
  BY <1>2, <1>3, <1>5, ScanFinds
<1>7. PICK c : c = ScanAndFlipped(b, 0, n, FALSE)
  OBVIOUS
<1>8. c \in Bitmaps(NPool)
  <2>1. Takes(b, c, NPool, i, n)
    BY <1>2, <1>3, <1>5, <1>7, TakeRun
  <2>. QED
    BY <2>1 DEF Takes
<1>9. poolBits' \in [Slots -> Bitmaps(NPool)]
  BY <1>2, <1>3, <1>4, <1>7, <1>8
<1>10. PICK d : d = [Doing("alloc") EXCEPT !.page = PoolPage(i), !.left = n]
  OBVIOUS
<1>11. d \in Doings /\ d.what = "alloc" /\ d.page = PoolPage(i) /\ d.left = n
  <2>1. Doing("alloc") \in Doings /\ Doing("alloc").what = "alloc"
    BY DoingIs DEF Steps
  <2>2. i \in 0 .. NPool - 1 /\ n \in 0 .. NPool
    BY <1>3, <1>6
  <2>3. PoolPage(i) \in UserPages
    BY <2>2, PageRegions
  <2>. QED
    BY <1>10, <2>1, <2>2, <2>3 DEF Doings
<1>12. at' \in [Spaces -> Doings] /\ at'[as] = d /\ \A bs \in Spaces : bs # as => at'[bs] = at[bs]
  BY <1>2, <1>3, <1>10, <1>11
<1>13. Sound(mm', {}, HandlerRefs')
  <2>1. SameHandlers(at, at')
    BY <1>1, <1>11, <1>12 DEF SameHandlers, Handling
  <2>2. HandlerRefs' = HandlerRefs
    BY <2>1, RefsAre, RefsSame
  <2>. QED
    BY <1>1, <2>2, InvIs
<1>14. SlotsMatchBits'
  BY <1>1, <1>3 DEF SlotsMatchBits
<1>15. PagesSame(mm, mm')
  BY <1>1 DEF PagesSame
<1>16. \A bs \in Spaces : at[bs].what \in {"temp", "mapped"} => at'[bs] = at[bs]
  BY <1>1, <1>12
<1>17. DataLasts(mm, mm') /\ TlbFits' /\ \A bs \in Spaces : WindowFits(bs)'
  BY <1>1, <1>15, <1>16, PagesSameFits
<1>18. TypeOK' /\ NoUnexpectedFault'
  BY <1>1, <1>3, <1>9, <1>12 DEF TypeOK, NoUnexpectedFault
<1>19. ChildrenFit'
  BY <1>11, <1>12, ChildrenStay DEF Cloning
<1>20. \A bs \in Spaces : bs # as => Bystander(bs)
  BY <1>1, <1>12 DEF Bystander, Idle, Stays
<1>21. \A bs \in Spaces : bs # as => PagesFit(bs)' /\ StepFits(bs)'
  BY <1>1, <1>13, <1>17, <1>20, OthersFit
<1>22. PagesFit(as)'
  <2>1. \A a \in Reachable(as)' : Holds(mm', as, a, priv'[as][a])
    <3>1. \A a \in Reachable(as) : Holds(mm, as, a, priv[as][a])
      BY <1>1, InvIs DEF PagesFit, Populated, Handling
    <3>. QED
      BY <1>1, <3>1 DEF Reachable
  <2>. QED
    BY <1>11, <1>12, <2>1 DEF PagesFit, Populated, Cloning, Handling
<1>23. StepFits(as)'
  <2>1. n > 0 /\ i \in 0 .. NPool - n
    BY <1>3, <1>6
  <2>. QED
    BY <1>1, <1>4, <1>11, <1>12, <2>1 DEF StepFits, Cloning, Handling
<1>. QED
  BY <1>13, <1>14, <1>17, <1>18, <1>19, <1>21, <1>22, <1>23, Assembled

\* The translations of other pages stay.
LEMMA OnePageTlb ==
    ASSUME VmInv, NEW as \in Spaces, cur = as, NEW a \in UserPages, OnePage(mm, mm', as, a),
           cur' = cur, \A b \in DOMAIN tlb' : b \in DOMAIN tlb /\ tlb'[b] = tlb[b],
           a \in DOMAIN tlb' => ~mm'.pte[as][a].w /\ a \notin Reachable(as)',
           \A b \in UserPages : b # a /\ b \in Reachable(as)' => b \in Reachable(as)
    PROVE  TlbFits' /\ DOMAIN tlb' \subseteq UserPages
           /\ \A b \in DOMAIN tlb' : tlb'[b] \in [f : Frames \cup {NoFrame}, w : BOOLEAN]
<1>1. OnlyOne(mm, mm', as, a)
  BY OnePageIs
<1>2. \A b \in Pages : b # a => mm'.pte[as][b] = mm.pte[as][b]
  BY <1>1 DEF OnlyOne
<1>3. \A b \in DOMAIN tlb : b \in UserPages /\ b \in Pages
  BY InvIs, PageRegions DEF TypeOK
<1>4. TlbLasts
  <2>1. SUFFICES ASSUME NEW b \in DOMAIN tlb'
                 PROVE  /\ mm'.pte[as][b].w => mm.pte[as][b].w
                        /\ b \in Reachable(as)' => b \in Reachable(as) /\ mm'.pte[as][b].f = mm.pte[as][b].f
    BY DEF TlbLasts
  <2>2. b \in UserPages /\ b \in Pages
    BY <1>3
  <2>3. CASE b = a
    BY <2>3
  <2>4. CASE b # a
    BY <1>2, <2>2, <2>4
  <2>. QED
    BY <2>3, <2>4
<1>. QED
  BY <1>4, TlbStays

LEMMA VirtualAllocFits ==
    ASSUME VmInv, calls' \in 0 .. MaxCalls, NEW as \in Spaces, MmVirtualAlloc(as)
    PROVE  VmInv'
<1>0. PICK a : a = at[as].page
  OBVIOUS
<1>1. CASE Free(mm) < FramesFor(mm, as, "pool", 1)
  BY <1>0, <1>1, BugCheckFits DEF MmVirtualAlloc
<1>2. CASE ~(Free(mm) < FramesFor(mm, as, "pool", 1))
  <2>1. /\ cur = as /\ at[as].what = "alloc" /\ mm' = MapNew(mm, as, a)
        /\ owned' = [owned EXCEPT ![as] = @ \cup {a[2]}] /\ priv' = [priv EXCEPT ![as][a] = Unset]
        /\ InvalidateTLB({a})
        /\ sysBits' = sysBits /\ poolBits' = poolBits /\ bitmapOf' = bitmapOf /\ cur' = cur /\ stopped' = stopped
    BY <1>0, <1>2 DEF MmVirtualAlloc, Running
  <2>2. at' = [at EXCEPT ![as] = NextTurn(@)]
    BY <1>2 DEF MmVirtualAlloc
  <2>3. /\ TypeOK /\ NoUnexpectedFault /\ SlotsMatchBits /\ at \in [Spaces -> Doings] /\ NPool \in Nat
        /\ priv \in [Spaces -> [UserPages -> Values]] /\ owned \in [Spaces -> SUBSET (0 .. NPool - 1)]
    <3>1. NPool \in Nat
      BY Sizes
    <3>. QED
      BY <3>1, InvIs DEF TypeOK
  <2>4. PICK k \in 0 .. NPool : k = at[as].left
    BY <2>3 DEF Doings
  <2>5. mm.dir[as] \in Slots /\ bitmapOf[as] \in Slots /\ k > 0 /\ \E i \in 0 .. NPool - k : a = PoolPage(i)
    BY <1>0, <2>1, <2>4, InvIs DEF StepFits
  <2>6. PICK i \in 0 .. NPool - k : a = PoolPage(i)
    BY <2>5
  <2>6a. NPool \in Nat /\ k > 0
    BY <2>3, <2>5
  <2>7. i \in 0 .. NPool - 1
    BY <2>6a
  <2>8. a \in UserPages /\ a \in Pages /\ a[1] = "pool" /\ a[2] = i
    BY <2>6, <2>7, PageRegions
  <2>9. PICK m, n, h, f : m = mm /\ n = mm' /\ h = HandlerRefs /\ f = NextFree(mm)
    OBVIOUS
  <2>10. Sound(m, {}, h) /\ h \in Extras
    BY <2>9, InvIs
  <2>11. Free(m) >= FramesFor(m, as, a[1], 1)
    BY <1>2, <2>8, <2>9, <2>10, SoundIs, EnoughFree
  <2>12. Sound(n, {}, h) /\ NewDone(m, n, as, a, f)
    BY <2>1, <2>8, <2>9, <2>10, <2>11, MapNewSound
  <2>13. PICK d : d = at'[as]
    OBVIOUS
  <2>14. /\ d \in Doings
         /\ \/ k = 1 /\ d.what = "user"
            \/ k # 1 /\ d.what = "alloc" /\ d.left = k - 1 /\ d.page = PoolPage(i + 1)
    <3>1. CASE k = 1
      <4>1. d = Doing("user")
        BY <2>2, <2>3, <2>4, <2>13, <3>1 DEF NextTurn
      <4>. QED
        BY <3>1, <4>1, DoingIs DEF Steps
    <3>2. CASE k # 1
      <4>1. d = [at[as] EXCEPT !.page = PoolPage(i + 1), !.left = k - 1]
        <5>1. d = NextTurn(at[as])
          BY <2>2, <2>3, <2>13
        <5>2. at[as].left # 1
          BY <2>4, <3>2
        <5>. QED
          BY <1>0, <2>4, <2>8, <5>1, <5>2 DEF NextTurn
      <4>2. i + 1 \in 0 .. NPool - 1 /\ k - 1 \in 0 .. NPool
        BY <2>6a, <3>2
      <4>3. PoolPage(i + 1) \in UserPages
        BY <4>2, PageRegions
      <4>4. at[as] \in Doings
        BY <2>3
      <4>. QED
        BY <2>1, <3>2, <4>1, <4>2, <4>3, <4>4 DEF Doings
    <3>. QED
      BY <3>1, <3>2
  <2>15. at' \in [Spaces -> Doings] /\ at'[as] = d /\ \A bs \in Spaces : bs # as => at'[bs] = at[bs]
    BY <2>2, <2>3, <2>13, <2>14
  <2>16. d.what \in {"user", "alloc"}
    BY <2>14
  <2>17. Sound(mm', {}, HandlerRefs')
    <3>1. SameHandlers(at, at')
      BY <2>1, <2>15, <2>16 DEF SameHandlers, Handling
    <3>2. HandlerRefs' = h
      BY <2>9, <3>1, RefsAre, RefsSame
    <3>. QED
      BY <2>9, <2>12, <3>2
  <2>18. OnePage(mm, mm', as, a) /\ mm'.sys = mm.sys /\ mm'.dir = mm.dir
    BY <2>9, <2>12, NewIsOnePage DEF NewDone
  <2>19. /\ NewPrograms(mm, mm') /\ DataLasts(mm, mm')
         /\ \A bs \in Spaces : bs # as => Stays(mm, mm', bs)
         /\ \A bs \in Spaces, b \in TempPages : mm'.pte[bs][b] = mm.pte[bs][b]
    <3>1. OnlyOne(mm, mm', as, a)
      BY <2>8, <2>18, OnePageIs
    <3>. QED
      BY <3>1 DEF OnlyOne
  <2>20. /\ owned' \in [Spaces -> SUBSET (0 .. NPool - 1)] /\ owned'[as] = owned[as] \cup {i}
         /\ \A bs \in Spaces : bs # as => owned'[bs] = owned[bs]
    BY <2>1, <2>3, <2>7, <2>8
  <2>21. /\ priv' \in [Spaces -> [UserPages -> Values]] /\ priv'[as][a] = Unset
         /\ \A b \in UserPages : b # a => priv'[as][b] = priv[as][b]
         /\ \A bs \in Spaces : bs # as => priv'[bs] = priv[bs]
    BY <2>1, <2>3, <2>8, Sizes
  <2>22. \A b \in UserPages : b # a /\ b \in Reachable(as)' => b \in Reachable(as)
    BY <2>6, <2>20 DEF Reachable
  <2>23. \A b \in DOMAIN tlb' : b \in DOMAIN tlb /\ b # a /\ tlb'[b] = tlb[b]
    BY <2>1 DEF InvalidateTLB
  <2>24. TlbFits' /\ DOMAIN tlb' \subseteq UserPages
         /\ \A b \in DOMAIN tlb' : tlb'[b] \in [f : Frames \cup {NoFrame}, w : BOOLEAN]
    BY <2>1, <2>8, <2>18, <2>22, <2>23, OnePageTlb
  <2>25. mm' \in Memory
    BY <2>17, SoundIs
  <2>26. TypeOK' /\ NoUnexpectedFault'
    BY <2>1, <2>3, <2>15, <2>20, <2>21, <2>24, <2>25 DEF TypeOK, NoUnexpectedFault
  <2>27. SlotsMatchBits'
    BY <2>1, <2>3, <2>18 DEF SlotsMatchBits
  <2>28. ChildrenFit'
    BY <2>15, <2>16, ChildrenStay DEF Cloning
  <2>29. \A bs \in Spaces : WindowFits(bs)'
    BY <2>1, <2>15, <2>19, WindowStays
  <2>30. \A bs \in Spaces : bs # as => Bystander(bs)
    BY <2>1, <2>15, <2>19, <2>20, <2>21 DEF Bystander, Idle
  <2>31. \A bs \in Spaces : bs # as => PagesFit(bs)' /\ StepFits(bs)'
    BY <2>1, <2>17, <2>19, <2>30, OthersFit
  <2>32. PagesFit(as)'
    <3>1. \A b \in Reachable(as) : Holds(mm, as, b, priv[as][b])
      BY <2>1, InvIs DEF PagesFit, Populated, Handling
    <3>2. ASSUME NEW b \in Reachable(as)' PROVE Holds(mm', as, b, priv'[as][b])
      <4>0. b \in UserPages
        BY <2>6, <2>7, <2>8, <2>20, <3>2, <2>3, ReachablePages DEF Reachable
      <4>1. CASE b = a
        BY <2>9, <2>12, <2>21, <4>1, NewHolds
      <4>2. CASE b # a
        <5>1. Holds(mm, as, b, priv[as][b])
          BY <2>22, <3>1, <3>2, <4>0, <4>2
        <5>2. Holds(mm', as, b, priv[as][b])
          BY <2>8, <2>17, <2>18, <4>0, <4>2, <5>1, OtherPagesHold
        <5>. QED
          BY <2>21, <4>0, <4>2, <5>2
      <4>. QED
        BY <4>1, <4>2
    <3>. QED
      BY <2>15, <2>16, <3>2 DEF PagesFit, Populated, Cloning, Handling
  <2>33. StepFits(as)'
    <3>1. d.what = "alloc" => d.left > 0 /\ \E j \in 0 .. NPool - d.left : d.page = PoolPage(j)
      <4>1. SUFFICES ASSUME d.what = "alloc" PROVE d.left > 0 /\ \E j \in 0 .. NPool - d.left : d.page = PoolPage(j)
        OBVIOUS
      <4>2. k # 1 /\ d.left = k - 1 /\ d.page = PoolPage(i + 1)
        BY <2>14, <4>1
      <4>3. k - 1 > 0 /\ i + 1 \in 0 .. NPool - (k - 1)
        BY <2>6a, <4>2
      <4>. QED
        BY <4>2, <4>3
    <3>2. mm'.dir[as] \in Slots /\ bitmapOf'[as] \in Slots
      BY <2>1, <2>5, <2>18
    <3>. QED
      BY <2>15, <2>16, <3>1, <3>2 DEF StepFits, Cloning, Handling
  <2>. QED
    BY <2>17, <2>24, <2>26, <2>27, <2>28, <2>29, <2>31, <2>32, <2>33, Assembled
<1>. QED
  BY <1>1, <1>2

LEMMA FreeFitsVm ==
    ASSUME VmInv, calls' \in 0 .. MaxCalls, NEW as \in Spaces, NEW i \in 0 .. NPool - 1, MmFreeUserPtes(as, i)
    PROVE  VmInv'
<1>0. cur = as /\ at[as].what = "user" /\ i \in owned[as]
  BY DEF MmFreeUserPtes, Running
<1>1. PICK a : a = PoolPage(i)
  OBVIOUS
<1>2. a \in UserPages /\ a \in Pages /\ a[1] = "pool" /\ a[2] = i
  BY <1>1, PageRegions
<1>3. \A b \in Reachable(as) : Holds(mm, as, b, priv[as][b])
  BY <1>0, InvIs DEF PagesFit, Populated, Handling
<1>4. Valid(mm, as, a)
  BY <1>0, <1>1, <1>3 DEF Reachable, Holds
<1>5. CASE ~BmBitmapTest(poolBits[bitmapOf[as]], i)
  BY <1>5, BugCheckFits DEF MmFreeUserPtes
<1>6. CASE BmBitmapTest(poolBits[bitmapOf[as]], i)
  <2>1. /\ poolBits' = [poolBits EXCEPT ![bitmapOf[as]] = BmBitmapSetMultiple(@, i, 1, FALSE)]
        /\ mm' = MiRemovePage(mm, as, a) /\ owned' = [owned EXCEPT ![as] = @ \ {i}]
        /\ sysBits' = sysBits /\ bitmapOf' = bitmapOf /\ at' = at /\ cur' = cur /\ tlb' = tlb /\ priv' = priv
        /\ stopped' = stopped
    BY <1>1, <1>4, <1>6 DEF MmFreeUserPtes
  <2>2. /\ TypeOK /\ NoUnexpectedFault /\ SlotsMatchBits /\ at \in [Spaces -> Doings] /\ NPool \in Nat
        /\ owned \in [Spaces -> SUBSET (0 .. NPool - 1)] /\ poolBits \in [Slots -> Bitmaps(NPool)]
    <3>1. NPool \in Nat
      BY Sizes
    <3>. QED
      BY <3>1, InvIs DEF TypeOK
  <2>3. mm.dir[as] \in Slots /\ bitmapOf[as] \in Slots
    BY <1>0, InvIs DEF StepFits
  <2>4. PICK m, n, h : m = mm /\ n = mm' /\ h = HandlerRefs
    OBVIOUS
  <2>5. Sound(m, {}, h) /\ h \in Extras /\ m.pte[as][a].f # NoFrame
    BY <1>4, <2>4, InvIs DEF Valid
  <2>6. Sound(n, {}, h) /\ RemoveDone(m, n, as, a)
    BY <1>2, <2>1, <2>4, <2>5, RemoveSound
  <2>7. Sound(mm', {}, HandlerRefs')
    <3>1. HandlerRefs' = h
      BY <2>1, <2>4, RefsAre
    <3>. QED
      BY <2>4, <2>6, <3>1
  <2>8. OnePage(mm, mm', as, a) /\ mm'.sys = mm.sys /\ mm'.dir = mm.dir /\ mm'.pte[as][a] = NoPte
    BY <2>4, <2>6, RemoveIsOnePage DEF RemoveDone
  <2>9. /\ NewPrograms(mm, mm') /\ DataLasts(mm, mm')
        /\ \A bs \in Spaces : bs # as => Stays(mm, mm', bs)
        /\ \A bs \in Spaces, b \in TempPages : mm'.pte[bs][b] = mm.pte[bs][b]
    <3>1. OnlyOne(mm, mm', as, a)
      BY <1>2, <2>8, OnePageIs
    <3>. QED
      BY <3>1 DEF OnlyOne
  <2>10. /\ owned' \in [Spaces -> SUBSET (0 .. NPool - 1)] /\ owned'[as] = owned[as] \ {i}
         /\ \A bs \in Spaces : bs # as => owned'[bs] = owned[bs]
    BY <2>1, <2>2
  <2>11. poolBits' \in [Slots -> Bitmaps(NPool)]
    <3>1. PICK b, c, one : b = poolBits[bitmapOf[as]] /\ c = BmBitmapSetMultiple(b, i, one, FALSE) /\ one = 1
      OBVIOUS
    <3>2. b \in Bitmaps(NPool) /\ one \in Nat /\ i \in Nat /\ i + one <= NPool
      <4>1. b \in Bitmaps(NPool)
        BY <2>2, <2>3, <3>1
      <4>2. NPool \in Nat /\ one = 1
        BY <2>2, <3>1
      <4>. QED
        BY <4>1, <4>2
    <3>3. Clears(b, c, NPool, i, one)
      BY <2>2, <3>1, <3>2, ClearRun
    <3>4. c \in Bitmaps(NPool)
      BY <3>3 DEF Clears
    <3>5. poolBits' = [poolBits EXCEPT ![bitmapOf[as]] = c]
      BY <2>1, <2>2, <2>3, <3>1
    <3>. QED
      BY <2>2, <2>3, <3>4, <3>5
  <2>12. a \notin Reachable(as)' /\ \A b \in UserPages : b \in Reachable(as)' => b # a /\ b \in Reachable(as)
    BY <1>1, <2>10, PoolPages DEF Reachable
  <2>13. TlbFits' /\ DOMAIN tlb' \subseteq UserPages
         /\ \A b \in DOMAIN tlb' : tlb'[b] \in [f : Frames \cup {NoFrame}, w : BOOLEAN]
    <3>1. ~mm'.pte[as][a].w
      BY <2>8, NoPteIs
    <3>. QED
      BY <1>0, <1>2, <2>1, <2>8, <2>12, <3>1, OnePageTlb
  <2>14. mm' \in Memory
    BY <2>7, SoundIs
  <2>15. TypeOK' /\ NoUnexpectedFault'
    BY <2>1, <2>2, <2>10, <2>11, <2>13, <2>14 DEF TypeOK, NoUnexpectedFault
  <2>16. SlotsMatchBits'
    BY <2>1, <2>2, <2>8 DEF SlotsMatchBits
  <2>17. ChildrenFit'
    BY <2>1, ChildrenStay
  <2>18. \A bs \in Spaces : WindowFits(bs)'
    BY <2>1, <2>9, WindowStays
  <2>19. \A bs \in Spaces : bs # as => Bystander(bs)
    BY <2>1, <2>9, <2>10 DEF Bystander, Idle
  <2>20. \A bs \in Spaces : bs # as => PagesFit(bs)' /\ StepFits(bs)'
    BY <1>0, <2>7, <2>9, <2>19, OthersFit
  <2>21. PagesFit(as)'
    <3>1. ASSUME NEW b \in Reachable(as)' PROVE Holds(mm', as, b, priv'[as][b])
      <4>1. b \in UserPages
        BY <2>2, <2>10, <3>1, ReachablePages DEF Reachable
      <4>2. b # a /\ Holds(mm, as, b, priv[as][b])
        BY <1>3, <2>12, <3>1, <4>1
      <4>3. Holds(mm', as, b, priv[as][b])
        BY <1>2, <2>7, <2>8, <4>1, <4>2, OtherPagesHold
      <4>. QED
        BY <2>1, <4>3
    <3>. QED
      BY <1>0, <2>1, <3>1 DEF PagesFit, Populated, Cloning, Handling
  <2>22. StepFits(as)'
    BY <1>0, <2>1, <2>3, <2>8 DEF StepFits, Cloning, Handling
  <2>. QED
    BY <2>7, <2>13, <2>15, <2>16, <2>17, <2>18, <2>20, <2>21, <2>22, Assembled
<1>. QED
  BY <1>5, <1>6

LEMMA DeleteFits ==
    ASSUME VmInv, calls' \in 0 .. MaxCalls, NEW as \in Spaces, MmDeleteProcessAddressSpace(as)
    PROVE  VmInv'
<1>1. /\ at[as].what = "user" /\ mm' = RemoveAll(mm, as) /\ MmFreeSystemPtes(mm.dir[as])
      /\ at' = [at EXCEPT ![as] = Doing("gone")] /\ owned' = [owned EXCEPT ![as] = {}]
      /\ bitmapOf' = [bitmapOf EXCEPT ![as] = NoSlot] /\ priv' = [priv EXCEPT ![as] = [a \in UserPages |-> Unset]]
      /\ tlb' = NoTlb /\ poolBits' = poolBits /\ cur' = cur /\ stopped' = stopped
  BY DEF MmDeleteProcessAddressSpace
<1>2. /\ TypeOK /\ NoUnexpectedFault /\ at \in [Spaces -> Doings] /\ sysBits \in Bitmaps(NSys)
      /\ priv \in [Spaces -> [UserPages -> Values]] /\ owned \in [Spaces -> SUBSET (0 .. NPool - 1)]
      /\ bitmapOf \in [Spaces -> Slots \cup {NoSlot}] /\ Ones(sysBits) = {t \in Slots : mm.sys[t] # NoFrame}
  BY InvIs DEF TypeOK, SlotsMatchBits
<1>3. PICK m, n, h, s : m = mm /\ n = mm' /\ h = HandlerRefs /\ s = mm.dir[as]
  OBVIOUS
<1>4. Sound(m, {}, h) /\ h \in Extras /\ s \in Slots
  BY <1>1, <1>3, InvIs DEF StepFits
<1>5. Sound(n, {}, h) /\ RemoveAllDone(m, n, as)
  BY <1>1, <1>3, <1>4, RemoveAllSound
<1>6. /\ \A bs \in Spaces, a \in Pages : n.pte[bs][a] = IF bs = as THEN NoPte ELSE m.pte[bs][a]
      /\ \A bs \in Spaces, r \in Region : n.pde[bs][r] = IF bs = as THEN NoFrame ELSE m.pde[bs][r]
      /\ n.sys[s] = NoFrame /\ \A t \in Slots : t # s => n.sys[t] = m.sys[t]
      /\ \A bs \in Spaces : bs # as => n.dir[bs] = m.dir[bs]
      /\ SameData(m, n)
  BY <1>3, <1>5 DEF RemoveAllDone, SlotsAgreeBut
<1>7. /\ at' \in [Spaces -> Doings] /\ at'[as].what = "gone" /\ \A bs \in Spaces : bs # as => at'[bs] = at[bs]
  BY <1>1, <1>2, DoingIs DEF Steps
<1>8. Sound(mm', {}, HandlerRefs')
  <2>1. SameHandlers(at, at')
    BY <1>1, <1>7 DEF SameHandlers, Handling
  <2>2. HandlerRefs' = h
    BY <1>3, <2>1, RefsAre, RefsSame
  <2>. QED
    BY <1>3, <1>5, <2>2
<1>9. sysBits' \in Bitmaps(NSys) /\ Ones(sysBits') = Ones(sysBits) \ {s}
  <2>1. PICK b, c, one : b = sysBits /\ c = sysBits' /\ one = 1
    OBVIOUS
  <2>2. NSys \in Nat /\ s \in Nat /\ s + 1 <= NSys /\ s .. s + 1 - 1 = {s}
    <3>1. NSys \in Nat
      BY Sizes
    <3>2. s \in 0 .. NSys - 1
      BY <1>4 DEF Slots
    <3>. QED
      BY <3>1, <3>2
  <2>3. b \in Bitmaps(NSys) /\ one \in Nat /\ s + one <= NSys /\ c = BmBitmapSetMultiple(b, s, one, FALSE)
    BY <1>1, <1>2, <1>3, <2>1, <2>2 DEF MmFreeSystemPtes
  <2>4. Clears(b, c, NSys, s, one)
    BY <2>2, <2>3, ClearRun
  <2>. QED
    BY <2>1, <2>2, <2>4 DEF Clears, Run
<1>10. SlotsMatchBits'
  BY <1>2, <1>3, <1>4, <1>6, <1>9 DEF SlotsMatchBits
<1>11. /\ TlbFits' /\ DOMAIN tlb' \subseteq UserPages
       /\ \A b \in DOMAIN tlb' : tlb'[b] \in [f : Frames \cup {NoFrame}, w : BOOLEAN]
  BY <1>1, NoTlbFits
<1>12. /\ owned' \in [Spaces -> SUBSET (0 .. NPool - 1)] /\ owned'[as] = {}
       /\ \A bs \in Spaces : bs # as => owned'[bs] = owned[bs]
  BY <1>1, <1>2
<1>13. /\ bitmapOf' \in [Spaces -> Slots \cup {NoSlot}] /\ \A bs \in Spaces : bs # as => bitmapOf'[bs] = bitmapOf[bs]
  BY <1>1, <1>2
<1>14. /\ priv' \in [Spaces -> [UserPages -> Values]] /\ \A bs \in Spaces : bs # as => priv'[bs] = priv[bs]
  <2>1. [a \in UserPages |-> Unset] \in [UserPages -> Values]
    BY Sizes
  <2>. QED
    BY <1>1, <1>2, <2>1
<1>15. mm' \in Memory
  BY <1>8, SoundIs
<1>16. TypeOK' /\ NoUnexpectedFault'
  BY <1>1, <1>2, <1>7, <1>9, <1>11, <1>12, <1>13, <1>14, <1>15 DEF TypeOK, NoUnexpectedFault
<1>17. ChildrenFit'
  BY <1>7, ChildrenStay DEF Cloning
<1>18. DataLasts(mm, mm')
  BY <1>3, <1>6, SameDataLasts
<1>19. \A bs \in Spaces : WindowFits(bs)'
  <2>1. NewPrograms(mm, mm')
    <3>1. ASSUME NEW bs \in Spaces, NEW b \in UserPages
          PROVE  n.pte[bs][b].f = m.pte[bs][b].f \/ n.pte[bs][b].f = NoFrame
      <4>1. b \in Pages
        BY PageRegions
      <4>2. n.pte[bs][b] = m.pte[bs][b] \/ n.pte[bs][b] = NoPte
        BY <1>6, <4>1
      <4>. QED
        BY <4>2, NoPteIs
    <3>. QED
      BY <1>3, <3>1, SamePrograms
  <2>2. SUFFICES ASSUME NEW bs \in Spaces PROVE WindowFits(bs)'
    OBVIOUS
  <2>3. ASSUME NEW a \in TempPages PROVE mm'.pte[bs][a] = mm.pte[bs][a] \/ mm'.pte[bs][a].f = NoFrame
    <3>1. a \in Pages
      BY PageRegions
    <3>2. n.pte[bs][a] = m.pte[bs][a] \/ n.pte[bs][a] = NoPte
      BY <1>6, <3>1
    <3>. QED
      BY <1>3, <3>2, NoPteIs
  <2>4. at[bs].what \in {"temp", "mapped"} => at'[bs] = at[bs]
    BY <1>1, <1>7
  <2>. QED
    BY <2>1, <2>3, <2>4, WindowStays
<1>20. \A bs \in Spaces : bs # as => Bystander(bs)
  BY <1>3, <1>6, <1>7, <1>12, <1>13, <1>14 DEF Bystander, Idle, Stays
<1>21. \A bs \in Spaces : bs # as => PagesFit(bs)' /\ StepFits(bs)'
  BY <1>1, <1>8, <1>18, <1>20, OthersFit
<1>22. PagesFit(as)' /\ StepFits(as)'
  <2>1. Empty(mm', as)
    BY <1>3, <1>6 DEF Empty
  <2>2. PagesFit(as)'
    BY <1>7, <1>12, <2>1 DEF PagesFit, Populated, Cloning, Handling
  <2>3. StepFits(as)'
    BY <1>7 DEF StepFits, Cloning, Handling
  <2>. QED
    BY <2>2, <2>3
<1>. QED
  BY <1>8, <1>10, <1>11, <1>16, <1>17, <1>19, <1>21, <1>22, Assembled

-----------------------------------------------------------------------------
(* The steps: accesses and faults.                                          *)

\* What a process in user mode reaches is mapped, and its cached translation goes to the same frame.
LEMMA UserPage ==
    ASSUME VmInv, NEW as \in Spaces, Running(as, "user"), NEW a \in Reachable(as)
    PROVE  /\ a \in UserPages /\ a \in Pages /\ Holds(mm, as, a, priv[as][a])
           /\ mm.pte[as][a].f \in Frames /\ mm.pde[as][a[1]] # NoFrame
           /\ mm.pte[as][a].w \/ mm.pte[as][a].cow
           /\ \A x \in Translations(as, a) : x.f = mm.pte[as][a].f /\ x \in [f : Frames \cup {NoFrame}, w : BOOLEAN]
                                             /\ (~x.w => ~mm.pte[as][a].w)
<1>0. cur = as /\ at[as].what = "user"
  BY DEF Running
<1>1. a \in UserPages /\ a \in Pages
  BY InvIs, ReachablePages
<1>2. Holds(mm, as, a, priv[as][a])
  BY <1>0, InvIs DEF PagesFit, Populated, Handling
<1>3. Sound(mm, {}, HandlerRefs) /\ mm \in Memory
  BY InvIs
<1>4. PteFits(mm, as, a)
  BY <1>1, <1>3, SoundIs
<1>5. mm.pte[as][a].f # NoFrame /\ mm.pte[as][a].f \in Frames
  BY <1>1, <1>2, <1>3, EntryTypes DEF Holds, Valid
<1>6. mm.pde[as][a[1]] # NoFrame /\ (mm.pte[as][a].w \/ mm.pte[as][a].cow)
  BY <1>1, <1>4, <1>5 DEF PteFits
<1>7. mm.pte[as][a].w \in BOOLEAN
  BY <1>1, <1>3, EntryTypes
<1>8. ASSUME NEW x \in Translations(as, a)
      PROVE  x.f = mm.pte[as][a].f /\ x \in [f : Frames \cup {NoFrame}, w : BOOLEAN] /\ (~x.w => ~mm.pte[as][a].w)
  <2>1. CASE x = Walked(as, a)
    BY <1>5, <1>7, <2>1 DEF Walked
  <2>2. CASE a \in DOMAIN tlb /\ x = tlb[a]
    <3>1. /\ ~tlb[a].w => ~mm.pte[cur][a].w
          /\ a \in Reachable(cur) => tlb[a].f = mm.pte[cur][a].f
      BY <2>2, InvIs DEF TlbFits
    <3>2. tlb[a] \in [f : Frames \cup {NoFrame}, w : BOOLEAN]
      BY <2>2, InvIs DEF TypeOK
    <3>. QED
      BY <1>0, <2>2, <3>1, <3>2
  <2>. QED
    BY <1>8, <2>1, <2>2 DEF Translations
<1>. QED
  BY <1>1, <1>2, <1>5, <1>6, <1>8

\* A translation goes into the cache.
LEMMA CacheFits ==
    ASSUME VmInv, NEW as \in Spaces, cur = as, cur' = cur, owned' = owned, NEW a \in Reachable(as), a \in UserPages,
           NEW x \in [f : Frames \cup {NoFrame}, w : BOOLEAN], Cache(a, x),
           mm'.pte = mm.pte, x.f = mm.pte[as][a].f, ~x.w => ~mm.pte[as][a].w
    PROVE  /\ TlbFits' /\ DOMAIN tlb' \subseteq UserPages
           /\ \A b \in DOMAIN tlb' : tlb'[b] \in [f : Frames \cup {NoFrame}, w : BOOLEAN]
<1>1. DOMAIN tlb' = DOMAIN tlb \cup {a} /\ \A b \in DOMAIN tlb' : tlb'[b] = IF b = a THEN x ELSE tlb[b]
  BY DEF Cache
<1>2. DOMAIN tlb \subseteq UserPages /\ \A b \in DOMAIN tlb : tlb[b] \in [f : Frames \cup {NoFrame}, w : BOOLEAN]
  BY InvIs DEF TypeOK
<1>3. DOMAIN tlb' \subseteq UserPages /\ \A b \in DOMAIN tlb' : tlb'[b] \in [f : Frames \cup {NoFrame}, w : BOOLEAN]
  BY <1>1, <1>2
<1>4. Reachable(cur)' = Reachable(cur)
  BY DEF Reachable
<1>5. TlbFits'
  <2>1. SUFFICES ASSUME NEW b \in DOMAIN tlb'
                 PROVE  /\ cur' \in Spaces
                        /\ ~tlb'[b].w => ~mm'.pte[cur'][b].w
                        /\ b \in Reachable(cur)' => tlb'[b].f = mm'.pte[cur'][b].f
    BY DEF TlbFits
  <2>2. CASE b = a
    BY <1>1, <2>2
  <2>3. CASE b # a
    <3>1. b \in DOMAIN tlb /\ tlb'[b] = tlb[b]
      BY <1>1, <2>3
    <3>2. /\ ~tlb[b].w => ~mm.pte[cur][b].w
          /\ b \in Reachable(cur) => tlb[b].f = mm.pte[cur][b].f
      BY <3>1, InvIs DEF TlbFits
    <3>. QED
      BY <1>4, <3>1, <3>2
  <2>. QED
    BY <2>2, <2>3
<1>. QED
  BY <1>3, <1>5

LEMMA ReadFits ==
    ASSUME VmInv, calls' \in 0 .. MaxCalls, NEW as \in Spaces, NEW a \in UserPages, Read(as, a)
    PROVE  VmInv'
<1>1. /\ Running(as, "user") /\ a \in Reachable(as) /\ Cache(a, Walked(as, a)) /\ cur = as
      /\ mm' = mm /\ sysBits' = sysBits /\ poolBits' = poolBits /\ bitmapOf' = bitmapOf /\ owned' = owned /\ at' = at
      /\ priv' = priv /\ cur' = cur /\ stopped' = stopped
  BY DEF Read, Running
<1>2. /\ Sound(mm', {}, HandlerRefs') /\ SlotsMatchBits' /\ ChildrenFit'
      /\ \A bs \in Spaces : PagesFit(bs)' /\ StepFits(bs)' /\ WindowFits(bs)'
  BY <1>1, NothingMoves
<1>3. PICK x : x = Walked(as, a)
  OBVIOUS
<1>4. x \in [f : Frames \cup {NoFrame}, w : BOOLEAN] /\ x.f = mm.pte[as][a].f /\ (~x.w => ~mm.pte[as][a].w)
  <2>1. x \in Translations(as, a)
    BY <1>3 DEF Translations
  <2>. QED
    BY <1>1, <2>1, UserPage
<1>5. /\ TlbFits' /\ DOMAIN tlb' \subseteq UserPages
      /\ \A b \in DOMAIN tlb' : tlb'[b] \in [f : Frames \cup {NoFrame}, w : BOOLEAN]
  BY <1>1, <1>3, <1>4, CacheFits
<1>6. TypeOK' /\ NoUnexpectedFault'
  BY <1>1, <1>5, InvIs DEF TypeOK, NoUnexpectedFault
<1>. QED
  BY <1>2, <1>5, <1>6, Assembled

\* What a write leaves in pages and behind fault handlers is what they need.
LastsBut(m, n, as, a) ==
    \A bs \in Spaces, b \in Pages : \A v : (bs # as \/ b # a) /\ Holds(m, bs, b, v) => Holds(n, bs, b, v)
OldsLast(m, n, h) == \A f \in Frames : \A v : h[f] > 0 /\ Keeps(m, f, v) => Keeps(n, f, v)
SamePages(m, n) == n.pte = m.pte /\ n.pde = m.pde /\ n.dir = m.dir

LEMMA WriteFits ==
    ASSUME VmInv, NEW as \in Spaces, at[as].what = "user", NEW a \in UserPages, a \in Reachable(as), NEW v,
           priv' = [priv EXCEPT ![as][a] = v], at' = at, owned' = owned, bitmapOf' = bitmapOf,
           SamePages(mm, mm'), LastsBut(mm, mm', as, a), OldsLast(mm, mm', HandlerRefs), Holds(mm', as, a, v)
    PROVE  \A bs \in Spaces : PagesFit(bs)' /\ StepFits(bs)'
<1>1. SUFFICES ASSUME NEW bs \in Spaces PROVE PagesFit(bs)' /\ StepFits(bs)'
  OBVIOUS
<1>2. /\ TypeOK /\ PagesFit(bs) /\ StepFits(bs) /\ priv \in [Spaces -> [UserPages -> Values]]
      /\ mm'.pte = mm.pte /\ mm'.pde = mm.pde /\ mm'.dir = mm.dir
  BY InvIs DEF TypeOK, SamePages
<1>3. \A cs : Reachable(cs)' = Reachable(cs)
  BY DEF Reachable
<1>4. ASSUME NEW cs \in Spaces, NEW b \in Reachable(cs), Holds(mm, cs, b, priv[cs][b])
      PROVE  Holds(mm', cs, b, priv'[cs][b])
  <2>1. b \in Pages /\ b \in UserPages
    BY <1>2, <1>4, ReachablePages
  <2>2. CASE cs = as /\ b = a
    <3>1. priv'[cs][b] = v
      BY <1>2, <2>1, <2>2
    <3>. QED
      BY <2>2, <3>1
  <2>3. CASE cs # as \/ b # a
    <3>1. priv'[cs][b] = priv[cs][b]
      BY <1>2, <2>1, <2>3
    <3>2. Holds(mm', cs, b, priv[cs][b])
      BY <1>4, <2>1, <2>3 DEF LastsBut
    <3>. QED
      BY <3>1, <3>2
  <2>. QED
    BY <2>2, <2>3
<1>5. \A cs \in Spaces : Empty(mm, cs) => Empty(mm', cs)
  BY <1>2 DEF Empty
<1>6. at[bs].what \in Cloning => at[bs].child \in Spaces
  BY <1>2 DEF StepFits
<1>7. PagesFit(bs)'
  <2>1. at[bs].what \in Populated =>
          \A b \in Reachable(bs) :
              at[bs].what \notin Handling \/ b # at[bs].page => Holds(mm', bs, b, priv'[bs][b])
    BY <1>2, <1>4 DEF PagesFit
  <2>2. at[bs].what = "clone bits" =>
          \A b \in Reachable(at[bs].child) : Holds(mm', at[bs].child, b, priv'[at[bs].child][b])
    BY <1>2, <1>4, <1>6 DEF PagesFit, Cloning
  <2>3. at[bs].what \in {"gone", "created"} => Empty(mm', bs) /\ owned[bs] = {}
    BY <1>2, <1>5 DEF PagesFit
  <2>4. at[bs].what = "clone space" => Empty(mm', at[bs].child) /\ owned[at[bs].child] = {}
    BY <1>2, <1>5, <1>6 DEF PagesFit, Cloning
  <2>. QED
    BY <1>3, <2>1, <2>2, <2>3, <2>4 DEF PagesFit
<1>8. StepFits(bs)'
  <2>1. at[bs].what \in Handling =>
          /\ at[bs].page \in Reachable(bs) /\ mm'.pde[bs][at[bs].page[1]] # NoFrame
          /\ at[bs].old \in Frames /\ Keeps(mm', at[bs].old, priv'[bs][at[bs].page])
    <3>1. SUFFICES ASSUME at[bs].what \in Handling
                   PROVE  /\ at[bs].page \in Reachable(bs) /\ mm'.pde[bs][at[bs].page[1]] # NoFrame
                          /\ at[bs].old \in Frames /\ Keeps(mm', at[bs].old, priv'[bs][at[bs].page])
      OBVIOUS
    <3>2. /\ at[bs].page \in Reachable(bs) /\ mm.pde[bs][at[bs].page[1]] # NoFrame
          /\ at[bs].old \in Frames /\ Keeps(mm, at[bs].old, priv[bs][at[bs].page])
      BY <1>2, <3>1 DEF StepFits
    <3>3. HandlerRefs[at[bs].old] > 0
      BY <3>1, <3>2, HandlerCounts, RefsAre
    <3>4. bs # as
      BY <3>1 DEF Handling
    <3>5. priv'[bs] = priv[bs]
      BY <1>2, <3>4
    <3>. QED
      BY <1>2, <3>2, <3>3, <3>5 DEF OldsLast
  <2>. QED
    BY <1>2, <1>3, <2>1 DEF StepFits
<1>. QED
  BY <1>7, <1>8

\* The program or the kernel writes: to a private frame, or the frame is tainted.
WriteDone(m, n, f, w, v) ==
    /\ n \in Memory /\ SameTables(m, n) /\ n.ref = m.ref /\ n.free = m.free /\ n.dir = m.dir
    /\ n.data[f] = v /\ (w \/ f \in n.taint)
    /\ \A g \in Frames : g # f => n.data[g] = m.data[g] /\ (g \in n.taint <=> g \in m.taint)

LEMMA WriteIs ==
    ASSUME NEW m \in Memory, NEW f \in Frames, NEW w, NEW v \in Values, NEW T \in SUBSET Frames,
           w \/ f \in T, \A g : g # f => (g \in T <=> g \in m.taint),
           NEW n, n = [m EXCEPT !.data[f] = v, !.taint = T]
    PROVE  WriteDone(m, n, f, w, v)
<1>1. m.data \in [Frames -> Values]
  BY MemoryTypes
<1>2. PICK d : d = [m.data EXCEPT ![f] = v]
  OBVIOUS
<1>3. d \in [Frames -> Values] /\ d[f] = v /\ \A g \in Frames : g # f => d[g] = m.data[g]
  BY <1>1, <1>2
<1>4. n = [m EXCEPT !.data = d, !.taint = T]
  BY <1>2 DEF Memory
<1>5. /\ n \in Memory /\ n.data = d /\ n.taint = T /\ n.pte = m.pte /\ n.pde = m.pde /\ n.sys = m.sys
      /\ n.ref = m.ref /\ n.free = m.free /\ n.dir = m.dir
  BY <1>3, <1>4 DEF Memory
<1>. QED
  BY <1>3, <1>5 DEF WriteDone, SameTables

\* The only reference to a frame, from a page.
Single(m, as, a, f) == f = m.pte[as][a].f /\ m.ref[f] = 1
Alone(m, h, as, a, f) == h[f] = 0 /\ \A bs \in Spaces, b \in Pages : bs # as \/ b # a => m.pte[bs][b].f # f

LEMMA SingleAlone ==
    ASSUME NEW m, NEW X, NEW h \in Extras, Sound(m, X, h), NEW as \in Spaces, NEW a \in Pages,
           NEW f \in Frames, Single(m, as, a, f)
    PROVE  Alone(m, h, as, a, f)
<1>1. m.pte[as][a].f # NoFrame /\ m.ref[m.pte[as][a].f] = 1
  BY Sizes DEF Single
<1>2. PICK ps, p : ps = as /\ p = a
  OBVIOUS
<1>3. ps \in Spaces /\ p \in Pages /\ m.pte[ps][p].f # NoFrame
  BY <1>1, <1>2
<1>4. m.ref[m.pte[ps][p].f] = 1
  BY <1>1, <1>2
<1>5. h[m.pte[ps][p].f] = 0
  BY ONLY <1>3, <1>4, Sound(m, X, h), h \in Extras, AloneWithOne
<1>6. \A bs \in Spaces, b \in Pages : bs # ps \/ b # p => m.pte[bs][b].f # m.pte[ps][p].f
  BY ONLY <1>3, <1>4, Sound(m, X, h), h \in Extras, AloneWithOne
<1>. QED
  BY <1>2, <1>5, <1>6 DEF Single, Alone

LEMMA WriteLasts ==
    ASSUME NEW m, NEW h \in Extras, Sound(m, {}, h), NEW as \in Spaces, NEW a \in UserPages, NEW f \in Frames,
           m.pte[as][a].f = f, NEW w, w = m.pte[as][a].w, NEW v, NEW n, WriteDone(m, n, f, w, v)
    PROVE  /\ Sound(n, {}, h) /\ SamePages(m, n) /\ n.sys = m.sys
           /\ LastsBut(m, n, as, a) /\ OldsLast(m, n, h) /\ Holds(n, as, a, v)
<1>1. /\ n \in Memory /\ SameTables(m, n) /\ n.ref = m.ref /\ n.free = m.free /\ n.dir = m.dir
      /\ n.data[f] = v /\ (w \/ f \in n.taint)
      /\ \A g \in Frames : g # f => n.data[g] = m.data[g] /\ (g \in n.taint <=> g \in m.taint)
  BY DEF WriteDone
<1>2. n.pte = m.pte /\ n.pde = m.pde /\ n.sys = m.sys
  BY <1>1 DEF SameTables
<1>3. a \in Pages /\ f # NoFrame /\ m \in Memory
  BY PageRegions, Sizes, SoundIs
<1>4. m.ref[f] > 0
  BY <1>3, MappedReferenced
<1>5. Sound(n, {}, h)
  <2>1. \A g \in Frames : m.ref[g] = 0 => g # f
    BY <1>4
  <2>2. DataDone(m, n)
    BY <1>1, <2>1 DEF DataDone
  <2>. QED
    BY <2>2, DataSound
<1>6. f \in n.taint \/ (m.ref[f] = 1 /\ w)
  <2>1. PteFits(m, as, a)
    BY <1>3, SoundIs
  <2>. QED
    BY <1>1, <2>1 DEF PteFits
<1>6a. ASSUME m.ref[f] = 1
       PROVE  h[f] = 0 /\ \A bs \in Spaces, b \in Pages : bs # as \/ b # a => m.pte[bs][b].f # f
  <2>1. Single(m, as, a, f)
    BY <1>6a DEF Single
  <2>2. Alone(m, h, as, a, f)
    BY <1>3, <2>1, SingleAlone
  <2>. QED
    BY <2>2 DEF Alone
<1>7. ASSUME NEW g \in Frames, NEW u, Keeps(m, g, u), g # f \/ f \in n.taint PROVE Keeps(n, g, u)
  <2>1. CASE g = f
    BY <1>7, <2>1 DEF Keeps
  <2>2. CASE g # f
    BY <1>1, <1>7, <2>2 DEF Keeps
  <2>. QED
    BY <2>1, <2>2
<1>8. LastsBut(m, n, as, a)
  <2>1. SUFFICES ASSUME NEW bs \in Spaces, NEW b \in Pages, NEW u, bs # as \/ b # a, Holds(m, bs, b, u)
                 PROVE  Holds(n, bs, b, u)
    BY DEF LastsBut
  <2>2. PICK g : g = m.pte[bs][b].f
    OBVIOUS
  <2>3. g # NoFrame /\ g \in Frames /\ Keeps(m, g, u)
    BY <1>3, <2>1, <2>2, EntryTypes DEF Holds, Valid
  <2>4. g # f \/ f \in n.taint
    <3>1. CASE f \in n.taint
      BY <3>1
    <3>2. CASE m.ref[f] = 1
      BY <1>6a, <2>1, <2>2, <3>2
    <3>. QED
      BY <1>6, <3>1, <3>2
  <2>5. Keeps(n, g, u)
    BY <1>7, <2>3, <2>4
  <2>. QED
    BY <1>2, <2>2, <2>3, <2>5 DEF Holds, Valid
<1>9. OldsLast(m, n, h)
  <2>1. SUFFICES ASSUME NEW g \in Frames, NEW u, h[g] > 0, Keeps(m, g, u) PROVE Keeps(n, g, u)
    BY DEF OldsLast
  <2>2. g # f \/ f \in n.taint
    <3>1. CASE f \in n.taint
      BY <3>1
    <3>2. CASE m.ref[f] = 1
      <4>1. h[f] = 0
        BY <1>6a, <3>2
      <4>. QED
        BY <2>1, <4>1
    <3>. QED
      BY <1>6, <3>1, <3>2
  <2>. QED
    BY <1>7, <2>1, <2>2
<1>10. Holds(n, as, a, v)
  BY <1>1, <1>2, <1>3 DEF Holds, Valid, Keeps
<1>. QED
  BY <1>1, <1>2, <1>5, <1>8, <1>9, <1>10 DEF SamePages

LEMMA PutFits ==
    ASSUME VmInv, calls' \in 0 .. MaxCalls, NEW as \in Spaces, Running(as, "user"), NEW a \in Reachable(as),
           NEW x \in Translations(as, a), NEW v \in Values, Put(as, a, x, v)
    PROVE  VmInv'
<1>1. /\ cur = as /\ at[as].what = "user"
      /\ mm' = [mm EXCEPT !.data[x.f] = v, !.taint = Tainted(as, a, x.f)]
      /\ Cache(a, x) /\ priv' = [priv EXCEPT ![as][a] = v]
      /\ sysBits' = sysBits /\ poolBits' = poolBits /\ bitmapOf' = bitmapOf /\ owned' = owned /\ at' = at
      /\ cur' = cur /\ stopped' = stopped
  BY DEF Put, Running
<1>2. /\ TypeOK /\ NoUnexpectedFault /\ SlotsMatchBits /\ priv \in [Spaces -> [UserPages -> Values]]
      /\ Sound(mm, {}, HandlerRefs) /\ HandlerRefs \in Extras /\ mm \in Memory
  BY InvIs DEF TypeOK
<1>3. /\ a \in UserPages /\ a \in Pages /\ mm.pte[as][a].f \in Frames /\ x.f = mm.pte[as][a].f
      /\ x \in [f : Frames \cup {NoFrame}, w : BOOLEAN] /\ (~x.w => ~mm.pte[as][a].w)
  BY UserPage
<1>4. PICK m, n, h, f, w : m = mm /\ n = mm' /\ h = HandlerRefs /\ f = x.f /\ w = mm.pte[as][a].w
  OBVIOUS
<1>5. f \in Frames /\ w \in BOOLEAN /\ (Walked(as, a) = [f |-> f, w |-> TRUE] <=> w)
  <2>1. w \in BOOLEAN
    BY <1>2, <1>3, <1>4, EntryTypes
  <2>2. Walked(as, a) = [f |-> f, w |-> w]
    BY <1>3, <1>4 DEF Walked
  <2>3. [f |-> f, w |-> w] = [f |-> f, w |-> TRUE] => w
    <3>1. [f |-> f, w |-> w] = [f |-> f, w |-> TRUE] => [f |-> f, w |-> w].w = [f |-> f, w |-> TRUE].w
      OBVIOUS
    <3>2. [f |-> f, w |-> w].w = w /\ [f |-> f, w |-> TRUE].w = TRUE
      OBVIOUS
    <3>. QED
      BY <3>1, <3>2
  <2>4. w => w = TRUE
    BY <2>1
  <2>5. f \in Frames
    BY <1>3, <1>4
  <2>. QED
    BY <2>1, <2>2, <2>3, <2>4, <2>5
<1>6. WriteDone(m, n, f, w, v)
  <2>1. PICK T : T = Tainted(as, a, f)
    OBVIOUS
  <2>2. n = [m EXCEPT !.data[f] = v, !.taint = T]
    BY <1>1, <1>4, <2>1
  <2>3. m.taint \in SUBSET Frames
    BY <1>2, <1>4, MemoryTypes
  <2>4. T \in SUBSET Frames /\ (w \/ f \in T) /\ \A g : g # f => (g \in T <=> g \in m.taint)
    BY <1>4, <1>5, <2>1, <2>3 DEF Tainted
  <2>. QED
    BY <1>2, <1>4, <1>5, <2>2, <2>4, WriteIs
<1>7. /\ Sound(n, {}, h) /\ SamePages(m, n) /\ n.sys = m.sys
      /\ LastsBut(m, n, as, a) /\ OldsLast(m, n, h) /\ Holds(n, as, a, v)
  <2>1. Sound(m, {}, h) /\ h \in Extras
    BY <1>2, <1>4
  <2>2. m.pte[as][a].f = f /\ w = m.pte[as][a].w
    BY <1>3, <1>4
  <2>. QED
    BY <1>3, <1>5, <1>6, <2>1, <2>2, WriteLasts
<1>8. Sound(mm', {}, HandlerRefs')
  <2>1. HandlerRefs' = h
    BY <1>1, <1>4, RefsAre
  <2>. QED
    BY <1>4, <1>7, <2>1
<1>9. \A bs \in Spaces : PagesFit(bs)' /\ StepFits(bs)'
  BY <1>1, <1>3, <1>4, <1>7, WriteFits
<1>10. mm'.pte = mm.pte /\ mm'.pde = mm.pde
  BY <1>4, <1>7 DEF SamePages
<1>11. \A bs \in Spaces : WindowFits(bs)'
  <2>1. NewPrograms(mm, mm')
    BY <1>10, SamePrograms
  <2>. QED
    BY <1>1, <1>10, <2>1, WindowStays
<1>12. /\ TlbFits' /\ DOMAIN tlb' \subseteq UserPages
       /\ \A b \in DOMAIN tlb' : tlb'[b] \in [f : Frames \cup {NoFrame}, w : BOOLEAN]
  BY <1>1, <1>3, <1>10, CacheFits
<1>13. priv' \in [Spaces -> [UserPages -> Values]]
  BY <1>1, <1>2, <1>3
<1>14. mm' \in Memory
  BY <1>8, SoundIs
<1>15. TypeOK' /\ NoUnexpectedFault'
  BY <1>1, <1>2, <1>12, <1>13, <1>14 DEF TypeOK, NoUnexpectedFault
<1>16. SlotsMatchBits'
  BY <1>1, <1>2, <1>4, <1>7 DEF SlotsMatchBits
<1>17. ChildrenFit'
  BY <1>1, ChildrenStay
<1>. QED
  BY <1>8, <1>9, <1>11, <1>12, <1>15, <1>16, <1>17, Assembled

LEMMA AccessFits ==
    ASSUME VmInv, calls' \in 0 .. MaxCalls, NEW as \in Spaces, NEW a \in UserPages, NEW v \in Values,
           Write(as, a, v) \/ KernelWrite(as, a, v)
    PROVE  VmInv'
<1>1. Running(as, "user") /\ a \in Reachable(as) /\ \E x \in Translations(as, a) : Put(as, a, x, v)
  BY DEF Write, KernelWrite
<1>2. PICK x \in Translations(as, a) : Put(as, a, x, v)
  BY <1>1
<1>. QED
  BY <1>1, <1>2, PutFits

\* A page of a program moves, and its translation goes.
LEMMA OnePageFits ==
    ASSUME VmInv, calls' \in 0 .. MaxCalls, NEW as \in Spaces, NEW a \in UserPages, cur = as, at[as].what # "child",
           Sound(mm', {}, HandlerRefs'), OnePage(mm, mm', as, a), mm'.sys = mm.sys, InvalidateTLB({a}),
           at' \in [Spaces -> Doings], \A bs \in Spaces : bs # as => at'[bs] = at[bs], at'[as].what \notin Cloning,
           at[as].what \in {"temp", "mapped"} => at'[as].what \in {"temp", "mapped"} /\ at'[as].temp = at[as].temp,
           sysBits' = sysBits, poolBits' = poolBits, bitmapOf' = bitmapOf, owned' = owned, cur' = cur, priv' = priv,
           stopped' = stopped, PagesFit(as)', StepFits(as)'
    PROVE  VmInv'
<1>1. TypeOK /\ NoUnexpectedFault /\ SlotsMatchBits
  BY InvIs
<1>2. /\ NewPrograms(mm, mm') /\ DataLasts(mm, mm')
      /\ \A bs \in Spaces : bs # as => Stays(mm, mm', bs)
      /\ \A bs \in Spaces, b \in TempPages : mm'.pte[bs][b] = mm.pte[bs][b]
  <2>1. OnlyOne(mm, mm', as, a)
    BY OnePageIs
  <2>. QED
    BY <2>1 DEF OnlyOne
<1>3. TlbFits' /\ DOMAIN tlb' \subseteq UserPages
      /\ \A b \in DOMAIN tlb' : tlb'[b] \in [f : Frames \cup {NoFrame}, w : BOOLEAN]
  <2>1. \A b \in DOMAIN tlb' : b \in DOMAIN tlb /\ b # a /\ tlb'[b] = tlb[b]
    BY DEF InvalidateTLB
  <2>2. Reachable(as)' = Reachable(as)
    BY DEF Reachable
  <2>. QED
    BY <2>1, <2>2, OnePageTlb
<1>4. mm' \in Memory
  BY SoundIs
<1>5. TypeOK' /\ NoUnexpectedFault'
  BY <1>1, <1>3, <1>4 DEF TypeOK, NoUnexpectedFault
<1>6. SlotsMatchBits'
  BY <1>1 DEF SlotsMatchBits
<1>7. ChildrenFit'
  <2>1. ASSUME NEW bs \in Spaces, at'[bs].what \in Cloning
        PROVE  at[bs].what \in Cloning /\ at'[bs].child = at[bs].child
    BY <2>1
  <2>. QED
    BY <2>1, ChildrenStay
<1>8. \A bs \in Spaces : WindowFits(bs)'
  <2>1. SUFFICES ASSUME NEW bs \in Spaces PROVE WindowFits(bs)'
    OBVIOUS
  <2>2. at[bs].what \in {"temp", "mapped"} => at'[bs].what \in {"temp", "mapped"} /\ at'[bs].temp = at[bs].temp
    OBVIOUS
  <2>. QED
    BY <1>2, <2>2, WindowStays
<1>9. \A bs \in Spaces : bs # as => Bystander(bs)
  BY <1>2 DEF Bystander, Idle
<1>10. \A bs \in Spaces : bs # as => PagesFit(bs)' /\ StepFits(bs)'
  BY <1>2, <1>9, OthersFit
<1>. QED
  BY <1>3, <1>5, <1>6, <1>7, <1>8, <1>10, Assembled

\* A frame that a handler has is not writable.
LEMMA HeldNotWritable ==
    ASSUME NEW m, NEW X, NEW h \in Extras, Sound(m, X, h), NEW f \in Frames, h[f] > 0
    PROVE  NotWritable(m, f)
<1>1. SUFFICES ASSUME NEW as \in Spaces, NEW a \in UserPages, m.pte[as][a].w, m.pte[as][a].f = f PROVE FALSE
  BY DEF NotWritable
<1>2. a \in Pages
  BY PageRegions
<1>3. PteFits(m, as, a)
  BY <1>2, SoundIs
<1>4. Single(m, as, a, f)
  BY <1>1, <1>3 DEF PteFits, Single
<1>5. Alone(m, h, as, a, f)
  BY <1>2, <1>4, SingleAlone
<1>6. h[f] = 0
  BY <1>5 DEF Alone
<1>. QED
  BY <1>6

\* A copy-on-write entry made writable again is a new one.
LEMMA WritableAgain ==
    ASSUME NEW e \in Pte
    PROVE  [e EXCEPT !.w = TRUE, !.cow = FALSE] = NewPte(e.f)
<1>0. PICK y \in BOOLEAN, z \in BOOLEAN : y = TRUE /\ z = FALSE
  OBVIOUS
<1>1. PICK d : d = [e EXCEPT !.w = y, !.cow = z]
  OBVIOUS
<1>2. PICK c : c = [e EXCEPT !.w = y]
  OBVIOUS
<1>3. c \in Pte /\ c.f = e.f /\ c.w = y
  BY <1>2 DEF Pte
<1>4. d = [c EXCEPT !.cow = z]
  BY <1>1, <1>2
<1>5. d \in Pte /\ d.f = e.f /\ d.w = y /\ d.cow = z
  BY <1>3, <1>4 DEF Pte
<1>6. d = [f |-> d.f, w |-> d.w, cow |-> d.cow]
  BY <1>5 DEF Pte
<1>. QED
  BY <1>0, <1>1, <1>5, <1>6 DEF NewPte

\* The fault handler's fast path: the page is writable again.
FastDone(m, n, as, a, f) ==
    /\ m.pte[as][a].f = f /\ m.ref[f] = 1 /\ n = WithPte(m, as, a, NewPte(f))

PteIs(n, as, a, f) == n.pte[as][a].f = f

LEMMA FastSound ==
    ASSUME NEW m, NEW h \in Extras, Sound(m, {}, h), NEW as \in Spaces, NEW a \in UserPages, NEW f \in Frames,
           NEW n, FastDone(m, n, as, a, f)
    PROVE  Sound(n, {}, h) /\ OnePage(m, n, as, a) /\ n.sys = m.sys /\ PteIs(n, as, a, f)
<1>1. m.pte[as][a].f = f /\ m.ref[f] = 1 /\ n = WithPte(m, as, a, NewPte(f)) /\ a \in Pages
  BY PageRegions DEF FastDone
<1>2. Sound(n, {}, h) /\ PteSet(m, n, as, a, NewPte(f))
  BY <1>1, WritableSound
<1>3. n.pte[as][a] = NewPte(f) /\ OnlyPte(m, n, as, a) /\ n.data = m.data /\ n.taint = m.taint /\ n.dir = m.dir
  BY <1>2 DEF PteSet, Rest
<1>4. n.pte[as][a].f = f
  BY <1>3, NewPteIs
<1>5. OthersSame(m, n, as, a) /\ n.pde = m.pde /\ n.sys = m.sys
  BY <1>3 DEF OnlyPte, OthersSame
<1>6. KeepsTables(m, n) /\ TablesSame(m, n, as, a[1])
  BY <1>5, TablesTrans
<1>7. DataLasts(m, n)
  <2>1. SameData(m, n)
    BY <1>3 DEF SameData
  <2>. QED
    BY <2>1, SameDataLasts
<1>. QED
  BY <1>1, <1>2, <1>3, <1>4, <1>5, <1>6, <1>7 DEF OnePage, PteIs

\* The slow path: the handler takes a reference and unmaps the page.
SlowDone(m, n, as, a, f) ==
    /\ m.pte[as][a].f = f /\ m.ref[f] # 1 /\ n = MiRemovePage(Counting(m, f), as, a)

LEMMA SlowSound ==
    ASSUME NEW m, NEW h \in Extras, Sound(m, {}, h), NEW as \in Spaces, NEW a \in UserPages, NEW f \in Frames,
           NEW n, SlowDone(m, n, as, a, f)
    PROVE  Sound(n, {}, Up(h, f)) /\ OnePage(m, n, as, a) /\ n.sys = m.sys /\ n.pte[as][a] = NoPte
<1>1. m.pte[as][a].f = f /\ m.ref[f] # 1 /\ n = MiRemovePage(Counting(m, f), as, a) /\ a \in Pages /\ f # NoFrame
  BY PageRegions, Sizes DEF SlowDone
<1>2. m \in Memory
  BY SoundIs
<1>3. f \notin m.free
  <2>1. m.ref[f] > 0
    BY <1>1, MappedReferenced
  <2>. QED
    BY <2>1, SoundIs
<1>4. NotWritable(m, f)
  <2>1. SUFFICES ASSUME NEW bs \in Spaces, NEW b \in UserPages, m.pte[bs][b].w, m.pte[bs][b].f = f PROVE FALSE
    BY DEF NotWritable
  <2>2. b \in Pages
    BY PageRegions
  <2>3. PteFits(m, bs, b)
    BY <2>2, SoundIs
  <2>. QED
    BY <1>1, <2>1, <2>3 DEF PteFits
<1>5. PICK k, g : k = Counting(m, f) /\ g = Up(h, f)
  OBVIOUS
<1>6. Sound(k, {}, g) /\ g \in Extras
  <2>1. Sound(k, {} \ {f}, g)
    BY <1>3, <1>4, <1>5, CountingSound
  <2>2. {} \ {f} = {}
    OBVIOUS
  <2>. QED
    BY <1>5, <2>1, <2>2, UpIs
<1>7. /\ k.pte = m.pte /\ k.pde = m.pde /\ k.sys = m.sys /\ k.data = m.data /\ k.taint = m.taint /\ k.dir = m.dir
      /\ k.ref[f] = m.ref[f] + 1 /\ \A e \in Frames : e # f => k.ref[e] = m.ref[e]
  BY <1>2, <1>5, CountingIs DEF SameTables
<1>8. Sound(n, {}, g) /\ RemoveDone(k, n, as, a)
  <2>1. k.pte[as][a].f # NoFrame
    BY <1>1, <1>7
  <2>. QED
    BY <1>1, <1>5, <1>6, <2>1, RemoveSound
<1>9. n.pte[as][a] = NoPte /\ OthersSame(k, n, as, a) /\ n.pde = k.pde /\ n.sys = k.sys /\ n.dir = k.dir /\ SameData(k, n)
  BY <1>8 DEF RemoveDone
<1>10. OthersSame(m, n, as, a) /\ n.pde = m.pde /\ n.sys = m.sys /\ n.dir = m.dir /\ n.pte[as][a].f = NoFrame
  BY <1>7, <1>9, OthersTrans, NoPteIs
<1>11. KeepsTables(m, n) /\ TablesSame(m, n, as, a[1])
  BY <1>10, TablesTrans
<1>12. DataLasts(m, n)
  <2>1. \A e \in Frames : m.ref[e] \in Nat
    BY SoundIs
  <2>2. \A e \in Frames : m.ref[e] > 0 => k.ref[e] > 0
    BY <1>7, <2>1
  <2>3. SameData(m, n)
    BY <1>7, <1>9, <2>2 DEF SameData
  <2>. QED
    BY <2>3, SameDataLasts
<1>. QED
  BY <1>5, <1>8, <1>9, <1>10, <1>11, <1>12 DEF OnePage

LEMMA FaultFits ==
    ASSUME VmInv, calls' \in 0 .. MaxCalls, NEW as \in Spaces, NEW a \in UserPages, MmPfHandler(as, a)
    PROVE  VmInv'
<1>0. cur = as /\ at[as].what = "user" /\ Running(as, "user") /\ a \in Reachable(as) /\ \E x \in Translations(as, a) : ~x.w
  BY DEF MmPfHandler, Running
<1>1. PICK e, f : e = mm.pte[as][a] /\ f = e.f
  OBVIOUS
<1>2. /\ a \in Pages /\ f \in Frames /\ mm.pde[as][a[1]] # NoFrame /\ ~e.w /\ e.cow
      /\ Holds(mm, as, a, priv[as][a])
  BY <1>0, <1>1, UserPage
<1>3. /\ InvalidateTLB({a})
      /\ \/ LastReference(f) /\ mm' = [mm EXCEPT !.pte[as][a] = [e EXCEPT !.w = TRUE, !.cow = FALSE]] /\ at' = at
         \/ /\ ~LastReference(f) /\ mm' = MiRemovePage(Referenced(mm, e), as, a)
            /\ at' = [at EXCEPT ![as] = [Doing("removed") EXCEPT !.page = a, !.old = f]]
      /\ sysBits' = sysBits /\ poolBits' = poolBits /\ bitmapOf' = bitmapOf /\ owned' = owned /\ cur' = cur
      /\ priv' = priv /\ stopped' = stopped
  BY <1>1, <1>2 DEF MmPfHandler
<1>4. PICK m, n, h : m = mm /\ n = mm' /\ h = HandlerRefs
  OBVIOUS
<1>5. /\ Sound(m, {}, h) /\ h \in Extras /\ m \in Memory /\ at \in [Spaces -> Doings] /\ TypeOK
      /\ mm.dir[as] \in Slots /\ bitmapOf[as] \in Slots /\ m.pte[as][a] \in Pte
  <2>1. Sound(m, {}, h) /\ h \in Extras /\ m \in Memory /\ at \in [Spaces -> Doings] /\ TypeOK /\ StepFits(as)
    BY <1>4, InvIs DEF TypeOK
  <2>2. m.pte[as][a] \in Pte
    BY <1>2, <2>1, EntryTypes
  <2>. QED
    BY <1>0, <2>1, <2>2 DEF StepFits
<1>6. /\ Reachable(as)' = Reachable(as)
      /\ \A b \in Reachable(as) : b \in UserPages /\ b \in Pages /\ Holds(mm, as, b, priv[as][b])
  BY <1>0, <1>3, <1>5, InvIs, ReachablePages DEF Reachable, PagesFit, Populated, Handling
<1>7. CASE LastReference(f)
  <2>1. mm' = [mm EXCEPT !.pte[as][a] = [e EXCEPT !.w = TRUE, !.cow = FALSE]] /\ at' = at /\ m.ref[f] = 1
    BY <1>3, <1>4, <1>7 DEF LastReference
  <2>2. [e EXCEPT !.w = TRUE, !.cow = FALSE] = NewPte(f)
    <3>1. e \in Pte
      BY <1>1, <1>4, <1>5
    <3>2. [e EXCEPT !.w = TRUE, !.cow = FALSE] = NewPte(e.f)
      BY <3>1, WritableAgain
    <3>. QED
      BY <1>1, <3>2
  <2>3. FastDone(m, n, as, a, f)
    BY <1>1, <1>4, <2>1, <2>2 DEF FastDone, WithPte
  <2>4. Sound(n, {}, h) /\ OnePage(m, n, as, a) /\ n.sys = m.sys /\ n.pte[as][a].f = f
    <3>0. f \in Frames /\ Sound(m, {}, h) /\ h \in Extras
      BY <1>2, <1>5
    <3>1. Sound(n, {}, h) /\ OnePage(m, n, as, a) /\ n.sys = m.sys /\ PteIs(n, as, a, f)
      BY <2>3, <3>0, FastSound
    <3>. QED
      BY <3>1 DEF PteIs
  <2>5. Sound(mm', {}, HandlerRefs')
    <3>1. HandlerRefs' = h
      BY <1>4, <2>1, RefsAre
    <3>. QED
      BY <1>4, <2>4, <3>1
  <2>6. PagesFit(as)'
    <3>1. ASSUME NEW b \in Reachable(as) PROVE Holds(mm', as, b, priv[as][b])
      <4>1. CASE b # a
        BY <1>4, <1>6, <2>4, <2>5, <4>1, OtherPagesHold
      <4>2. CASE b = a
        <5>1. n.pte[as][a].f = m.pte[as][a].f /\ DataLasts(m, n) /\ Holds(m, as, a, priv[as][a])
          BY <1>1, <1>2, <1>4, <2>4 DEF OnePage
        <5>2. Holds(n, as, a, priv[as][a])
          BY <1>2, <1>5, <2>4, <5>1, HoldsLasts
        <5>. QED
          BY <1>4, <4>2, <5>2
      <4>. QED
        BY <4>1, <4>2
    <3>. QED
      BY <1>0, <1>3, <1>6, <2>1, <3>1 DEF PagesFit, Populated, Handling
  <2>7. StepFits(as)'
    <3>1. mm'.dir = mm.dir
      BY <1>4, <2>4 DEF OnePage
    <3>. QED
      BY <1>0, <1>3, <1>5, <2>1, <3>1 DEF StepFits, Cloning, Handling
  <2>8. OnePage(mm, mm', as, a) /\ mm'.sys = mm.sys
    BY <1>4, <2>4
  <2>. QED
    BY <1>0, <1>3, <1>5, <2>1, <2>5, <2>6, <2>7, <2>8, OnePageFits DEF Cloning
<1>8. CASE ~LastReference(f)
  <2>1. mm' = MiRemovePage(Referenced(mm, e), as, a) /\ m.ref[f] # 1
        /\ at' = [at EXCEPT ![as] = [Doing("removed") EXCEPT !.page = a, !.old = f]]
    BY <1>3, <1>4, <1>8 DEF LastReference
  <2>2. SlowDone(m, n, as, a, f)
    BY <1>1, <1>4, <2>1 DEF SlowDone, Referenced, Counting
  <2>3. Sound(n, {}, Up(h, f)) /\ OnePage(m, n, as, a) /\ n.sys = m.sys /\ n.pte[as][a] = NoPte
    BY <1>2, <1>5, <2>2, SlowSound
  <2>4. PICK d : d = [Doing("removed") EXCEPT !.page = a, !.old = f]
    OBVIOUS
  <2>5. d \in Doings /\ d.what = "removed" /\ d.page = a /\ d.old = f
    <3>1. Doing("removed") \in Doings /\ Doing("removed").what = "removed"
      BY DoingIs DEF Steps
    <3>. QED
      BY <1>2, <2>4, <3>1 DEF Doings
  <2>6. at' \in [Spaces -> Doings] /\ at'[as] = d /\ \A bs \in Spaces : bs # as => at'[bs] = at[bs]
    BY <1>5, <2>1, <2>4, <2>5
  <2>7. HandlerRefs' = Up(h, f) /\ Up(h, f)[f] > 0
    <3>1. Joins(at, at', as, f)
      BY <1>0, <2>5, <2>6 DEF Joins, Handling
    <3>2. RefsOf(at') = Up(RefsOf(at), f)
      BY <1>2, <3>1, RefsUp
    <3>3. Up(h, f)[f] > 0
      <4>1. Up(h, f)[f] = h[f] + 1 /\ h[f] \in Nat
        BY <1>2, <1>5, UpIs
      <4>. QED
        BY <4>1
    <3>. QED
      BY <1>4, <3>2, <3>3, RefsAre
  <2>8. Sound(mm', {}, HandlerRefs')
    BY <1>4, <2>3, <2>7
  <2>9. OnePage(mm, mm', as, a) /\ mm'.sys = mm.sys
    BY <1>4, <2>3
  <2>10. PagesFit(as)'
    <3>1. ASSUME NEW b \in Reachable(as), b # a PROVE Holds(mm', as, b, priv[as][b])
      BY <1>6, <2>8, <2>9, <3>1, OtherPagesHold
    <3>. QED
      BY <1>3, <1>6, <2>5, <2>6, <3>1 DEF PagesFit, Populated, Handling
  <2>11. Keeps(mm', f, priv[as][a])
    <3>1. Keeps(m, f, priv[as][a]) /\ DataLasts(m, n)
      BY <1>1, <1>2, <1>4, <2>3 DEF Holds, OnePage
    <3>2. m.ref[f] > 0
      BY <1>1, <1>2, <1>4, <1>5, Sizes, MappedReferenced
    <3>3. n.ref[f] > 0
      <4>1. PICK g : g = Up(h, f)
        OBVIOUS
      <4>2. g \in Extras /\ g[f] > 0 /\ Sound(n, {}, g)
        BY <1>2, <1>5, <2>3, <2>7, <4>1, UpIs
      <4>. QED
        BY <1>2, <4>2, MappedReferenced
    <3>4. FrameLasts(m, n, f)
      BY <1>2, <3>1, <3>2, <3>3 DEF DataLasts
    <3>. QED
      BY <1>4, <3>1, <3>4 DEF Keeps, FrameLasts
  <2>12. StepFits(as)'
    <3>1. mm'.dir = mm.dir /\ mm'.pde[as][a[1]] # NoFrame /\ mm'.pte[as][a] = NoPte
      <4>1. a[1] \in Region
        BY <1>2, PageRegions
      <4>. QED
        BY <1>2, <1>4, <2>3, <4>1 DEF OnePage, KeepsTables
    <3>. QED
      BY <1>0, <1>2, <1>3, <1>5, <1>6, <2>5, <2>6, <2>11, <3>1 DEF StepFits, Cloning, Handling
  <2>. QED
    BY <1>0, <1>3, <2>5, <2>6, <2>8, <2>9, <2>10, <2>12, OnePageFits DEF Cloning
<1>. QED
  BY <1>7, <1>8

\* A window page of a fault handler moves.
LEMMA WindowPageFits ==
    ASSUME VmInv, calls' \in 0 .. MaxCalls, NEW as \in Spaces, NEW t \in TempPages, cur = as,
           Sound(mm', {}, HandlerRefs'), OthersSame(mm, mm', as, t), mm'.sys = mm.sys,
           at' \in [Spaces -> Doings], \A bs \in Spaces : bs # as => at'[bs] = at[bs],
           at[as].what \in Handling, at'[as].what \notin Cloning,
           \A b \in TempPages : b # t /\ ~(at'[as].what \in {"temp", "mapped"} /\ b = at'[as].temp) =>
                                    ~(at[as].what \in {"temp", "mapped"} /\ b = at[as].temp),
           Valid(mm', as, t) => at'[as].what \in {"temp", "mapped"} /\ t = at'[as].temp,
           sysBits' = sysBits, poolBits' = poolBits, bitmapOf' = bitmapOf, owned' = owned, cur' = cur, tlb' = tlb,
           priv' = priv, stopped' = stopped, \A bs \in Spaces : PagesFit(bs)' /\ StepFits(bs)'
    PROVE  VmInv'
<1>1. TypeOK /\ NoUnexpectedFault /\ SlotsMatchBits /\ DOMAIN tlb \subseteq UserPages
  BY InvIs DEF TypeOK
<1>2. /\ \A bs \in Spaces, b \in UserPages : mm'.pte[bs][b] = mm.pte[bs][b]
      /\ \A bs \in Spaces, b \in TempPages : bs # as \/ b # t => mm'.pte[bs][b] = mm.pte[bs][b]
  <2>1. \A b \in UserPages : b \in Pages /\ b # t
    BY PageRegions
  <2>2. \A b \in TempPages : b \in Pages
    BY PageRegions
  <2>. QED
    BY <2>1, <2>2 DEF OthersSame
<1>3. TlbFits' /\ DOMAIN tlb' \subseteq UserPages
      /\ \A b \in DOMAIN tlb' : tlb'[b] \in [f : Frames \cup {NoFrame}, w : BOOLEAN]
  <2>1. Reachable(cur)' = Reachable(cur)
    BY DEF Reachable
  <2>2. TlbLasts
    BY <1>1, <1>2, <2>1 DEF TlbLasts
  <2>. QED
    BY <2>2, TlbStays
<1>4. mm' \in Memory
  BY SoundIs
<1>5. TypeOK' /\ NoUnexpectedFault'
  BY <1>1, <1>3, <1>4 DEF TypeOK, NoUnexpectedFault
<1>6. SlotsMatchBits'
  BY <1>1 DEF SlotsMatchBits
<1>7. ChildrenFit'
  <2>1. ASSUME NEW bs \in Spaces, at'[bs].what \in Cloning
        PROVE  at[bs].what \in Cloning /\ at'[bs].child = at[bs].child
    BY <2>1
  <2>. QED
    BY <2>1, ChildrenStay
<1>8. \A bs \in Spaces : WindowFits(bs)'
  <2>1. SUFFICES ASSUME NEW bs \in Spaces PROVE WindowFits(bs)'
    OBVIOUS
  <2>2. CASE bs # as
    <3>1. NewPrograms(mm, mm')
      BY <1>2, SamePrograms
    <3>2. \A b \in TempPages : mm'.pte[bs][b] = mm.pte[bs][b]
      BY <1>2, <2>2
    <3>3. at'[bs] = at[bs]
      BY <2>2
    <3>. QED
      BY <3>1, <3>2, <3>3, WindowStays
  <2>3. CASE bs = as
    <3>1. SUFFICES ASSUME NEW b \in TempPages, Valid(mm', as, b),
                          ~(at'[as].what \in {"temp", "mapped"} /\ b = at'[as].temp),
                          NEW cs \in Spaces, NEW c \in UserPages
                   PROVE  mm'.pte[cs][c].f # mm'.pte[as][b].f
      BY <2>3 DEF WindowFits
    <3>2. b # t /\ mm'.pte[as][b] = mm.pte[as][b] /\ mm'.pte[cs][c] = mm.pte[cs][c]
      BY <1>2, <3>1
    <3>3. Valid(mm, as, b) /\ ~(at[as].what \in {"temp", "mapped"} /\ b = at[as].temp)
      BY <3>1, <3>2 DEF Valid
    <3>4. WindowFits(as)
      BY InvIs
    <3>5. mm.pte[cs][c].f # mm.pte[as][b].f
      BY <3>3, <3>4 DEF WindowFits
    <3>. QED
      BY <3>2, <3>5
  <2>. QED
    BY <2>2, <2>3
<1>. QED
  BY <1>3, <1>5, <1>6, <1>7, <1>8, Assembled

\* What is known of a fault handler.
LEMMA HandlerIs ==
    ASSUME VmInv, NEW as \in Spaces, at[as].what \in Handling
    PROVE  /\ at[as].page \in Reachable(as) /\ at[as].page \in UserPages /\ at[as].page \in Pages
           /\ at[as].page[1] \in Region /\ mm.pde[as][at[as].page[1]] # NoFrame
           /\ at[as].old \in Frames /\ Keeps(mm, at[as].old, priv[as][at[as].page]) /\ HandlerRefs[at[as].old] > 0
           /\ mm.dir[as] \in Slots /\ bitmapOf[as] \in Slots
           /\ at[as].what \in {"removed", "temp"} => mm.pte[as][at[as].page] = NoPte
           /\ at[as].what \in {"temp", "mapped"} => mm.pte[as][at[as].temp] = NewPte(at[as].old)
           /\ at[as].what = "mapped" => mm.pte[as][at[as].page].w
           /\ at[as].temp \in TempPages
           /\ \A b \in Reachable(as) : b \in UserPages /\ b \in Pages
                                       /\ (b # at[as].page => Holds(mm, as, b, priv[as][b]))
<1>1. TypeOK /\ StepFits(as) /\ PagesFit(as)
  BY InvIs
<1>2. /\ at[as].page \in Reachable(as) /\ mm.pde[as][at[as].page[1]] # NoFrame
      /\ at[as].old \in Frames /\ Keeps(mm, at[as].old, priv[as][at[as].page])
      /\ mm.dir[as] \in Slots /\ bitmapOf[as] \in Slots
      /\ at[as].what \in {"removed", "temp"} => mm.pte[as][at[as].page] = NoPte
      /\ at[as].what \in {"temp", "mapped"} => mm.pte[as][at[as].temp] = NewPte(at[as].old)
      /\ at[as].what = "mapped" => mm.pte[as][at[as].page].w
  BY <1>1 DEF StepFits, Handling, NewPte
<1>3. Reachable(as) \subseteq UserPages /\ Reachable(as) \subseteq Pages
  BY <1>1, ReachablePages
<1>4. \A b \in Reachable(as) : b # at[as].page => Holds(mm, as, b, priv[as][b])
  BY <1>1 DEF PagesFit, Populated
<1>5. HandlerRefs[at[as].old] > 0
  BY <1>2, HandlerCounts, RefsAre
<1>6. at[as].temp \in TempPages
  BY <1>1 DEF TypeOK, Doings
<1>7. at[as].page[1] \in Region
  BY <1>2, <1>3, PageRegions
<1>. QED
  BY <1>2, <1>3, <1>4, <1>5, <1>6, <1>7

LEMMA MapTempFits ==
    ASSUME VmInv, calls' \in 0 .. MaxCalls, NEW as \in Spaces, PfMapTemp(as)
    PROVE  VmInv'
<1>0. cur = as /\ at[as].what = "removed" /\ at[as].what \in Handling
  BY DEF PfMapTemp, Running, Handling
<1>1. CASE NoTemp(as)
  BY <1>1, BugCheckFits DEF PfMapTemp
<1>2. CASE ~NoTemp(as)
  <2>1. PICK m, n, h, t, f, p : /\ m = mm /\ n = mm' /\ h = HandlerRefs /\ t = TempFor(mm, as)
                                /\ f = at[as].old /\ p = at[as].page
    OBVIOUS
  <2>2. /\ n = MiInsertPage(m, as, t, f) /\ at' = [at EXCEPT ![as].what = "temp", ![as].temp = t]
        /\ sysBits' = sysBits /\ poolBits' = poolBits /\ bitmapOf' = bitmapOf /\ owned' = owned /\ cur' = cur
        /\ tlb' = tlb /\ priv' = priv /\ stopped' = stopped
    BY <1>2, <2>1 DEF PfMapTemp
  <2>3. /\ p \in Reachable(as) /\ p \in UserPages /\ p \in Pages /\ p[1] \in Region /\ m.pde[as][p[1]] # NoFrame
        /\ f \in Frames /\ Keeps(m, f, priv[as][p]) /\ h[f] > 0
        /\ m.dir[as] \in Slots /\ bitmapOf[as] \in Slots /\ m.pte[as][p] = NoPte
        /\ \A b \in Reachable(as) : b \in UserPages /\ b \in Pages /\ (b # p => Holds(m, as, b, priv[as][b]))
    BY <1>0, <2>1, HandlerIs
  <2>4. Sound(m, {}, h) /\ h \in Extras /\ m \in Memory /\ at \in [Spaces -> Doings]
    BY <2>1, InvIs DEF TypeOK
  <2>5. TempFree(m, as) # {} /\ (m.pde[as]["temp"] # NoFrame \/ m.free # {})
    <3>1. TempFree(m, as) # {} /\ ~(Free(m) < NeedsTable(m, as, "temp"))
      BY <1>2, <2>1 DEF NoTemp
    <3>2. ASSUME m.pde[as]["temp"] = NoFrame PROVE m.free # {}
      <4>1. ~(Free(m) < 1)
        BY <3>1, <3>2 DEF NeedsTable
      <4>2. Free(m) # 0
        BY <4>1
      <4>. QED
        BY <2>4, <4>2, FreeCounts
    <3>. QED
      BY <3>1, <3>2
  <2>6. t \in TempPages /\ t \in Pages /\ t[1] = "temp" /\ t \notin UserPages /\ m.pte[as][t].f = NoFrame
    BY <2>1, <2>5, TempForIs DEF Valid
  <2>7. Sound(n, {}, h) /\ InsertDone(m, n, as, t, f)
    <3>1. f \notin m.free
      <4>1. m.ref[f] > 0
        BY <2>3, <2>4, MappedReferenced
      <4>. QED
        BY <2>3, <2>4, <4>1, SoundIs
    <3>2. NotWritable(m, f)
      BY <2>3, <2>4, HeldNotWritable
    <3>3. m.pte[as][t].f # f
      BY <2>3, <2>6, Sizes
    <3>4. Sound(n, {} \ {f}, h) /\ InsertDone(m, n, as, t, f)
      BY <2>2, <2>3, <2>4, <2>5, <2>6, <3>1, <3>2, <3>3, InsertSound
    <3>5. {} \ {f} = {}
      OBVIOUS
    <3>. QED
      BY <3>4, <3>5
  <2>8. /\ n.pte[as][t] = NewPte(f) /\ OthersSame(m, n, as, t) /\ KeepsTables(m, n) /\ TablesSame(m, n, as, "temp")
        /\ n.sys = m.sys /\ n.dir = m.dir /\ DataLasts(m, n)
    BY <2>6, <2>7, SameDataLasts DEF InsertDone
  <2>9. PICK d : d = at'[as]
    OBVIOUS
  <2>10. d \in Doings /\ d.what = "temp" /\ d.temp = t /\ d.page = p /\ d.old = f
    <3>1. d = [at[as] EXCEPT !.what = "temp", !.temp = t]
      BY <2>2, <2>4, <2>9
    <3>2. at[as] \in Doings
      BY <2>4
    <3>. QED
      BY <2>1, <2>6, <3>1, <3>2 DEF Doings, Steps
  <2>11. at' \in [Spaces -> Doings] /\ at'[as] = d /\ \A bs \in Spaces : bs # as => at'[bs] = at[bs]
    BY <2>2, <2>4, <2>9, <2>10
  <2>12. HandlerRefs' = h
    <3>1. SameHandlers(at, at')
      BY <1>0, <2>1, <2>10, <2>11 DEF SameHandlers, Handling
    <3>. QED
      BY <2>1, <3>1, RefsAre, RefsSame
  <2>13. Sound(mm', {}, HandlerRefs')
    BY <2>1, <2>7, <2>12
  <2>14. \A bs \in Spaces : bs # as => PagesFit(bs)' /\ StepFits(bs)'
    <3>1. ASSUME NEW bs \in Spaces, bs # as PROVE Bystander(bs)
      <4>1. Stays(m, n, bs)
        BY <2>8, <3>1 DEF Stays, OthersSame, TablesSame
      <4>2. Idle(bs)
        BY <2>2, <2>11, <3>1 DEF Idle
      <4>. QED
        BY <2>1, <4>1, <4>2 DEF Bystander
    <3>2. at[as].what # "child" /\ DataLasts(mm, mm')
      BY <1>0, <2>1, <2>8
    <3>. QED
      BY <2>13, <3>1, <3>2, OthersFit
  <2>15. Reachable(as)' = Reachable(as)
    BY <2>2 DEF Reachable
  <2>16. \A b \in UserPages : n.pte[as][b] = m.pte[as][b]
    <3>1. \A b \in UserPages : b \in Pages /\ b # t
      BY <2>6, PageRegions
    <3>. QED
      BY <2>8, <3>1 DEF OthersSame
  <2>17. PagesFit(as)'
    <3>1. ASSUME NEW b \in Reachable(as), b # p PROVE Holds(n, as, b, priv[as][b])
      <4>1. b \in UserPages /\ b \in Pages /\ Holds(m, as, b, priv[as][b])
        BY <2>3, <3>1
      <4>2. n.pte[as][b].f = m.pte[as][b].f
        BY <2>16, <4>1
      <4>. QED
        BY <2>4, <2>7, <2>8, <4>1, <4>2, HoldsLasts
    <3>. QED
      BY <2>1, <2>2, <2>10, <2>11, <2>15, <3>1 DEF PagesFit, Populated, Handling
  <2>18. StepFits(as)'
    <3>1. Keeps(n, f, priv[as][p])
      BY <2>3, <2>4, <2>7, <2>8, OldLasts
    <3>2. n.pde[as][p[1]] # NoFrame /\ n.pte[as][p] = NoPte
      BY <2>3, <2>8, <2>16 DEF KeepsTables
    <3>. QED
      BY <2>1, <2>2, <2>3, <2>8, <2>10, <2>11, <2>15, <3>1, <3>2 DEF StepFits, Cloning, Handling, NewPte
  <2>19. OthersSame(mm, mm', as, t) /\ mm'.sys = mm.sys
    BY <2>1, <2>8
  <2>20. \A bs \in Spaces : PagesFit(bs)' /\ StepFits(bs)'
    BY <2>14, <2>17, <2>18
  <2>. QED
    BY <1>0, <2>2, <2>6, <2>10, <2>11, <2>13, <2>19, <2>20, WindowPageFits DEF Cloning
<1>. QED
  BY <1>1, <1>2

LEMMA PfMapNewFits ==
    ASSUME VmInv, calls' \in 0 .. MaxCalls, NEW as \in Spaces, PfMapNew(as)
    PROVE  VmInv'
<1>0. cur = as /\ at[as].what = "temp" /\ at[as].what \in Handling
  BY DEF PfMapNew, Running, Handling
<1>1. CASE Free(mm) = 0
  BY <1>1, BugCheckFits DEF PfMapNew
<1>2. CASE Free(mm) # 0
  <2>1. PICK m, n, h, t, f, p, e : /\ m = mm /\ n = mm' /\ h = HandlerRefs /\ t = at[as].temp
                                   /\ f = at[as].old /\ p = at[as].page /\ e = NextFree(mm)
    OBVIOUS
  <2>2. /\ n = MapNew(m, as, p) /\ at' = [at EXCEPT ![as].what = "mapped"] /\ InvalidateTLB({p})
        /\ sysBits' = sysBits /\ poolBits' = poolBits /\ bitmapOf' = bitmapOf /\ owned' = owned /\ cur' = cur
        /\ priv' = priv /\ stopped' = stopped
    BY <1>2, <2>1 DEF PfMapNew
  <2>3. /\ p \in Reachable(as) /\ p \in UserPages /\ p \in Pages /\ p[1] \in Region /\ m.pde[as][p[1]] # NoFrame
        /\ f \in Frames /\ Keeps(m, f, priv[as][p]) /\ h[f] > 0
        /\ m.dir[as] \in Slots /\ bitmapOf[as] \in Slots /\ m.pte[as][t] = NewPte(f) /\ t \in TempPages
        /\ \A b \in Reachable(as) : b \in UserPages /\ b \in Pages /\ (b # p => Holds(m, as, b, priv[as][b]))
    BY <1>0, <2>1, HandlerIs
  <2>4. Sound(m, {}, h) /\ h \in Extras /\ m \in Memory /\ at \in [Spaces -> Doings]
    BY <2>1, InvIs DEF TypeOK
  <2>5. Sound(n, {}, h) /\ NewDone(m, n, as, p, e)
    <3>1. FramesFor(m, as, p[1], 1) = 1 + 0
      BY <2>3 DEF FramesFor, NeedsTable
    <3>2. Free(m) \in Nat /\ Free(m) # 0
      BY <1>2, <2>1, <2>4, FreeCounts
    <3>3. Free(m) >= FramesFor(m, as, p[1], 1)
      <4>1. PICK x \in Nat : x = Free(m)
        BY <3>2
      <4>2. x >= 1 + 0
        BY <3>2, <4>1
      <4>. QED
        BY <3>1, <4>1, <4>2
    <3>. QED
      BY <2>1, <2>2, <2>3, <2>4, <3>3, MapNewSound
  <2>6. OnePage(m, n, as, p) /\ n.sys = m.sys /\ n.pte[as][p] = NewPte(e) /\ e \in Frames
    BY <2>5, NewIsOnePage DEF NewDone
  <2>7. PICK d : d = at'[as]
    OBVIOUS
  <2>8. d \in Doings /\ d.what = "mapped" /\ d.temp = t /\ d.page = p /\ d.old = f
    <3>1. d = [at[as] EXCEPT !.what = "mapped"]
      BY <2>2, <2>4, <2>7
    <3>2. at[as] \in Doings
      BY <2>4
    <3>. QED
      BY <2>1, <3>1, <3>2 DEF Doings, Steps
  <2>9. at' \in [Spaces -> Doings] /\ at'[as] = d /\ \A bs \in Spaces : bs # as => at'[bs] = at[bs]
    BY <2>2, <2>4, <2>7, <2>8
  <2>10. HandlerRefs' = h
    <3>1. SameHandlers(at, at')
      BY <1>0, <2>1, <2>8, <2>9 DEF SameHandlers, Handling
    <3>. QED
      BY <2>1, <3>1, RefsAre, RefsSame
  <2>11. Sound(mm', {}, HandlerRefs') /\ OnePage(mm, mm', as, p) /\ mm'.sys = mm.sys
    BY <2>1, <2>5, <2>6, <2>10
  <2>12. Reachable(as)' = Reachable(as)
    BY <2>2 DEF Reachable
  <2>13. PagesFit(as)'
    <3>1. ASSUME NEW b \in Reachable(as), b # p PROVE Holds(mm', as, b, priv[as][b])
      <4>1. b \in UserPages /\ Holds(mm, as, b, priv[as][b])
        BY <2>1, <2>3, <3>1
      <4>. QED
        BY <2>3, <2>11, <3>1, <4>1, OtherPagesHold
    <3>. QED
      BY <2>2, <2>8, <2>9, <2>12, <3>1 DEF PagesFit, Populated, Handling
  <2>14. StepFits(as)'
    <3>1. Keeps(n, f, priv[as][p])
      <4>1. DataLasts(m, n)
        BY <2>6 DEF OnePage
      <4>. QED
        BY <2>3, <2>4, <2>5, <4>1, OldLasts
    <3>2. n.pde[as][p[1]] # NoFrame /\ n.dir = m.dir
      BY <2>3, <2>6 DEF OnePage, KeepsTables
    <3>3. n.pte[as][t] = NewPte(f)
      <4>1. OnlyOne(m, n, as, p)
        BY <2>3, <2>6, OnePageIs
      <4>. QED
        BY <2>3, <4>1 DEF OnlyOne
    <3>4. n.pte[as][p].w
      BY <2>6, NewPteIs
    <3>. QED
      BY <2>1, <2>2, <2>3, <2>8, <2>9, <2>12, <3>1, <3>2, <3>3, <3>4 DEF StepFits, Cloning, Handling, NewPte
  <2>. QED
    BY <1>0, <2>1, <2>2, <2>3, <2>8, <2>9, <2>11, <2>13, <2>14, OnePageFits DEF Cloning
<1>. QED
  BY <1>1, <1>2

\* The handler copies the old frame, takes it out of its window and drops its own reference.
CopyDone(m, n, as, p, t, new, old) ==
    /\ n.pte[as][t] = NoPte /\ OthersSame(m, n, as, t) /\ n.pde = m.pde /\ n.sys = m.sys /\ n.dir = m.dir
    /\ \A f \in Frames : f # new /\ n.ref[f] > 0 => n.data[f] = m.data[f] /\ (f \in n.taint <=> f \in m.taint)
    /\ n.data[new] = m.data[old] /\ (old \in m.taint => new \in n.taint)

MayCopy(m, as, p, t, new, old) ==
    /\ new = m.pte[as][p].f /\ m.pte[as][p].w /\ m.pte[as][t].f = old /\ p # t

\* The new frame belongs to the page only.
LEMMA NewAlone ==
    ASSUME NEW m, NEW h \in Extras, Sound(m, {}, h), NEW as \in Spaces, NEW p \in UserPages, NEW t \in TempPages,
           NEW new, NEW old, MayCopy(m, as, p, t, new, old)
    PROVE  new \in Frames /\ m.ref[new] = 1 /\ Alone(m, h, as, p, new) /\ new # old
<1>1. new = m.pte[as][p].f /\ m.pte[as][p].w /\ m.pte[as][t].f = old /\ p # t /\ p \in Pages /\ t \in Pages
  BY PageRegions DEF MayCopy
<1>2. m \in Memory /\ PteFits(m, as, p)
  BY <1>1, SoundIs
<1>3. new # NoFrame /\ m.ref[new] = 1
  BY <1>1, <1>2, NoPteIs DEF PteFits
<1>4. new \in Frames
  BY <1>1, <1>2, <1>3, EntryTypes
<1>5. Single(m, as, p, new)
  BY <1>1, <1>3 DEF Single
<1>6. Alone(m, h, as, p, new)
  BY <1>1, <1>4, <1>5, SingleAlone
<1>7. m.pte[as][t].f # new
  BY <1>1, <1>6 DEF Alone
<1>. QED
  BY <1>1, <1>3, <1>4, <1>6, <1>7

CopiedDone(m, c, new, old) ==
    /\ c \in Memory /\ SameTables(m, c) /\ c.ref = m.ref /\ c.dir = m.dir
    /\ c.data[new] = m.data[old] /\ (old \in m.taint => new \in c.taint)
    /\ \A f \in Frames : f # new => c.data[f] = m.data[f] /\ (f \in c.taint <=> f \in m.taint)

LEMMA CopiedSound ==
    ASSUME NEW m, NEW h \in Extras, Sound(m, {}, h), NEW new \in Frames, NEW old \in Frames, m.ref[new] = 1,
           NEW c, c = Copied(m, new, old)
    PROVE  Sound(c, {}, h) /\ CopiedDone(m, c, new, old)
<1>1. PICK T, v, yes : /\ T = (IF old \in m.taint THEN m.taint \cup {new} ELSE m.taint) /\ v = m.data[old]
                       /\ yes = TRUE
  OBVIOUS
<1>2. m \in Memory /\ m.taint \in SUBSET Frames /\ v \in Values
  <2>1. m \in Memory
    BY SoundIs
  <2>. QED
    BY <1>1, <2>1, MemoryTypes
<1>3. T \in SUBSET Frames /\ (old \in m.taint => new \in T) /\ \A g : g # new => (g \in T <=> g \in m.taint)
  BY <1>1, <1>2
<1>4. c = [m EXCEPT !.data[new] = v, !.taint = T]
  BY <1>1 DEF Copied
<1>5. WriteDone(m, c, new, yes, v)
  BY <1>1, <1>2, <1>3, <1>4, WriteIs
<1>6. /\ c \in Memory /\ SameTables(m, c) /\ c.ref = m.ref /\ c.free = m.free /\ c.dir = m.dir /\ c.data[new] = v
      /\ \A g \in Frames : g # new => c.data[g] = m.data[g] /\ (g \in c.taint <=> g \in m.taint)
  BY <1>5 DEF WriteDone
<1>7. c.taint = T
  BY <1>2, <1>4 DEF Memory
<1>8. DataDone(m, c)
  <2>1. \A g \in Frames : m.ref[g] = 0 => g # new
    OBVIOUS
  <2>. QED
    BY <1>6, <2>1 DEF DataDone
<1>. QED
  BY <1>1, <1>3, <1>6, <1>7, <1>8, DataSound DEF CopiedDone

LEMMA CopySound ==
    ASSUME NEW m, NEW g \in Extras, NEW old \in Frames, Sound(m, {}, Up(g, old)), NEW as \in Spaces,
           NEW p \in UserPages, NEW t \in TempPages, NEW new, MayCopy(m, as, p, t, new, old),
           NEW n, n = MiDecReferencePFN(MmUnMapPageTemp(Copied(m, new, old), as, t), old)
    PROVE  Sound(n, {}, g) /\ CopyDone(m, n, as, p, t, new, old)
<1>1. PICK h, c, u : h = Up(g, old) /\ c = Copied(m, new, old) /\ u = MiRemovePage(c, as, t)
  OBVIOUS
<1>2. h \in Extras /\ Sound(m, {}, h) /\ h[old] > 0
  <2>1. h \in Extras /\ h[old] = g[old] + 1 /\ g[old] \in Nat
    BY <1>1, UpIs
  <2>. QED
    BY <1>1, <2>1
<1>3. t \in Pages /\ p \in Pages /\ m.pte[as][t].f = old /\ old # NoFrame /\ new = m.pte[as][p].f /\ p # t
  BY PageRegions, Sizes DEF MayCopy
<1>4. new \in Frames /\ m.ref[new] = 1 /\ new # old
  BY <1>2, NewAlone
<1>5. Sound(c, {}, h) /\ CopiedDone(m, c, new, old)
  BY <1>1, <1>2, <1>4, CopiedSound
<1>6. /\ c.pte = m.pte /\ c.pde = m.pde /\ c.sys = m.sys /\ c.dir = m.dir /\ c.ref = m.ref
      /\ c.data[new] = m.data[old] /\ (old \in m.taint => new \in c.taint)
      /\ \A f \in Frames : f # new => c.data[f] = m.data[f] /\ (f \in c.taint <=> f \in m.taint)
  BY <1>5 DEF CopiedDone, SameTables
<1>7. Sound(u, {}, h) /\ RemoveDone(c, u, as, t)
  <2>1. c.pte[as][t].f # NoFrame
    BY <1>3, <1>6
  <2>. QED
    BY <1>1, <1>2, <1>3, <1>5, <2>1, RemoveSound
<1>8. /\ u.pte[as][t] = NoPte /\ OthersSame(c, u, as, t) /\ u.pde = c.pde /\ u.sys = c.sys /\ u.dir = c.dir
      /\ SameData(c, u) /\ FramesSame(c, u, old)
  BY <1>3, <1>6, <1>7 DEF RemoveDone
<1>9. NotWritable(u, old)
  BY <1>2, <1>7, HeldNotWritable
<1>10. n = MiDecReferencePFN(u, old)
  BY <1>1 DEF MmUnMapPageTemp
<1>11. u.ref[old] > 0 /\ Sound(n, {}, g)
  BY <1>1, <1>7, <1>9, <1>10, DecSound
<1>12. DecDone(u, n, old)
  <2>1. u \in Memory
    BY <1>7, SoundIs
  <2>. QED
    BY <1>10, <1>11, <2>1, DecIs
<1>13. n.pte = u.pte /\ n.pde = u.pde /\ n.sys = u.sys /\ n.dir = u.dir
  BY <1>12 DEF DecDone, SameTables
<1>14. ASSUME NEW f \in Frames, n.ref[f] > 0
       PROVE  n.data[f] = c.data[f] /\ (f \in n.taint <=> f \in c.taint)
  <2>1. CASE f # old
    <3>1. n.data[f] = u.data[f] /\ (f \in n.taint <=> f \in u.taint)
      BY <1>12, <2>1 DEF DecDone
    <3>2. u.data[f] = c.data[f] /\ (f \in u.taint <=> f \in c.taint)
      BY <1>8, <2>1 DEF FramesSame, FrameSame
    <3>. QED
      BY <3>1, <3>2
  <2>2. CASE f = old
    <3>1. n.ref[old] = u.ref[old] - 1
      BY <1>12 DEF DecDone
    <3>2. u.ref[old] # 1
      BY <1>14, <2>2, <3>1
    <3>3. n.data[old] = u.data[old] /\ (old \in n.taint <=> old \in u.taint)
      BY <1>12, <3>2 DEF DecDone
    <3>4. c.ref[old] > 0
      <4>1. c.pte[as][t].f # NoFrame /\ c.pte[as][t].f = old
        BY <1>3, <1>6
      <4>. QED
        BY <1>2, <1>3, <1>5, <4>1, MappedReferenced
    <3>5. u.data[old] = c.data[old] /\ (old \in u.taint <=> old \in c.taint)
      BY <1>8, <1>11, <3>4 DEF SameData
    <3>. QED
      BY <2>2, <3>3, <3>5
  <2>. QED
    BY <2>1, <2>2
<1>15. OthersSame(m, n, as, t) /\ n.pte[as][t] = NoPte /\ n.pde = m.pde /\ n.sys = m.sys /\ n.dir = m.dir
  BY <1>6, <1>8, <1>13 DEF OthersSame
<1>16. n.ref[new] > 0
  <2>1. n.pte[as][p] = m.pte[as][p]
    BY <1>3, <1>15 DEF OthersSame
  <2>2. n.pte[as][p].f # NoFrame /\ n.pte[as][p].f = new
    BY <1>3, <1>4, <2>1, Sizes
  <2>. QED
    BY <1>3, <1>11, <2>2, MappedReferenced
<1>17. n.data[new] = m.data[old] /\ (old \in m.taint => new \in n.taint)
  BY <1>4, <1>6, <1>14, <1>16
<1>. QED
  BY <1>6, <1>11, <1>14, <1>15, <1>17 DEF CopyDone

LEMMA PfCopyFits ==
    ASSUME VmInv, calls' \in 0 .. MaxCalls, NEW as \in Spaces, PfCopy(as)
    PROVE  VmInv'
<1>0. cur = as /\ at[as].what = "mapped" /\ at[as].what \in Handling
  BY DEF PfCopy, Running, Handling
<1>1. PICK m, n, h, g : m = mm /\ n = mm' /\ h = HandlerRefs /\ g = HandlerRefs'
  OBVIOUS
<1>2. PICK t, old, p, new : t = at[as].temp /\ old = at[as].old /\ p = at[as].page /\ new = mm.pte[as][at[as].page].f
  OBVIOUS
<1>3. /\ n = MiDecReferencePFN(MmUnMapPageTemp(Copied(m, new, old), as, t), old)
      /\ at' = [at EXCEPT ![as] = Doing("user")]
      /\ sysBits' = sysBits /\ poolBits' = poolBits /\ bitmapOf' = bitmapOf /\ owned' = owned /\ cur' = cur
      /\ tlb' = tlb /\ priv' = priv /\ stopped' = stopped
  BY <1>1, <1>2 DEF PfCopy, Unwindowed
<1>4. /\ p \in Reachable(as) /\ p \in UserPages /\ p \in Pages /\ old \in Frames /\ Keeps(m, old, priv[as][p])
      /\ m.dir[as] \in Slots /\ bitmapOf[as] \in Slots /\ m.pte[as][t] = NewPte(old) /\ m.pte[as][p].w
      /\ t \in TempPages
      /\ \A b \in Reachable(as) : b \in UserPages /\ b \in Pages /\ (b # p => Holds(m, as, b, priv[as][b]))
  BY <1>0, <1>1, <1>2, HandlerIs
<1>5. Sound(m, {}, h) /\ h \in Extras /\ m \in Memory /\ at \in [Spaces -> Doings] /\ g \in Extras
  BY <1>1, InvIs, RefsAre, RefsType DEF TypeOK
<1>6. /\ at' \in [Spaces -> Doings] /\ at'[as].what = "user" /\ \A bs \in Spaces : bs # as => at'[bs] = at[bs]
  BY <1>3, <1>5, DoingIs DEF Steps
<1>7. h = Up(g, old)
  <2>1. Joins(at', at, as, old)
    BY <1>0, <1>2, <1>6 DEF Joins, Handling
  <2>2. RefsOf(at) = Up(RefsOf(at'), old)
    BY <1>4, <2>1, RefsUp
  <2>. QED
    BY <1>1, <2>2, RefsAre
<1>8. MayCopy(m, as, p, t, new, old)
  <2>1. p # t
    BY <1>4, PageRegions
  <2>2. m.pte[as][t].f = old
    BY <1>4, NewPteIs
  <2>. QED
    BY <1>1, <1>2, <1>4, <2>1, <2>2 DEF MayCopy
<1>9. Sound(n, {}, g) /\ CopyDone(m, n, as, p, t, new, old)
  <2>1. Sound(m, {}, Up(g, old))
    BY <1>5, <1>7
  <2>. QED
    BY <1>3, <1>4, <1>5, <1>8, <2>1, CopySound
<1>10. /\ n.pte[as][t] = NoPte /\ OthersSame(m, n, as, t) /\ n.pde = m.pde /\ n.sys = m.sys /\ n.dir = m.dir
       /\ \A f \in Frames : f # new /\ n.ref[f] > 0 => n.data[f] = m.data[f] /\ (f \in n.taint <=> f \in m.taint)
       /\ n.data[new] = m.data[old] /\ (old \in m.taint => new \in n.taint)
  BY <1>9 DEF CopyDone
<1>11. /\ new \in Frames /\ h[new] = 0
       /\ \A bs \in Spaces, b \in Pages : bs # as \/ b # p => m.pte[bs][b].f # new
  <2>1. new \in Frames /\ Alone(m, h, as, p, new)
    BY <1>4, <1>5, <1>8, NewAlone
  <2>. QED
    BY <2>1 DEF Alone
<1>12. ASSUME NEW bs \in Spaces, NEW b \in Pages, NEW v, Holds(m, bs, b, v), n.pte[bs][b] = m.pte[bs][b],
              bs # as \/ b # p
       PROVE  Holds(n, bs, b, v)
  <2>1. PICK f : f = m.pte[bs][b].f
    OBVIOUS
  <2>2. f # NoFrame /\ Keeps(m, f, v) /\ n.pte[bs][b].f = f
    BY <1>12, <2>1 DEF Holds, Valid
  <2>3. f \in Frames /\ f # new
    BY <1>5, <1>11, <1>12, <2>1, <2>2, EntryTypes
  <2>4. n.ref[f] > 0
    BY <1>5, <1>9, <2>2, MappedReferenced
  <2>5. Keeps(n, f, v)
    BY <1>10, <2>2, <2>3, <2>4 DEF Keeps
  <2>. QED
    BY <2>2, <2>5 DEF Holds, Valid
<1>13. OldsStay(m, n, h, g)
  <2>1. SUFFICES ASSUME NEW f \in Frames, NEW v, h[f] > 0, g[f] > 0, Keeps(m, f, v) PROVE Keeps(n, f, v)
    BY DEF OldsStay
  <2>2. n.ref[f] > 0
    BY <1>5, <1>9, <2>1, MappedReferenced
  <2>3. f # new
    BY <1>11, <2>1
  <2>. QED
    BY <1>10, <2>1, <2>2, <2>3 DEF Keeps
<1>14. ASSUME NEW bs \in Spaces, bs # as PROVE Bystander(bs) /\ PagesLast(m, n, bs)
  <2>1. \A b \in Pages : n.pte[bs][b] = m.pte[bs][b]
    BY <1>10, <1>14 DEF OthersSame
  <2>2. PagesLast(m, n, bs)
    BY <1>12, <1>14, <2>1 DEF PagesLast
  <2>3. Stays(m, n, bs)
    BY <1>10, <2>1 DEF Stays
  <2>4. Idle(bs)
    BY <1>3, <1>6, <1>14 DEF Idle
  <2>. QED
    BY <1>1, <2>2, <2>3, <2>4 DEF Bystander
<1>15. ASSUME NEW bs \in Spaces, bs # as PROVE PagesFit(bs)' /\ StepFits(bs)'
  <2>1. at[bs].what \in Cloning => at[bs].child \in Spaces /\ at[bs].child # as
    BY <1>0, ChildIsChild
  <2>2. Bystander(bs) /\ PagesLast(mm, mm', bs) /\ OldsStay(mm, mm', HandlerRefs, HandlerRefs')
    BY <1>1, <1>13, <1>14, <1>15
  <2>3. at[bs].what \in Cloning => Bystander(at[bs].child) /\ PagesLast(mm, mm', at[bs].child)
    BY <1>1, <1>14, <2>1
  <2>. QED
    BY <2>2, <2>3, IdleFits
<1>16. PagesFit(as)'
  <2>1. Reachable(as)' = Reachable(as)
    BY <1>3 DEF Reachable
  <2>2. ASSUME NEW b \in Reachable(as) PROVE Holds(n, as, b, priv[as][b])
    <3>1. b \in Pages /\ b # t /\ n.pte[as][b] = m.pte[as][b]
      <4>1. b \in UserPages /\ b \in Pages
        BY <1>4, <2>2
      <4>2. b # t
        <5>1. t \in TempPages
          BY <1>4
        <5>2. \A d \in UserPages : d \notin TempPages
          BY PageRegions
        <5>. QED
          BY ONLY <4>1, <5>1, <5>2
      <4>3. n.pte[as][b] = m.pte[as][b]
        BY <1>10, <4>1, <4>2 DEF OthersSame
      <4>. QED
        BY <4>1, <4>2, <4>3
    <3>2. CASE b # p
      BY <1>4, <1>12, <2>2, <3>1, <3>2
    <3>3. CASE b = p
      <4>1. n.pte[as][b].f = new /\ new # NoFrame
        BY <1>1, <1>2, <1>11, <3>1, <3>3, Sizes
      <4>2. Keeps(n, new, priv[as][p])
        BY <1>4, <1>10 DEF Keeps
      <4>. QED
        BY <3>3, <4>1, <4>2 DEF Holds, Valid
    <3>. QED
      BY <3>2, <3>3
  <2>. QED
    BY <1>1, <1>3, <1>6, <2>1, <2>2 DEF PagesFit, Populated, Handling
<1>17. StepFits(as)'
  <2>1. mm'.dir[as] \in Slots /\ bitmapOf'[as] \in Slots
    BY <1>1, <1>3, <1>4, <1>10
  <2>. QED
    BY <1>6, <2>1 DEF StepFits, Cloning, Handling
<1>18. Sound(mm', {}, HandlerRefs') /\ OthersSame(mm, mm', as, t) /\ mm'.sys = mm.sys /\ ~Valid(mm', as, t)
  BY <1>1, <1>9, <1>10, NoPteIs DEF Valid
<1>19. \A bs \in Spaces : PagesFit(bs)' /\ StepFits(bs)'
  BY <1>15, <1>16, <1>17
<1>20. at'[as].what \notin Cloning
  BY <1>6 DEF Cloning
<1>21. \A b \in TempPages : b # t => b # at[as].temp
  BY <1>2
<1>. QED
  BY <1>0, <1>3, <1>4, <1>6, <1>18, <1>19, <1>20, <1>21, WindowPageFits

-----------------------------------------------------------------------------
(* The steps: a clone.                                                      *)

\* The pages of programs are the parent's.
ProgramsKept(m, n) == \A f : Program(n, f) => Program(m, f)

LEMMA CloneKeepsPrograms ==
    ASSUME NEW m, NEW n, NEW p \in Spaces, NEW c \in Spaces, CloneDone(m, n, p, c)
    PROVE  ProgramsKept(m, n)
<1>1. SUFFICES ASSUME NEW f, NEW bs \in Spaces, NEW b \in UserPages, n.pte[bs][b].f = f PROVE Program(m, f)
  BY DEF ProgramsKept, Program
<1>2. b \in Pages /\ b \notin TempPages
  BY PageRegions
<1>3. ParentLasts(m, n, p) /\ OutsidersSame(m, n, p, c) /\ Inherits(m, n, p, c, b)
  BY <1>2 DEF CloneDone
<1>4. CASE bs = p
  BY <1>1, <1>2, <1>3, <1>4 DEF ParentLasts, Program
<1>5. CASE bs = c
  BY <1>1, <1>2, <1>3, <1>5 DEF Inherits, Program
<1>6. CASE bs # p /\ bs # c
  BY <1>1, <1>2, <1>3, <1>6 DEF OutsidersSame, Program
<1>. QED
  BY <1>4, <1>5, <1>6

\* A page of a window: the parent's, which the parent keeps, or a frame that was free.
LEMMA CloneWindows ==
    ASSUME VmInv, NEW p \in Spaces, at[p].what \notin {"temp", "mapped"}, NEW c \in Spaces, p # c,
           CloneDone(mm, mm', p, c), NEW bs \in {p, c}
    PROVE  WindowFits(bs)'
<1>1. PICK m, n : m = mm /\ n = mm'
  OBVIOUS
<1>2. CloneDone(m, n, p, c) /\ m \in Memory /\ Sound(m, {}, HandlerRefs) /\ HandlerRefs \in Extras /\ WindowFits(p)
  BY <1>1, InvIs
<1>3. SUFFICES ASSUME NEW a \in TempPages, Valid(n, bs, a), NEW cs \in Spaces, NEW b \in UserPages,
                      n.pte[cs][b].f = n.pte[bs][a].f
               PROVE  FALSE
  BY <1>1 DEF WindowFits
<1>4. a \in Pages
  BY PageRegions
<1>5. PICK f : f = n.pte[bs][a].f
  OBVIOUS
<1>6. f # NoFrame
  BY <1>3, <1>5 DEF Valid
<1>7. Program(m, f)
  <2>1. Program(n, f)
    BY <1>3, <1>5 DEF Program
  <2>2. ProgramsKept(m, n)
    BY <1>2, CloneKeepsPrograms
  <2>. QED
    BY <2>1, <2>2 DEF ProgramsKept
<1>8. PICK ds \in Spaces, d \in UserPages : m.pte[ds][d].f = f
  BY <1>7 DEF Program
<1>9. d \in Pages
  BY PageRegions
<1>10. m.ref[f] > 0
  BY <1>2, <1>6, <1>8, <1>9, MappedReferenced
<1>11. f = m.pte[p][a].f
  <2>1. CASE bs = p
    BY <1>2, <1>4, <1>5, <2>1 DEF CloneDone, ParentLasts
  <2>2. CASE bs = c
    <3>1. Inherits(m, n, p, c, a)
      BY <1>2, <1>4 DEF CloneDone
    <3>2. m.ref[f] # 0
      BY <1>10
    <3>. QED
      BY <1>5, <2>2, <3>1, <3>2 DEF Inherits
  <2>. QED
    BY <2>1, <2>2
<1>12. mm.pte[ds][d].f # mm.pte[p][a].f
  BY <1>1, <1>2, <1>6, <1>11 DEF WindowFits, Valid
<1>. QED
  BY <1>1, <1>8, <1>11, <1>12

LEMMA CloneSpaceFits ==
    ASSUME VmInv, calls' \in 0 .. MaxCalls, NEW p \in Spaces, MmCloneProcessAddressSpace(p)
    PROVE  VmInv'
<1>0. cur = p /\ at[p].what = "clone space" /\ at[p].what \in Cloning
  BY DEF MmCloneProcessAddressSpace, Running, Cloning
<1>1. CASE TempFree(mm, p) = {} \/ Free(mm) < CloneFrames(p)
  BY <1>1, BugCheckFits DEF MmCloneProcessAddressSpace
<1>2. CASE ~(TempFree(mm, p) = {} \/ Free(mm) < CloneFrames(p))
  <2>1. PICK c, m, n, h : c = at[p].child /\ m = mm /\ n = mm' /\ h = HandlerRefs
    OBVIOUS
  <2>2. /\ \E k \in {CloneRegion(m, p, c, "temp")} :
              \E l \in {CloneRegion(k, p, c, "text")} : n = CloneRegion(l, p, c, "pool")
        /\ owned' = [owned EXCEPT ![c] = owned[p]] /\ priv' = [priv EXCEPT ![c] = priv[p]]
        /\ at' = [at EXCEPT ![p].what = "clone bits"]
        /\ sysBits' = sysBits /\ poolBits' = poolBits /\ bitmapOf' = bitmapOf /\ cur' = cur /\ tlb' = tlb
        /\ stopped' = stopped
    BY <1>2, <2>1 DEF MmCloneProcessAddressSpace
  <2>3. PICK k, l : /\ k = CloneRegion(m, p, c, "temp") /\ l = CloneRegion(k, p, c, "text")
                    /\ n = CloneRegion(l, p, c, "pool")
    BY <2>2
  <2>4. /\ TypeOK /\ NoUnexpectedFault /\ SlotsMatchBits /\ at \in [Spaces -> Doings] /\ PagesFit(p) /\ StepFits(p)
        /\ priv \in [Spaces -> [UserPages -> Values]] /\ owned \in [Spaces -> SUBSET (0 .. NPool - 1)]
        /\ Sound(m, {}, h) /\ h \in Extras /\ m \in Memory /\ DOMAIN tlb \subseteq UserPages
    BY <2>1, InvIs DEF TypeOK
  <2>5. c \in Spaces /\ at[c].what = "child" /\ p # c
    BY <1>0, <2>1, ChildIsChild
  <2>6. /\ Empty(m, c) /\ mm.dir[p] \in Slots /\ bitmapOf[p] \in Slots
        /\ \A a \in Reachable(p) : Holds(m, p, a, priv[p][a])
    BY <1>0, <2>1, <2>4 DEF PagesFit, StepFits, Populated, Handling
  <2>7. mm.dir[c] \in Slots
    BY <2>5, InvIs DEF StepFits
  <2>8. TempFree(m, p) # {} /\ Free(m) >= Cardinality({r \in Region : m.pde[p][r] # NoFrame}) + NeedsTable(m, p, "temp")
    <3>1. TempFree(m, p) # {} /\ ~(Free(m) < Cardinality({r \in Region : m.pde[p][r] # NoFrame}) + NeedsTable(m, p, "temp"))
      BY <1>2, <2>1 DEF CloneFrames
    <3>2. /\ Cardinality({r \in Region : m.pde[p][r] # NoFrame}) \in Nat /\ NeedsTable(m, p, "temp") \in Nat
          /\ Free(m) \in Nat
      <4>1. Cardinality({r \in Region : m.pde[p][r] # NoFrame}) \in Nat
        BY FiniteSizes, FS_Subset, FS_CardinalityType
      <4>. QED
        BY <2>4, <4>1, FreeCounts DEF NeedsTable
    <3>3. PICK x \in Nat, y \in Nat, z \in Nat : /\ x = Free(m) /\ z = NeedsTable(m, p, "temp")
                                                 /\ y = Cardinality({r \in Region : m.pde[p][r] # NoFrame})
      BY <3>2
    <3>4. ~(x < y + z)
      BY <3>1, <3>3
    <3>5. x >= y + z
      BY <3>4
    <3>. QED
      BY <3>1, <3>3, <3>5
  <2>9. Sound(n, {}, h) /\ CloneDone(m, n, p, c)
    BY <2>3, <2>4, <2>5, <2>6, <2>8, CloneSound
  <2>10. /\ n.sys = m.sys /\ n.dir = m.dir /\ DataLasts(m, n) /\ ParentLasts(m, n, p) /\ OutsidersSame(m, n, p, c)
         /\ \A a \in Pages : Inherits(m, n, p, c, a)
    BY <2>9, SameDataLasts DEF CloneDone
  <2>11. PICK d : d = at'[p]
    OBVIOUS
  <2>12. d \in Doings /\ d.what = "clone bits" /\ d.child = c
    <3>1. d = [at[p] EXCEPT !.what = "clone bits"]
      BY <2>2, <2>4, <2>11
    <3>2. at[p] \in Doings
      BY <2>4
    <3>. QED
      BY <2>1, <3>1, <3>2 DEF Doings, Steps
  <2>13. at' \in [Spaces -> Doings] /\ at'[p] = d /\ \A bs \in Spaces : bs # p => at'[bs] = at[bs]
    BY <2>2, <2>4, <2>11, <2>12
  <2>14. HandlerRefs' = h
    <3>1. SameHandlers(at, at')
      BY <1>0, <2>12, <2>13 DEF SameHandlers, Handling
    <3>. QED
      BY <2>1, <3>1, RefsAre, RefsSame
  <2>15. Sound(mm', {}, HandlerRefs') /\ CloneDone(mm, mm', p, c) /\ DataLasts(mm, mm')
    BY <2>1, <2>9, <2>10, <2>14
  <2>16. /\ owned' \in [Spaces -> SUBSET (0 .. NPool - 1)] /\ owned'[c] = owned[p] /\ owned'[p] = owned[p]
         /\ \A bs \in Spaces : bs # c => owned'[bs] = owned[bs]
    BY <2>2, <2>4, <2>5
  <2>17. /\ priv' \in [Spaces -> [UserPages -> Values]] /\ priv'[c] = priv[p] /\ priv'[p] = priv[p]
         /\ \A bs \in Spaces : bs # c => priv'[bs] = priv[bs]
    BY <2>2, <2>4, <2>5
  <2>18. Reachable(p)' = Reachable(p) /\ Reachable(c)' = Reachable(p)
    BY <2>16 DEF Reachable
  <2>19. TlbFits' /\ DOMAIN tlb' \subseteq UserPages
         /\ \A b \in DOMAIN tlb' : tlb'[b] \in [f : Frames \cup {NoFrame}, w : BOOLEAN]
    <3>1. \A a \in UserPages : a \in Pages
      BY PageRegions
    <3>2. \A a \in UserPages : (n.pte[p][a].w => m.pte[p][a].w) /\ n.pte[p][a].f = m.pte[p][a].f
      BY <2>10, <3>1 DEF ParentLasts
    <3>3. TlbLasts
      BY <1>0, <2>1, <2>2, <2>4, <2>18, <3>2 DEF TlbLasts
    <3>. QED
      BY <3>3, TlbStays
  <2>20. mm' \in Memory
    BY <2>15, SoundIs
  <2>21. TypeOK' /\ NoUnexpectedFault'
    BY <2>2, <2>4, <2>13, <2>16, <2>17, <2>19, <2>20 DEF TypeOK, NoUnexpectedFault
  <2>22. SlotsMatchBits'
    BY <2>1, <2>2, <2>4, <2>10 DEF SlotsMatchBits
  <2>23. ChildrenFit'
    <3>1. ASSUME NEW bs \in Spaces, at'[bs].what \in Cloning
          PROVE  at[bs].what \in Cloning /\ at'[bs].child = at[bs].child
      <4>1. CASE bs = p
        BY <1>0, <2>1, <2>12, <2>13, <4>1
      <4>2. CASE bs # p
        BY <2>13, <3>1, <4>2
      <4>. QED
        BY <4>1, <4>2
    <3>. QED
      BY <3>1, ChildrenStay
  <2>24. ASSUME NEW bs \in Spaces, bs # p, bs # c PROVE Bystander(bs)
    <3>1. Stays(m, n, bs)
      BY <2>10, <2>24 DEF OutsidersSame, Stays
    <3>2. Idle(bs)
      BY <2>2, <2>13, <2>16, <2>17, <2>24 DEF Idle
    <3>. QED
      BY <2>1, <3>1, <3>2 DEF Bystander
  <2>25. ASSUME NEW bs \in Spaces, bs # p, bs # c PROVE PagesFit(bs)' /\ StepFits(bs)'
    <3>1. ASSUME at[bs].what \in Cloning PROVE Bystander(at[bs].child)
      <4>1. at[bs].child # c /\ at[bs].child # p
        BY <1>0, <2>1, <2>25, <3>1, OtherChild
      <4>2. at[bs].child \in Spaces
        BY <3>1, ChildIsChild
      <4>. QED
        BY <2>24, <4>1, <4>2
    <3>2. Bystander(bs)
      BY <2>24, <2>25
    <3>. QED
      BY <2>15, <3>1, <3>2, BystanderFits
  <2>26. ASSUME NEW a \in Reachable(p) PROVE Holds(n, p, a, priv[p][a]) /\ Holds(n, c, a, priv[p][a])
    <3>1. a \in UserPages /\ a \in Pages /\ a \notin TempPages
      BY <2>4, <2>26, ReachablePages, PageRegions
    <3>2. n.pte[p][a].f = m.pte[p][a].f /\ n.pte[c][a].f = m.pte[p][a].f
      BY <2>10, <3>1 DEF ParentLasts, Inherits
    <3>3. Holds(m, p, a, priv[p][a])
      BY <2>6, <2>26
    <3>4. Holds(n, p, a, priv[p][a])
      BY <2>4, <2>9, <2>10, <3>1, <3>2, <3>3, HoldsLasts
    <3>5. Holds(n, c, a, priv[p][a])
      BY <2>4, <2>5, <2>9, <2>10, <3>1, <3>2, <3>3, HoldsLasts
    <3>. QED
      BY <3>4, <3>5
  <2>27. PagesFit(p)' /\ StepFits(p)'
    <3>1. PagesFit(p)'
      BY <2>1, <2>12, <2>13, <2>17, <2>18, <2>26 DEF PagesFit, Populated, Cloning, Handling
    <3>2. at'[c].what = "child" /\ mm'.dir[p] \in Slots /\ bitmapOf'[p] \in Slots
      BY <2>1, <2>2, <2>5, <2>6, <2>10, <2>13
    <3>3. StepFits(p)'
      BY <2>5, <2>12, <2>13, <3>2 DEF StepFits, Cloning, Handling
    <3>. QED
      BY <3>1, <3>3
  <2>28. PagesFit(c)' /\ StepFits(c)'
    <3>1. at'[c].what = "child" /\ mm'.dir[c] \in Slots
      BY <2>1, <2>5, <2>7, <2>10, <2>13
    <3>. QED
      BY <3>1 DEF PagesFit, StepFits, Populated, Cloning, Handling
  <2>29. ASSUME NEW bs \in Spaces PROVE WindowFits(bs)'
    <3>1. CASE bs \in {p, c}
      BY <1>0, <2>5, <2>15, <3>1, CloneWindows
    <3>2. CASE bs \notin {p, c}
      <4>1. NewPrograms(mm, mm')
        <5>1. ProgramsKept(mm, mm')
          BY <2>5, <2>15, CloneKeepsPrograms
        <5>. QED
          BY <5>1 DEF ProgramsKept, NewPrograms
      <4>2. at'[bs] = at[bs]
        BY <2>13, <3>2
      <4>3. ASSUME NEW a \in TempPages PROVE mm'.pte[bs][a] = mm.pte[bs][a]
        <5>1. a \in Pages
          BY PageRegions
        <5>. QED
          BY <2>1, <2>10, <3>2, <5>1 DEF OutsidersSame
      <4>. QED
        BY <4>1, <4>2, <4>3, WindowStays
    <3>. QED
      BY <3>1, <3>2
  <2>30. \A bs \in Spaces : PagesFit(bs)' /\ StepFits(bs)' /\ WindowFits(bs)'
    BY <2>25, <2>27, <2>28, <2>29
  <2>. QED
    BY <2>15, <2>19, <2>21, <2>22, <2>23, <2>30, Assembled
<1>. QED
  BY <1>1, <1>2
-----------------------------------------------------------------------------
(* The invariant holds.                                                     *)

\* Nothing is mapped yet.
Blank(m) ==
    /\ \A as \in Spaces, a \in Pages : m.pte[as][a] = NoPte
    /\ \A as \in Spaces, r \in Region : m.pde[as][r] = NoFrame
    /\ \A s \in Slots : m.sys[s] = NoFrame

LEMMA BlankUnmapped ==
    ASSUME NEW m, Blank(m), NEW f \in Frames
    PROVE  Mappings(m, f) = 0
<1>1. f # NoFrame
  BY Sizes
<1>2. PteRefs(m, f) = {}
  BY <1>1, NoPteIs DEF PteRefs, Blank
<1>3. PdeRefs(m, f) = {}
  BY <1>1 DEF PdeRefs, Blank
<1>4. SysRefs(m, f) = {}
  BY <1>1 DEF SysRefs, Blank
<1>5. Mappings(m, f) = Cardinality(PteRefs(m, f)) + Cardinality(PdeRefs(m, f)) + Cardinality(SysRefs(m, f))
  BY RefsFinite
<1>. QED
  BY <1>2, <1>3, <1>4, <1>5, FS_EmptySet

\* At the start every frame is free and clean.
StartsBlank(m) ==
    /\ m \in Memory /\ Blank(m) /\ m.free = Frames /\ m.taint = {}
    /\ \A f \in Frames : m.ref[f] = 0 /\ m.data[f] = Unset
    /\ m.dir \in [Spaces -> Slots \cup {NoSlot}]

LEMMA BlankSound ==
    ASSUME NEW m, StartsBlank(m), NEW h, \A f \in Frames : h[f] = 0
    PROVE  Sound(m, {}, h)
<1>1. m \in Memory /\ Blank(m)
  BY DEF StartsBlank
<1>2. Counted(m, h)
  <2>1. SUFFICES ASSUME NEW f \in Frames PROVE m.ref[f] = Mappings(m, f) + h[f]
    BY DEF Counted
  <2>2. Mappings(m, f) = 0 /\ h[f] = 0 /\ m.ref[f] = 0
    BY <1>1, BlankUnmapped DEF StartsBlank
  <2>. QED
    BY <2>2
<1>3. FreeFits(m, {})
  BY DEF StartsBlank, FreeFits
<1>4. Clean(m)
  BY DEF StartsBlank, Clean
<1>5. EntriesFit(m)
  BY <1>1, NoPteIs DEF Blank, EntriesFit, PteFits
<1>. QED
  BY <1>1, <1>2, <1>3, <1>4, <1>5 DEF Sound

LEMMA InitFits ==
    ASSUME Init
    PROVE  VmInv
<1>0. /\ NFrames \in Nat /\ NPool \in Nat \ {0} /\ NSys \in Nat \ {0} /\ Unset \in Values
      /\ NTemp \in Nat \ {0} /\ MaxCalls \in Nat
  BY Sizes, SizesAssumption
<1>1. PICK m : m = mm
  OBVIOUS
<1>2. /\ m.free = Frames /\ m.taint = {} /\ m.ref = [f \in Frames |-> 0] /\ m.data = [f \in Frames |-> Unset]
      /\ m.pde = [as \in Spaces |-> [r \in Region |-> NoFrame]] /\ m.pte = [as \in Spaces |-> [a \in Pages |-> NoPte]]
      /\ m.sys = [s \in Slots |-> NoFrame] /\ m.dir = [as \in Spaces |-> NoSlot]
  BY <1>1 DEF Init
<1>3. m \in Memory
  <2>1. PICK free, ref, data, taint, pde, pte, sys, dir :
          /\ free = m.free /\ ref = m.ref /\ data = m.data /\ taint = m.taint /\ pde = m.pde /\ pte = m.pte
          /\ sys = m.sys /\ dir = m.dir
    OBVIOUS
  <2>2. m = [free |-> free, ref |-> ref, data |-> data, taint |-> taint, pde |-> pde, pte |-> pte, sys |-> sys, dir |-> dir]
    BY <1>1, <1>2, <2>1 DEF Init
  <2>3. /\ free \in SUBSET Frames /\ ref \in [Frames -> Nat] /\ data \in [Frames -> Values] /\ taint \in SUBSET Frames
    BY <1>0, <1>2, <2>1
  <2>4. pde \in [Spaces -> [Region -> Frames \cup {NoFrame}]]
    BY <1>2, <2>1
  <2>5. pte \in [Spaces -> [Pages -> Pte]]
    BY <1>2, <2>1, NoPteIs
  <2>6. sys \in [Slots -> Frames \cup {NoFrame}] /\ dir \in [Spaces -> Slots \cup {NoSlot}]
    BY <1>2, <2>1
  <2>. QED
    BY <2>2, <2>3, <2>4, <2>5, <2>6 DEF Memory
<1>4. Blank(m)
  BY <1>2 DEF Blank
<1>5. StartsBlank(m)
  BY <1>0, <1>2, <1>3, <1>4 DEF StartsBlank
<1>6. \A as \in Spaces : at[as] = Doing("gone") /\ at[as].what = "gone" /\ owned[as] = {}
  BY DoingIs DEF Init, Steps
<1>7. \A f \in Frames : HandlerRefs[f] = 0
  <2>1. SUFFICES ASSUME NEW f \in Frames PROVE HandlerRefs[f] = 0
    OBVIOUS
  <2>2. Handlers(f) = {}
    BY <1>6 DEF Handlers
  <2>. QED
    BY <2>2, FS_EmptySet DEF HandlerRefs
<1>8. Sound(mm, {}, HandlerRefs)
  BY <1>1, <1>5, <1>7, BlankSound
<1>9. DOMAIN tlb = {}
  <2>1. tlb = NoTlb
    BY DEF Init
  <2>. QED
    BY <2>1 DEF NoTlb
<1>10. TypeOK
  <2>1. mm \in Memory
    BY <1>1, <1>3
  <2>2. sysBits \in Bitmaps(NSys)
    BY <1>0, CreateIs DEF Init
  <2>3. poolBits \in [Slots -> Bitmaps(NPool)]
    <3>1. PICK b : b = BmBitmapCreateInBuffer(NPool)
      OBVIOUS
    <3>2. b \in Bitmaps(NPool) /\ poolBits = [s \in Slots |-> b]
      BY <1>0, <3>1, CreateIs DEF Init
    <3>. QED
      BY <3>2
  <2>4. bitmapOf \in [Spaces -> Slots \cup {NoSlot}] /\ owned \in [Spaces -> SUBSET (0 .. NPool - 1)]
    BY DEF Init
  <2>5. at \in [Spaces -> Doings] /\ cur \in Spaces \cup {System}
    <3>1. Doing("gone") \in Doings
      BY DoingIs DEF Steps
    <3>. QED
      BY <3>1 DEF Init
  <2>6. DOMAIN tlb = {}
    BY <1>9
  <2>7. priv \in [Spaces -> [UserPages -> Values]]
    BY <1>0 DEF Init
  <2>8. calls \in 0 .. MaxCalls /\ stopped = ""
    <3>1. calls = 0 /\ stopped = ""
      BY DEF Init
    <3>2. 0 \in 0 .. MaxCalls
      BY <1>0
    <3>. QED
      BY <3>1, <3>2
  <2>. QED
    BY <2>1, <2>2, <2>3, <2>4, <2>5, <2>6, <2>7, <2>8 DEF TypeOK
<1>11. SlotsMatchBits
  <2>1. Ones(sysBits) = {}
    BY <1>0, CreateIs DEF Init
  <2>2. {s \in Slots : mm.sys[s] # NoFrame} = {}
    BY <1>1, <1>2
  <2>. QED
    BY <2>1, <2>2 DEF SlotsMatchBits
<1>12. ASSUME NEW as \in Spaces PROVE PagesFit(as) /\ StepFits(as) /\ WindowFits(as)
  <2>1. at[as].what = "gone" /\ owned[as] = {}
    BY <1>6
  <2>2. Empty(mm, as)
    BY <1>1, <1>4 DEF Empty, Blank
  <2>3. PagesFit(as)
    BY <2>1, <2>2 DEF PagesFit, Populated, Cloning, Handling
  <2>4. StepFits(as)
    BY <2>1 DEF StepFits, Cloning, Handling
  <2>5. WindowFits(as)
    BY <2>2, NoPteIs, PageRegions DEF WindowFits, Empty, Valid
  <2>. QED
    BY <2>3, <2>4, <2>5
<1>13. ChildrenFit
  BY <1>6 DEF ChildrenFit, Cloning
<1>14. TlbFits
  BY <1>9 DEF TlbFits
<1>15. NoUnexpectedFault
  BY DEF Init, NoUnexpectedFault
<1>. QED
  BY <1>8, <1>10, <1>11, <1>12, <1>13, <1>14, <1>15 DEF VmInv

LEMMA StutterFits ==
    ASSUME VmInv, UNCHANGED vars
    PROVE  VmInv'
<1>1. /\ mm' = mm /\ sysBits' = sysBits /\ poolBits' = poolBits /\ bitmapOf' = bitmapOf /\ owned' = owned
      /\ at' = at /\ cur' = cur /\ tlb' = tlb /\ priv' = priv /\ calls' = calls /\ stopped' = stopped
  BY DEF vars
<1>2. /\ Sound(mm', {}, HandlerRefs') /\ SlotsMatchBits' /\ ChildrenFit'
      /\ \A as \in Spaces : PagesFit(as)' /\ StepFits(as)' /\ WindowFits(as)'
  BY <1>1, NothingMoves
<1>3. TypeOK /\ TlbFits /\ NoUnexpectedFault
  BY DEF VmInv
<1>4. TypeOK' /\ NoUnexpectedFault'
  BY <1>1, <1>3 DEF TypeOK, NoUnexpectedFault
<1>5. TlbFits'
  BY <1>1, <1>3 DEF TlbFits, Reachable
<1>. QED
  BY <1>2, <1>4, <1>5 DEF VmInv

LEMMA StepKeeps ==
    ASSUME VmInv, [Next]_vars
    PROVE  VmInv'
<1>1. CASE UNCHANGED vars
  BY <1>1, StutterFits
<1>2. CASE /\ calls < MaxCalls /\ calls' = calls + 1
           /\ \E as \in Spaces : Call(as)
  <2>1. calls' \in 0 .. MaxCalls
    <3>1. calls \in 0 .. MaxCalls /\ MaxCalls \in Nat
      BY SizesAssumption DEF VmInv, TypeOK
    <3>. QED
      BY <1>2, <3>1
  <2>2. PICK as \in Spaces : Call(as)
    BY <1>2
  <2>3. CASE CreateProcess(as)
    BY <2>1, <2>3, CreateFits
  <2>4. CASE \E c \in Spaces : CloneProcess(as, c)
    BY <2>1, <2>4, CloneFits
  <2>5. CASE \E n \in 1 .. NPool : MmAllocateUserPtes(as, n)
    BY <2>1, <2>5, AllocateFits
  <2>6. CASE \E i \in 0 .. NPool - 1 : MmFreeUserPtes(as, i)
    BY <2>1, <2>6, FreeFitsVm
  <2>7. CASE \E a \in UserPages : Read(as, a) \/ MmPfHandler(as, a)
    BY <2>1, <2>7, ReadFits, FaultFits
  <2>8. CASE \E a \in UserPages, v \in Values \ {Unset} : Write(as, a, v) \/ KernelWrite(as, a, v)
    BY <2>1, <2>8, AccessFits
  <2>. QED
    BY <2>2, <2>3, <2>4, <2>5, <2>6, <2>7, <2>8 DEF Call
<1>3. CASE UNCHANGED calls /\ (\/ \E as \in Spaces : Continue(as)
                               \/ \E as \in Spaces \cup {System} : MmAttachToAddressSpace(as))
  <2>1. calls' \in 0 .. MaxCalls
    BY <1>3 DEF VmInv, TypeOK
  <2>2. CASE \E as \in Spaces \cup {System} : MmAttachToAddressSpace(as)
    BY <2>1, <2>2, AttachFits
  <2>3. ASSUME NEW as \in Spaces, Continue(as) PROVE VmInv'
    <3>1. CASE ELFBinaryLoader(as)
      BY <2>1, <3>1, LoadFits
    <3>2. CASE MmInitializeUserPtes(as)
      BY <2>1, <3>2, InitializeFits
    <3>3. CASE MmCloneProcessAddressSpace(as)
      BY <2>1, <3>3, CloneSpaceFits
    <3>4. CASE MmCloneUserPtes(as)
      BY <2>1, <3>4, CloneBitsFits
    <3>5. CASE MmVirtualAlloc(as)
      BY <2>1, <3>5, VirtualAllocFits
    <3>6. CASE PfMapTemp(as)
      BY <2>1, <3>6, MapTempFits
    <3>7. CASE PfMapNew(as)
      BY <2>1, <3>7, PfMapNewFits
    <3>8. CASE PfCopy(as)
      BY <2>1, <3>8, PfCopyFits
    <3>9. CASE MmDeleteProcessAddressSpace(as)
      BY <2>1, <3>9, DeleteFits
    <3>. QED
      BY <2>3, <3>1, <3>2, <3>3, <3>4, <3>5, <3>6, <3>7, <3>8, <3>9 DEF Continue
  <2>. QED
    BY <1>3, <2>2, <2>3
<1>. QED
  BY <1>1, <1>2, <1>3 DEF Next

-----------------------------------------------------------------------------
(* The theorems.                                                            *)

\* The counts, the page tables, the bitmaps, the cached translations and every process in the middle of
\* a fault, a clone or an allocation fit together, in every state.
THEOREM VmInvariant == Spec => []VmInv
<1>1. Init => VmInv
  BY InitFits
<1>2. VmInv /\ [Next]_vars => VmInv'
  BY StepKeeps
<1>. QED
  BY <1>1, <1>2, PTL DEF Spec

\* The count of a frame is the number of its references, the handlers' own included, and the free list is
\* what the counts say: MiInsertPage, MiRemovePage, MmCloneProcessAddressSpace,
\* MmDeleteProcessAddressSpace and MmPfHandler lose no reference and no frame between them.
THEOREM FramesCounted == Spec => []FramesExact
<1>1. VmInv => FramesExact
  <2>1. SUFFICES ASSUME VmInv PROVE FramesExact
    OBVIOUS
  <2>2. TypeOK /\ Sound(mm, {}, HandlerRefs)
    BY <2>1 DEF VmInv
  <2>3. RefCountExact
    <3>1. SUFFICES ASSUME NEW f \in Frames PROVE mm.ref[f] = References(f)
      BY DEF RefCountExact
    <3>2. mm.ref[f] = Mappings(mm, f) + HandlerRefs[f]
      BY <2>2 DEF Sound, Counted
    <3>3. HandlerRefs[f] = Cardinality(Handlers(f))
      BY DEF HandlerRefs
    <3>. QED
      BY <3>2, <3>3 DEF References
  <2>4. FreeListExact
    <3>1. mm.free \subseteq Frames
      BY <2>2 DEF TypeOK, Memory
    <3>2. \A f \in Frames : f \in mm.free <=> mm.ref[f] = 0
      BY <2>2 DEF Sound, FreeFits
    <3>. QED
      BY <3>1, <3>2 DEF FreeListExact
  <2>. QED
    BY <2>2, <2>3, <2>4 DEF FramesExact
<1>. QED
  BY <1>1, VmInvariant, PTL

\* The fast path of MmPfHandler gives write access to the last user of a frame only: a user page that may
\* be written has the only reference to its frame.
THEOREM WritableAlone == Spec => []WritableIsPrivate
<1>1. VmInv => WritableIsPrivate
  <2>1. SUFFICES ASSUME VmInv, NEW as \in Spaces, NEW a \in UserPages, mm.pte[as][a].w
                 PROVE  mm.ref[mm.pte[as][a].f] = 1 /\ ~mm.pte[as][a].cow
    BY DEF WritableIsPrivate
  <2>2. a \in Pages /\ mm \in Memory /\ EntriesFit(mm)
    BY <2>1, PageRegions DEF VmInv, Sound
  <2>3. PteFits(mm, as, a)
    BY <2>2 DEF EntriesFit
  <2>4. mm.pte[as][a].f # NoFrame
    BY <2>1, <2>3, NoPteIs DEF PteFits
  <2>. QED
    BY <2>1, <2>3, <2>4 DEF PteFits
<1>. QED
  BY <1>1, VmInvariant, PTL

\* Copy on write is invisible to the program: it finds in its pages what it put there, through any number
\* of clones, faults and deletions, unless the frame was written past its read-only bit.
THEOREM CopyOnWriteIsolates == Spec => []Isolation
<1>1. VmInv => Isolation
  <2>1. SUFFICES ASSUME VmInv, NEW as \in Spaces, at[as].what = "user", NEW a \in Reachable(as),
                        mm.pte[as][a].f \notin mm.taint
                 PROVE  mm.data[mm.pte[as][a].f] = priv[as][a]
    BY DEF Isolation
  <2>2. Holds(mm, as, a, priv[as][a])
    BY <2>1 DEF VmInv, PagesFit, Populated, Handling
  <2>. QED
    BY <2>1, <2>2 DEF Holds, Keeps
<1>. QED
  BY <1>1, VmInvariant, PTL

\* A system PTE has its bit exactly while a frame is mapped behind it, and no page is missing under a
\* process that was given it, so MiRemovePage and MmPfHandler never stop the machine.
THEOREM PtesFollowBits == Spec => []PtesTracked
<1>1. VmInv => PtesTracked
  BY DEF VmInv, PtesTracked
<1>. QED
  BY <1>1, VmInvariant, PTL

\* What a clone leaves in the window of the parent or of the child maps page tables only: it costs
\* MmPfHandler no copy of a program's page.
THEOREM WindowIsTables == Spec => []WindowHoldsTables
<1>1. VmInv => WindowHoldsTables
  <2>1. SUFFICES ASSUME VmInv, NEW as \in Spaces, NEW a \in TempPages, at[as].what \in {"user", "child"},
                        Valid(mm, as, a), NEW x \in Spaces \X UserPages
                 PROVE  mm.pte[x[1]][x[2]].f # mm.pte[as][a].f
    BY DEF WindowHoldsTables
  <2>2. x[1] \in Spaces /\ x[2] \in UserPages
    OBVIOUS
  <2>. QED
    BY <2>1, <2>2 DEF VmInv, WindowFits
<1>. QED
  BY <1>1, VmInvariant, PTL

\* Every bitmap that a step leaves behind behaves as the set of its 1 bits: BmBitmapScan finds the first
\* run, and BmBitmapScanAndFlip and BmBitmapSetMultiple change that run and nothing else.
THEOREM BitmapsAlwaysAgree == Spec => BitmapsAgree
<1>1. TypeOK' => Agrees(sysBits') /\ \A s \in Slots : Agrees(poolBits'[s])
  <2>1. SUFFICES ASSUME TypeOK' PROVE Agrees(sysBits') /\ \A s \in Slots : Agrees(poolBits'[s])
    OBVIOUS
  <2>2. NSys \in Nat /\ NPool \in Nat
    BY Sizes
  <2>3. sysBits' \in Bitmaps(NSys) /\ \A s \in Slots : poolBits'[s] \in Bitmaps(NPool)
    BY <2>1 DEF TypeOK
  <2>. QED
    BY <2>2, <2>3, BitmapsAreSets
<1>2. VmInv' => TypeOK'
  BY DEF VmInv
<1>3. VmInv' => [/\ sysBits' # sysBits => Agrees(sysBits')
                 /\ \A s \in Slots : poolBits'[s] # poolBits[s] => Agrees(poolBits'[s])]_<<sysBits, poolBits>>
  BY <1>1, <1>2
<1>. QED
  BY <1>3, VmInvariant, PTL DEF BitmapsAgree
=============================================================================
