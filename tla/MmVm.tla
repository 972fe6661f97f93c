-------------------------------- MODULE MmVm --------------------------------
(***************************************************************************)
(* Virtual memory (kern/mm/mm.c): page frames and their reference counts,  *)
(* the free page list, page tables, system and user PTE pools, address     *)
(* spaces that are created, cloned copy-on-write and deleted, and the page *)
(* fault handler.  The processor's TLB is in the model, because the code   *)
(* chooses where to invalidate it.                                         *)
(*                                                                         *)
(* What runs at DISPATCH_LEVEL is one step.  Creating and cloning a        *)
(* process, the turns of MmVirtualAlloc, and the fault handler, which runs *)
(* with interrupts on, are several; another process may run between any    *)
(* two.  MmAllocatePFN and MiFreePFN are taken as atomic (their lock       *)
(* macros are empty: a tick inside them is not modelled).                  *)
(***************************************************************************)
EXTENDS Integers, FiniteSets, FiniteSetsExt, Bitmap

CONSTANTS
    NFrames,    \* page frames behind the free list
    Spaces,     \* processes
    Programs,   \* the processes that may be created from a program
    System,     \* the boot page directory, which has no user half
    NTemp,      \* pages of the USERTEMP window
    NPool,      \* pages of the user PTE pool
    NSys,       \* pages of the system PTE area
    Values,     \* what a page may contain
    MaxTaint,   \* bound on the frames written past their read-only bit at a time
    MaxCalls    \* bound on what processes do: creations, clones, pool calls, accesses

ASSUME SizesAssumption ==
    /\ {NFrames, NTemp, NPool, NSys} \subseteq Nat \ {0} /\ {MaxTaint, MaxCalls} \subseteq Nat
    /\ IsFiniteSet(Spaces) /\ Programs \subseteq Spaces /\ System \notin Spaces
    /\ Values # {}

VARIABLES
    mm,         \* frames (free, ref, data, and taint: written although read-only), tables (pde, pte, sys, dir)
    sysBits,    \* MiSystemPteBitmap
    poolBits,   \* per system page, the bits of the user bitmap it holds
    bitmapOf,   \* per process, the page whose bits its UserPtePool points to
    owned,      \* per process, the pool pages it was given and has not freed
    at,         \* per process, what it is doing
    cur,        \* the address space in CR3
    tlb,        \* the translations the processor has cached for it
    priv,       \* per process and page, what the process last put there
    calls,      \* how many of the bounded operations were started
    stopped     \* "" or why KeBugCheck or ASSERT stopped the machine

vars == <<mm, sysBits, poolBits, bitmapOf, owned, at, cur, tlb, priv, calls, stopped>>

-----------------------------------------------------------------------------
Frames == 1 .. NFrames
NoFrame == 0
Region == {"temp", "text", "pool"}   \* user page tables
TempPages == {<<"temp", i>> : i \in 0 .. NTemp - 1}
Text == <<"text", 0>>
PoolPage(i) == <<"pool", i>>
UserPages == {Text} \cup {PoolPage(i) : i \in 0 .. NPool - 1}
Pages == TempPages \cup UserPages
Slots == 0 .. NSys - 1
NoSlot == -1
Unset == CHOOSE v \in Values : TRUE

NoPte == [f |-> NoFrame, w |-> FALSE, cow |-> FALSE]
Valid(m, as, a) == m.pte[as][a].f # NoFrame

\* What a process is doing: gone, being made, in user mode, or at a step of a clone or of a fault
Doing(what) ==
    [what |-> what, child |-> System, page |-> Text, left |-> 0, old |-> NoFrame, temp |-> <<"temp", 0>>]
Live == {as \in Spaces : at[as].what # "gone"}

\* MmAllocatePFN takes a frame from the free list, MiFreePFN puts one back.  The order of the list and
\* what a free frame contains are not followed
Free(m) == Cardinality(m.free)
NextFree(m) == Min(m.free)
Allocated(m) == [m EXCEPT !.free = @ \ {NextFree(m)}]
MiFreePFN(m, f) == [m EXCEPT !.free = @ \cup {f}, !.data[f] = Unset, !.taint = @ \ {f}]

\* Mutant: the last reference goes and the frame is not freed
CountOnly(m, f) == [m EXCEPT !.ref[f] = @ - 1]

MiDecReferencePFN(m, f) ==
    IF m.ref[f] = 1 THEN MiFreePFN([m EXCEPT !.ref[f] = 0], f) ELSE [m EXCEPT !.ref[f] = @ - 1]

MiRemovePage(m, as, a) == MiDecReferencePFN([m EXCEPT !.pte[as][a] = NoPte], m.pte[as][a].f)

\* The page table for a region, allocated and cleared if there is none yet
NeedsTable(m, as, r) == IF m.pde[as][r] = NoFrame THEN 1 ELSE 0
WithTable(m, as, r) ==
    IF m.pde[as][r] # NoFrame THEN m
    ELSE [Allocated(m) EXCEPT !.ref[NextFree(m)] = @ + 1, !.pde[as][r] = NextFree(m)]

\* MiInsertPage: what was mapped at the address is removed first
MiInsertPage(m, as, a, f) ==
    IF m.pte[as][a].f = f THEN m
    ELSE LET t == WithTable(m, as, a[1])
             n == IF Valid(t, as, a) THEN MiRemovePage(t, as, a) ELSE t
         IN [n EXCEPT !.pte[as][a] = [f |-> f, w |-> TRUE, cow |-> FALSE], !.ref[f] = @ + 1]

\* A turn of MmMapSegment and of MmVirtualAlloc, and the frames such turns take
MapNew(m, as, a) == MiInsertPage(Allocated(m), as, a, NextFree(m))
FramesFor(m, as, r, n) == n + NeedsTable(m, as, r)

\* invlpg: MiInsertPage does it, MiRemovePage does not
InvalidateTLB(A) == tlb' = [a \in DOMAIN tlb \ A |-> tlb[a]]
NoTlb == <<>>

Running(as, what) == stopped = "" /\ cur = as /\ at[as].what = what
KeBugCheck(why) ==
    /\ stopped' = why
    /\ UNCHANGED <<mm, sysBits, poolBits, bitmapOf, owned, at, cur, tlb, priv>>

-----------------------------------------------------------------------------
(* System PTEs: the first clear bit, and a frame behind it.                *)

FreeSlot == BmBitmapScan(sysBits, 0, 1, FALSE)
NoSystemPte == FreeSlot = BITMAP_ERROR \/ Free(mm) = 0
WithSys(m, s) == [Allocated(m) EXCEPT !.sys[s] = NextFree(m), !.ref[NextFree(m)] = @ + 1]
MmAllocateSystemPtes == sysBits' = ScanAndFlipped(sysBits, 0, 1, FALSE)

\* Mutant: the page goes and the bit stays
BitStays(s) == sysBits' = sysBits

MmFreeSystemPtes(s) == sysBits' = BmBitmapSetMultiple(sysBits, s, 1, FALSE)

-----------------------------------------------------------------------------
(* Address spaces.                                                         *)

\* A page directory for a process; it starts without a user half
MmCreateProcessAddressSpace(as, what) ==
    /\ mm' = [WithSys(mm, FreeSlot) EXCEPT !.dir[as] = FreeSlot]
    /\ MmAllocateSystemPtes
    /\ at' = what
    /\ UNCHANGED <<poolBits, bitmapOf, owned, cur, tlb, priv, stopped>>

\* PspAllocateProcess for a program, by the system
CreateProcess(as) ==
    /\ stopped = "" /\ cur = System /\ as \in Programs \ Live
    /\ IF NoSystemPte THEN KeBugCheck("memory")
       ELSE MmCreateProcessAddressSpace(as, [at EXCEPT ![as] = Doing("created")])

\* PspAllocateProcess for a clone, by the process itself
CloneProcess(p, c) ==
    /\ Running(p, "user") /\ c \notin Live
    /\ IF NoSystemPte THEN KeBugCheck("memory")
       ELSE MmCreateProcessAddressSpace(c, [at EXCEPT ![p] = [Doing("clone space") EXCEPT !.child = c],
                                                      ![c] = Doing("child")])

\* A segment of a program: one page of it
MmMapSegment(m, as) == MapNew(m, as, Text)

\* lcr3 to the new process and back, with PspDetachProcess: both drop every translation
PspAttachProcess == tlb' = NoTlb

\* The loader, attached to the new process, for a program of one segment.  Its bytes are Unset
ELFBinaryLoader(as) ==
    /\ stopped = "" /\ at[as].what = "created"
    /\ IF Free(mm) < FramesFor(mm, as, "text", 1) THEN KeBugCheck("memory")
       ELSE /\ mm' = MmMapSegment(mm, as)
            /\ priv' = [priv EXCEPT ![as][Text] = Unset]
            /\ at' = [at EXCEPT ![as] = Doing("loaded")]
            /\ PspAttachProcess
            /\ UNCHANGED <<sysBits, poolBits, bitmapOf, owned, cur, stopped>>

\* A page for the user bitmap
WithBitmap(as, doing, bits, of) ==
    IF NoSystemPte THEN KeBugCheck("memory")
    ELSE /\ mm' = WithSys(mm, FreeSlot)
         /\ MmAllocateSystemPtes
         /\ poolBits' = [poolBits EXCEPT ![FreeSlot] = bits]
         /\ bitmapOf' = [bitmapOf EXCEPT ![as] = of]
         /\ at' = doing
         /\ UNCHANGED <<owned, cur, tlb, priv, stopped>>

MmInitializeUserPtes(as) ==
    /\ stopped = "" /\ at[as].what = "loaded"
    /\ WithBitmap(as, [at EXCEPT ![as] = Doing("user")], BmBitmapCreateInBuffer(NPool), FreeSlot)

\* The copy of the parent's page has the parent's pointer to the bits in it
MmCloneUserPtes(p) ==
    /\ Running(p, "clone bits")
    /\ WithBitmap(at[p].child, [at EXCEPT ![p] = Doing("user"), ![at[p].child] = Doing("user")],
                  poolBits[bitmapOf[p]], bitmapOf[p])

\* A context switch: lcr3 drops every translation
MmAttachToAddressSpace(as) ==
    /\ stopped = "" /\ as # cur
    /\ as \in {System} \cup {p \in Live : at[p].what \notin {"created", "loaded", "child"}}
    /\ cur' = as /\ tlb' = NoTlb
    /\ UNCHANGED <<mm, sysBits, poolBits, bitmapOf, owned, at, priv, stopped>>

\* MmMapPageTemp: the first free page of the USERTEMP window
TempFree(m, as) == {a \in TempPages : ~Valid(m, as, a)}
TempFor(m, as) == <<"temp", Min({a[2] : a \in TempFree(m, as)})>>

MmUnMapPageTemp(m, as, a) == MiRemovePage(m, as, a)
NoTemp(as) == TempFree(mm, as) = {} \/ Free(mm) < NeedsTable(mm, as, "temp")

\* What was writable is read-only and copy-on-write
CopyOnWrite(e) == IF e.w THEN [e EXCEPT !.w = FALSE, !.cow = TRUE] ELSE e

\* Share pages of the parent, copy-on-write in both
Shared(m, p, c, A) ==
    [m EXCEPT !.pte[p] = [a \in Pages |-> IF a \in A THEN CopyOnWrite(@[a]) ELSE @[a]],
              !.pte[c] = [a \in Pages |-> IF a \in A THEN CopyOnWrite(m.pte[p][a]) ELSE @[a]],
              !.ref = [f \in Frames |-> @[f] + Cardinality({a \in A : m.pte[p][a].f = f})]]

\* The pages of a region that are mapped
RegionPages(m, p, r) == {a \in Pages : a[1] = r /\ Valid(m, p, a)}

\* A turn of the outer loop.  The child's page table is mapped in the parent's window while it is filled;
\* when the window's own region is cloned, that mapping is cloned too
CloneRegion(m, p, c, r) ==
    IF m.pde[p][r] = NoFrame THEN m
    ELSE LET t == NextFree(m)
             n == MiInsertPage([Allocated(m) EXCEPT !.ref[t] = @ + 1, !.pde[c][r] = t], p, TempFor(m, p), t)
         IN MmUnMapPageTemp(Shared(n, p, c, RegionPages(n, p, r)), p, TempFor(m, p))

\* The loop takes a table for each region of the parent, and one for the window if it had none
CloneFrames(p) == Cardinality({r \in Region : mm.pde[p][r] # NoFrame}) + NeedsTable(mm, p, "temp")

\* At DISPATCH_LEVEL, in the context of the parent.  Nothing is invalidated but the window's page
MmCloneProcessAddressSpace(p) ==
    /\ Running(p, "clone space")
    /\ IF TempFree(mm, p) = {} \/ Free(mm) < CloneFrames(p) THEN KeBugCheck("memory")
       ELSE \E c \in {at[p].child} :
            /\ \E m1 \in {CloneRegion(mm, p, c, "temp")} :
               \E m2 \in {CloneRegion(m1, p, c, "text")} : mm' = CloneRegion(m2, p, c, "pool")
            /\ owned' = [owned EXCEPT ![c] = owned[p]]
            /\ priv' = [priv EXCEPT ![c] = priv[p]]
            /\ at' = [at EXCEPT ![p].what = "clone bits"]
            /\ UNCHANGED <<sysBits, poolBits, bitmapOf, cur, tlb, stopped>>

\* Every page, then its table, then the directory: the counts drop, and what reaches 0 goes to the
\* free list.  Nobody frees the page of the user bitmap
Dropped(m, as, f) ==
    Cardinality({a \in Pages : m.pte[as][a].f = f}) + Cardinality({r \in Region : m.pde[as][r] = f})
        + (IF m.sys[m.dir[as]] = f THEN 1 ELSE 0)

RemoveAll(m, as) ==
    LET refs == [f \in Frames |-> m.ref[f] - Dropped(m, as, f)]
        gone == {f \in Frames : refs[f] = 0 /\ m.ref[f] > 0}
    IN [m EXCEPT !.ref = refs, !.free = @ \cup gone,
                 !.data = [f \in Frames |-> IF f \in gone THEN Unset ELSE @[f]], !.taint = @ \ gone,
                 !.pte[as] = [a \in Pages |-> NoPte], !.pde[as] = [r \in Region |-> NoFrame],
                 !.sys[m.dir[as]] = NoFrame, !.dir[as] = NoSlot]

MmDeleteProcessAddressSpace(as) ==
    /\ stopped = "" /\ as # cur /\ at[as].what = "user"
    /\ mm' = RemoveAll(mm, as)
    /\ MmFreeSystemPtes(mm.dir[as])
    /\ at' = [at EXCEPT ![as] = Doing("gone")]
    /\ owned' = [owned EXCEPT ![as] = {}]
    /\ bitmapOf' = [bitmapOf EXCEPT ![as] = NoSlot]
    /\ priv' = [priv EXCEPT ![as] = [a \in UserPages |-> Unset]]
    /\ tlb' = NoTlb
    /\ UNCHANGED <<poolBits, cur, stopped>>

-----------------------------------------------------------------------------
(* The user PTE pool of the current process.                               *)

\* The bits go first; the pages follow, one in each turn of MmVirtualAlloc
MmAllocateUserPtes(as, n) ==
    /\ Running(as, "user")
    /\ \E b \in {poolBits[bitmapOf[as]]} : \E i \in {BmBitmapScan(b, 0, n, FALSE)} :
        /\ i # BITMAP_ERROR
        /\ poolBits' = [poolBits EXCEPT ![bitmapOf[as]] = ScanAndFlipped(b, 0, n, FALSE)]
        /\ at' = [at EXCEPT ![as] = [Doing("alloc") EXCEPT !.page = PoolPage(i), !.left = n]]
    /\ UNCHANGED <<mm, sysBits, bitmapOf, owned, cur, tlb, priv, stopped>>

\* The next turn of its loop, if any
NextTurn(d) ==
    IF d.left = 1 THEN Doing("user") ELSE [d EXCEPT !.page = PoolPage(d.page[2] + 1), !.left = d.left - 1]

MmVirtualAlloc(as) ==
    /\ Running(as, "alloc")
    /\ \E a \in {at[as].page} :
        IF Free(mm) < FramesFor(mm, as, "pool", 1) THEN KeBugCheck("memory")
        ELSE /\ mm' = MapNew(mm, as, a)
             /\ owned' = [owned EXCEPT ![as] = @ \cup {a[2]}]
             /\ priv' = [priv EXCEPT ![as][a] = Unset]
             /\ at' = [at EXCEPT ![as] = NextTurn(@)]
             /\ InvalidateTLB({a})
             /\ UNCHANGED <<sysBits, poolBits, bitmapOf, cur, stopped>>

\* The bit goes first, then the page; its translation stays cached
MmFreeUserPtes(as, i) ==
    /\ Running(as, "user") /\ i \in owned[as]
    /\ IF ~BmBitmapTest(poolBits[bitmapOf[as]], i) THEN KeBugCheck("bit")
       ELSE IF ~Valid(mm, as, PoolPage(i)) THEN KeBugCheck("unmapped")
       ELSE /\ poolBits' = [poolBits EXCEPT ![bitmapOf[as]] = BmBitmapSetMultiple(@, i, 1, FALSE)]
            /\ mm' = MiRemovePage(mm, as, PoolPage(i))
            /\ owned' = [owned EXCEPT ![as] = @ \ {i}]
            /\ UNCHANGED <<sysBits, bitmapOf, at, cur, tlb, priv, stopped>>

-----------------------------------------------------------------------------
(* The program reads and writes its pages; the processor uses the          *)
(* translation it has cached or, if it has none or has evicted it, walks   *)
(* the tables.  CR0.WP is off: the kernel, copying to a user's buffer,     *)
(* writes to read-only pages too.                                          *)

Reachable(as) == {Text} \cup {PoolPage(i) : i \in owned[as]}
Walked(as, a) == [f |-> mm.pte[as][a].f, w |-> mm.pte[as][a].w]
Translations(as, a) == {Walked(as, a)} \cup (IF a \in DOMAIN tlb THEN {tlb[a]} ELSE {})
Cache(a, x) == tlb' = [b \in DOMAIN tlb \cup {a} |-> IF b = a THEN x ELSE tlb[b]]

Read(as, a) ==
    /\ Running(as, "user") /\ a \in Reachable(as) /\ a \notin DOMAIN tlb
    /\ Cache(a, Walked(as, a))
    /\ UNCHANGED <<mm, sysBits, poolBits, bitmapOf, owned, at, cur, priv, stopped>>

\* A write to a frame taints it, unless the tables let the program write it
Tainted(as, a, f) == IF Walked(as, a) = [f |-> f, w |-> TRUE] THEN mm.taint ELSE mm.taint \cup {f}

Put(as, a, x, v) ==
    /\ mm' = [mm EXCEPT !.data[x.f] = v, !.taint = Tainted(as, a, x.f)]
    /\ Cardinality(mm'.taint) <= MaxTaint
    /\ Cache(a, x)
    /\ priv' = [priv EXCEPT ![as][a] = v]
    /\ UNCHANGED <<sysBits, poolBits, bitmapOf, owned, at, cur, stopped>>

\* The program writes if the translation lets it
Write(as, a, v) ==
    /\ Running(as, "user") /\ a \in Reachable(as)
    /\ \E x \in Translations(as, a) : x.w /\ Put(as, a, x, v)

\* The kernel writes for it, to any page
KernelWrite(as, a, v) ==
    /\ Running(as, "user") /\ a \in Reachable(as)
    /\ \E x \in Translations(as, a) : ~x.w /\ Put(as, a, x, v)

-----------------------------------------------------------------------------
(* MmPfHandler.  The write is retried when it returns.                     *)

\* The handler's own reference to the old frame
Referenced(m, e) == [m EXCEPT !.ref[e.f] = @ + 1]

\* Mutant: a frame with another user becomes writable too
MayBeLast(f) == mm.ref[f] <= 2

\* MiGetRefCount(Pfn) == 1
LastReference(f) == mm.ref[f] = 1

\* The fault drops the translation.  A frame nobody else maps becomes writable again; else it is unmapped
MmPfHandler(as, a) ==
    /\ Running(as, "user") /\ a \in Reachable(as)
    /\ \E x \in Translations(as, a) : ~x.w
    /\ \E e \in {mm.pte[as][a]} :
        IF ~e.cow THEN KeBugCheck("not COW")
        ELSE /\ InvalidateTLB({a})
             /\ \/ /\ LastReference(e.f)
                   /\ mm' = [mm EXCEPT !.pte[as][a] = [e EXCEPT !.w = TRUE, !.cow = FALSE]]
                   /\ at' = at
                \/ /\ ~LastReference(e.f)
                   /\ mm' = MiRemovePage(Referenced(mm, e), as, a)
                   /\ at' = [at EXCEPT ![as] = [Doing("removed") EXCEPT !.page = a, !.old = e.f]]
             /\ UNCHANGED <<sysBits, poolBits, bitmapOf, owned, cur, priv, stopped>>

\* MmMapPageTemp of the old frame
PfMapTemp(as) ==
    /\ Running(as, "removed")
    /\ IF NoTemp(as) THEN KeBugCheck("memory")
       ELSE /\ mm' = MiInsertPage(mm, as, TempFor(mm, as), at[as].old)
            /\ at' = [at EXCEPT ![as].what = "temp", ![as].temp = TempFor(mm, as)]
            /\ UNCHANGED <<sysBits, poolBits, bitmapOf, owned, cur, tlb, priv, stopped>>

\* MmMapSegment of a new frame at the faulting page
PfMapNew(as) ==
    /\ Running(as, "temp")
    /\ IF Free(mm) = 0 THEN KeBugCheck("memory")
       ELSE /\ mm' = MapNew(mm, as, at[as].page)
            /\ at' = [at EXCEPT ![as].what = "mapped"]
            /\ InvalidateTLB({at[as].page})
            /\ UNCHANGED <<sysBits, poolBits, bitmapOf, owned, cur, priv, stopped>>

\* Mutant: the handler returns before the copy
NotCopied(m, new, old) == m

\* memcpy from the window to the new page
Copied(m, new, old) ==
    [m EXCEPT !.data[new] = m.data[old], !.taint = IF old \in @ THEN @ \cup {new} ELSE @]

\* Mutant: the old page stays in the window
StaysInWindow(m, as) == m

\* The handler's MmUnMapPageTemp
Unwindowed(m, as) == MmUnMapPageTemp(m, as, at[as].temp)

\* memcpy, MmUnMapPageTemp, and the handler's own reference
PfCopy(as) ==
    /\ Running(as, "mapped")
    /\ \E new \in {mm.pte[as][at[as].page].f}, old \in {at[as].old} :
        mm' = MiDecReferencePFN(Unwindowed(Copied(mm, new, old), as), old)
    /\ at' = [at EXCEPT ![as] = Doing("user")]
    /\ UNCHANGED <<sysBits, poolBits, bitmapOf, owned, cur, tlb, priv, stopped>>

-----------------------------------------------------------------------------

Init ==
    /\ mm = [free |-> Frames, ref |-> [f \in Frames |-> 0], data |-> [f \in Frames |-> Unset],
             taint |-> {},
             pde |-> [as \in Spaces |-> [r \in Region |-> NoFrame]],
             pte |-> [as \in Spaces |-> [a \in Pages |-> NoPte]],
             sys |-> [s \in Slots |-> NoFrame], dir |-> [as \in Spaces |-> NoSlot]]
    /\ sysBits = BmBitmapCreateInBuffer(NSys)
    /\ poolBits = [s \in Slots |-> BmBitmapCreateInBuffer(NPool)]
    /\ bitmapOf = [as \in Spaces |-> NoSlot]
    /\ owned = [as \in Spaces |-> {}] /\ at = [as \in Spaces |-> Doing("gone")]
    /\ cur = System /\ tlb = NoTlb
    /\ priv = [as \in Spaces |-> [a \in UserPages |-> Unset]]
    /\ calls = 0 /\ stopped = ""

\* A process starts something
Call(as) ==
    \/ CreateProcess(as)
    \/ \E c \in Spaces : CloneProcess(as, c)
    \/ \E n \in 1 .. NPool : MmAllocateUserPtes(as, n)
    \/ \E i \in 0 .. NPool - 1 : MmFreeUserPtes(as, i)
    \/ \E a \in UserPages : Read(as, a) \/ MmPfHandler(as, a)
    \/ \E a \in UserPages, v \in Values \ {Unset} : Write(as, a, v) \/ KernelWrite(as, a, v)

\* The kernel goes on with what was started, or switches to another process
Continue(as) ==
    \/ ELFBinaryLoader(as) \/ MmInitializeUserPtes(as)
    \/ MmCloneProcessAddressSpace(as) \/ MmCloneUserPtes(as)
    \/ MmVirtualAlloc(as)
    \/ PfMapTemp(as) \/ PfMapNew(as) \/ PfCopy(as)
    \/ MmDeleteProcessAddressSpace(as)

Next ==
    \/ calls < MaxCalls /\ calls' = calls + 1 /\ \E as \in Spaces : Call(as)
    \/ UNCHANGED calls /\ \/ \E as \in Spaces : Continue(as)
                          \/ \E as \in Spaces \cup {System} : MmAttachToAddressSpace(as)

Spec == Init /\ [][Next]_vars

-----------------------------------------------------------------------------
(* Properties.                                                             *)

Pte == [f : Frames \cup {NoFrame}, w : BOOLEAN, cow : BOOLEAN]
Memory == [free : SUBSET Frames, ref : [Frames -> Nat], data : [Frames -> Values], taint : SUBSET Frames,
           pde : [Spaces -> [Region -> Frames \cup {NoFrame}]], pte : [Spaces -> [Pages -> Pte]],
           sys : [Slots -> Frames \cup {NoFrame}], dir : [Spaces -> Slots \cup {NoSlot}]]
Steps == {"gone", "created", "loaded", "child", "user", "clone space", "clone bits", "alloc",
          "removed", "temp", "mapped"}
Doings == [what : Steps, child : Spaces \cup {System}, page : UserPages, left : 0 .. NPool,
           old : Frames \cup {NoFrame}, temp : TempPages]

\* Every variable has its type: reference counts never go below 0, and an element's spare bits stay 0.
TypeOK ==
    /\ mm \in Memory
    /\ sysBits \in Bitmaps(NSys)
    /\ poolBits \in [Slots -> Bitmaps(NPool)]
    /\ bitmapOf \in [Spaces -> Slots \cup {NoSlot}] /\ owned \in [Spaces -> SUBSET (0 .. NPool - 1)]
    /\ at \in [Spaces -> Doings] /\ cur \in Spaces \cup {System}
    /\ DOMAIN tlb \subseteq UserPages
    /\ \A a \in DOMAIN tlb : tlb[a] \in [f : Frames \cup {NoFrame}, w : BOOLEAN]
    /\ priv \in [Spaces -> [UserPages -> Values]]
    /\ calls \in 0 .. MaxCalls /\ stopped \in {"", "memory", "bit", "unmapped", "not COW"}

\* What maps a frame: pages, page tables and system pages
Mappings(m, f) ==
    Cardinality({x \in Spaces \X Pages : m.pte[x[1]][x[2]].f = f})
        + Cardinality({x \in Spaces \X Region : m.pde[x[1]][x[2]] = f})
        + Cardinality({s \in Slots : m.sys[s] = f})

\* References to a frame: what maps it, and fault handlers between taking their own reference and
\* dropping it
Handlers(f) == {as \in Spaces : at[as].what \in {"removed", "temp", "mapped"} /\ at[as].old = f}
References(f) == Mappings(mm, f) + Cardinality(Handlers(f))

\* RefCount is the number of references, through clones, faults and deletions in any interleaving.
RefCountExact == \A f \in Frames : mm.ref[f] = References(f)

\* The free list holds every frame nobody refers to and no other: no path forgets the last reference,
\* and no frame is given out twice.
FreeListExact == mm.free = {f \in Frames : mm.ref[f] = 0}

\* Frames are accounted for: the count of each is right and the free list is what the counts say,
\* with clones, faults and deletions in any of their steps.
FramesExact == TypeOK /\ RefCountExact /\ FreeListExact

\* A user page that may be written has a frame that nobody else refers to: the fast path of
\* MmPfHandler, which only looks at the count, never gives away a shared frame.
WritableIsPrivate ==
    \A as \in Spaces, a \in UserPages : mm.pte[as][a].w => mm.ref[mm.pte[as][a].f] = 1 /\ ~mm.pte[as][a].cow

\* Copy on write is invisible: a process finds in a page what it put there, whatever its parent or its
\* child wrote meanwhile, unless the frame was written past its read-only bit (by the kernel, or through
\* a translation that was cached before the clone).
Isolation ==
    \A as \in Spaces : at[as].what = "user" =>
        \A a \in Reachable(as) : mm.pte[as][a].f \notin mm.taint => mm.data[mm.pte[as][a].f] = priv[as][a]

\* What a process was given stays mapped, so neither MiRemovePage nor MmPfHandler meets a page it
\* stops the machine for.
NoUnexpectedFault == stopped \notin {"unmapped", "not COW"}

\* A system PTE has its bit exactly while a frame is mapped behind it.
SlotsMatchBits == Ones(sysBits) = {s \in Slots : mm.sys[s] # NoFrame}

\* Bits, PTEs and owners agree: no system page is lost or handed out while it is mapped, and no page is
\* unmapped under the process that was given it.
PtesTracked == SlotsMatchBits /\ NoUnexpectedFault

\* Window pages left over from a clone map page tables only, so they never add to the count of a
\* page of the program, and MmPfHandler copies no page needlessly because of them.
WindowHoldsTables ==
    \A as \in Spaces, a \in TempPages : at[as].what \in {"user", "child"} /\ Valid(mm, as, a) =>
        \A x \in Spaces \X UserPages : mm.pte[x[1]][x[2]].f # mm.pte[as][a].f

\* What the bitmap operations do to a bitmap they do to the set of its 1 bits, and BmBitmapScan finds
\* the first run: of every bitmap that a step leaves behind.
BitmapsAgree ==
    [][/\ sysBits' # sysBits => Agrees(sysBits')
       /\ \A s \in Slots : poolBits'[s] # poolBits[s] => Agrees(poolBits'[s])]_<<sysBits, poolBits>>

\* MmAllocateUserPtes is per process: a page that a process has is not given out again, because its
\* bit is set.  Does not hold after a clone: parent and child use the same bits.
PoolBitsCoverOwned ==
    \A as \in Spaces : at[as].what = "user" => owned[as] \subseteq Ones(poolBits[bitmapOf[as]])
=============================================================================
