------------------------------- MODULE MmPool -------------------------------
(***************************************************************************)
(* One kernel pool (kern/mm/pool.c): a list of blocks, each a header       *)
(* followed by its memory, that MmAllocatePoolWithTag splits and           *)
(* MmFreePoolWithTag merges.                                               *)
(*                                                                         *)
(* PoolLock is a spin lock and there is one processor, so a locked section *)
(* is one step.  MmFreePoolWithTag marks its block free before it takes    *)
(* the lock; in between, at PASSIVE_LEVEL, other threads run.  It is two   *)
(* steps.  Both pools have the same code and separate lists; one is        *)
(* modelled.                                                               *)
(***************************************************************************)
EXTENDS Integers, SequencesExt

CONSTANTS
    Threads,          \* the callers
    PoolSize,         \* the size argument of MmInitializePool
    Header,           \* sizeof(POOLHEADER)
    Pad,              \* POOLPAD
    MinFree,          \* MINIMUMFREEPOOLSIZE
    Word,             \* 2^32: sizes are of the unsigned type size_t
    Requests,         \* the NumberOfBytes that are asked for
    FreeTags,         \* how callers free: with the block's tag, another one, or 0
    CallersFreeTwice, \* whether a caller may free a pointer again
    None              \* no block

ASSUME PoolAssumption ==
    /\ Header \in Nat \ {0} /\ Pad \in Nat /\ MinFree \in Nat /\ Word \in Nat
    /\ PoolSize \in Nat /\ Header < PoolSize /\ PoolSize < Word
    /\ Requests \subseteq Nat
    /\ \A n \in Requests : n + Pad + 3 < Word
    /\ FreeTags \subseteq {"own", "other", "zero"}
    /\ CallersFreeTwice \in BOOLEAN
    /\ None \notin Nat

VARIABLES
    blocks,  \* the list of the pool: address, size and state of each header
    freeing, \* the block each thread has marked free and not yet merged
    live,    \* what callers were given and have not freed (history)
    freed,   \* what callers have freed (history, for freeing twice)
    machine  \* "ok", "bugcheck", or "corrupt": a header lies on another block

vars == <<blocks, freeing, live, freed, machine>>

Indices == 1 .. Len(blocks)
IsBlock(i, a) == i \in Indices /\ blocks[i].addr = a

\* The address after the memory of a block, where the next header is.
EndOf(b) == b.addr + Header + b.size

\* MmInitializePool: one free block.
Init ==
    /\ blocks = << [addr |-> 0, size |-> PoolSize - Header, allocated |-> FALSE] >>
    /\ freeing = [t \in Threads |-> None]
    /\ live = {}
    /\ freed = {}
    /\ machine = "ok"

-----------------------------------------------------------------------------
(* MmAllocatePoolWithTag.                                                   *)

\* Mutant: the padding is forgotten.
Unpadded(n) == n - (n % 4)

\* The padding and the rounding to a multiple of 4.
BytesNeeded(n) ==
    LET padded == (n + Pad + 3) % Word
    IN  padded - (padded % 4)

Fits(b, bytes) == ~b.allocated /\ b.size > bytes

\* The position at which LIST_FOREACH stops.
FirstFit(i, bytes) ==
    /\ Fits(blocks[i], bytes)
    /\ \A j \in 1 .. i - 1 : ~Fits(blocks[j], bytes)

\* "lets not divide memory if the next block will be smaller than Minimum":
\* the subtraction is of unsigned numbers.
Divides(b, bytes) == bytes < (b.size - MinFree) % Word

\* Mutant: the rest is computed with the minimum instead of the header.
RestOverMinimum(b, bytes) ==
    [addr |-> b.addr + Header + bytes, size |-> b.size - MinFree - bytes, allocated |-> FALSE]

\* The rest of a divided block.
NewPoolBlock(b, bytes) ==
    [addr |-> b.addr + Header + bytes,
     size |-> (b.size - Header - bytes) % Word,
     allocated |-> FALSE]

\* The new header does not fit into the block that is divided.
Overlaps(b, bytes) == b.size < bytes + Header

Taken(b, bytes) == [addr |-> b.addr, size |-> bytes, allocated |-> TRUE]

AllocateWhole(s, i) == [s EXCEPT ![i] = Taken(s[i], s[i].size)]

AllocatePart(s, i, bytes) ==
    InsertAt([s EXCEPT ![i] = Taken(s[i], bytes)], i + 1, NewPoolBlock(s[i], bytes))

MmAllocatePoolWithTag(t, n) ==
    LET bytes == BytesNeeded(n) IN
    /\ machine = "ok"
    /\ freeing[t] = None
    /\ \E i \in Indices :
        /\ FirstFit(i, bytes)
        /\ \/ /\ ~Divides(blocks[i], bytes)
              /\ blocks' = AllocateWhole(blocks, i)
              /\ UNCHANGED machine
           \/ /\ Divides(blocks[i], bytes)
              /\ blocks' = AllocatePart(blocks, i, bytes)
              /\ machine' = IF Overlaps(blocks[i], bytes) THEN "corrupt" ELSE machine
        /\ live' = live \cup {[addr |-> blocks[i].addr, bytes |-> n]}
        /\ freed' = freed \ {blocks[i].addr}
    /\ UNCHANGED freeing

\* No block is big enough: NULL is returned.
AllocationFails(t, n) ==
    /\ machine = "ok"
    /\ freeing[t] = None
    /\ \A i \in Indices : ~Fits(blocks[i], BytesNeeded(n))
    /\ UNCHANGED vars

-----------------------------------------------------------------------------
(* MmFreePoolWithTag.  A free block has the tag NULLTAG, which is 0; what   *)
(* callers give to blocks is not 0.                                         *)

TagMatches(b, tag) == IF b.allocated THEN tag = "own" ELSE tag = "zero"

\* The condition is (A or B or Tag # 0) ? (Tag differs) : 0, because the conditional binds
\* less tightly than "or".  B, an impossible pool type, is left out.
VerificationFails(b, tag) ==
    (~b.allocated \/ tag # "zero") /\ ~TagMatches(b, tag)

\* A header that was merged into another block stays in memory as it was:
\* free, unless a race merged it while a caller had it.
HeaderAt(a) ==
    IF \E i \in Indices : IsBlock(i, a)
    THEN blocks[CHOOSE i \in Indices : IsBlock(i, a)]
    ELSE [addr |-> a, size |-> 0, allocated |-> \E l \in live : l.addr = a]

\* Mutant: the state is not stored.
NotMarkedFree(a) == blocks

MarkedFree(a) ==
    [i \in Indices |-> IF blocks[i].addr = a
                       THEN [addr |-> a, size |-> blocks[i].size, allocated |-> FALSE]
                       ELSE blocks[i]]

\* The verification and the stores before the lock.
MmFreePoolWithTag(t, a, tag) ==
    /\ machine = "ok"
    /\ freeing[t] = None
    /\ IF VerificationFails(HeaderAt(a), tag)
       THEN machine' = "bugcheck" /\ UNCHANGED <<blocks, freeing, live, freed>>
       ELSE /\ blocks' = MarkedFree(a)
            /\ freeing' = [freeing EXCEPT ![t] = a]
            /\ live' = {l \in live : l.addr # a}
            /\ freed' = freed \cup {a}
            /\ UNCHANGED machine

\* Mutants: the state of the neighbour is not looked at; the block before is
\* forgotten; the header of the absorbed block is lost.
MergesAnyNext(s, i) == i < Len(s)
NeverMergesPrev(s, i) == FALSE
JoinedMemory(b, c) ==
    [addr |-> b.addr, size |-> b.size + c.size, allocated |-> b.allocated]

\* LIST_NEXT and LIST_PREV are NULL at the ends of the list.
MergesNext(s, i) == i < Len(s) /\ ~s[i + 1].allocated
MergesPrev(s, i) == 1 < i /\ ~s[i - 1].allocated

\* Block i absorbs the one after it, header included.
Joined(b, c) ==
    [addr |-> b.addr, size |-> b.size + c.size + Header, allocated |-> b.allocated]

Absorb(s, i) == RemoveAt([s EXCEPT ![i] = Joined(s[i], s[i + 1])], i + 1)

WithNext(s, i) == IF MergesNext(s, i) THEN Absorb(s, i) ELSE s
WithPrev(s, i) == IF MergesPrev(s, i) THEN Absorb(s, i - 1) ELSE s

\* The locked section.  If another thread's free has removed the block from
\* the list, its links are those of the past: what follows is not modelled.
MergeBlocks(t) ==
    /\ machine = "ok"
    /\ freeing[t] # None
    /\ freeing' = [freeing EXCEPT ![t] = None]
    /\ IF \E i \in Indices : IsBlock(i, freeing[t])
       THEN \E i \in Indices :
                /\ IsBlock(i, freeing[t])
                /\ blocks' = WithPrev(WithNext(blocks, i), i)
                /\ UNCHANGED machine
       ELSE machine' = "corrupt" /\ UNCHANGED blocks
    /\ UNCHANGED <<live, freed>>

-----------------------------------------------------------------------------

\* What a caller may free: what it was given; what it freed, if it is careless.
Freeable == {l.addr : l \in live} \cup (IF CallersFreeTwice THEN freed ELSE {})

Next ==
    \E t \in Threads :
        \/ \E n \in Requests : MmAllocatePoolWithTag(t, n) \/ AllocationFails(t, n)
        \/ \E a \in Freeable, tag \in FreeTags : MmFreePoolWithTag(t, a, tag)
        \/ MergeBlocks(t)

Spec == Init /\ [][Next]_vars

-----------------------------------------------------------------------------
(* What callers rely on.                                                    *)

Block == [addr : Nat, size : Nat, allocated : BOOLEAN]

\* A list of headers, and a block or none for each thread inside
\* MmFreePoolWithTag.
Typed ==
    /\ blocks \in Seq(Block)
    /\ freeing \in [Threads -> Nat \cup {None}]
    /\ live \subseteq [addr : Nat, bytes : Requests]
    /\ freed \subseteq Nat
    /\ machine \in {"ok", "bugcheck", "corrupt"}

\* Every variable keeps its type, and as long as no header was written over
\* another block, every block ends inside the pool.  So no size in a header is
\* a difference that wrapped: one is never less than Word - Header, and a block
\* of that size ends beyond Word.
TypeOK ==
    /\ Typed
    /\ machine # "corrupt" => \A i \in Indices : EndOf(blocks[i]) <= PoolSize

\* The blocks lie one after the other, headers included, from the start of the
\* pool to its end: splitting and merging neither lose nor invent a byte.
Tiled(s) ==
    /\ Len(s) > 0
    /\ s[1].addr = 0
    /\ \A i \in 1 .. Len(s) - 1 : s[i + 1].addr = EndOf(s[i])
    /\ EndOf(s[Len(s)]) = PoolSize

\* As long as no header was written over another block, the list tiles the
\* pool, whatever MmAllocatePoolWithTag divided and MmFreePoolWithTag merged.
Tiling == machine # "corrupt" => Tiled(blocks)

\* The memory of a caller is a block of its own: allocated, at the address it
\* was given, and with room for what was asked for and the padding.
LiveIsAllocated ==
    machine # "corrupt" =>
        \A l \in live : \E i \in Indices :
            /\ IsBlock(i, l.addr)
            /\ blocks[i].allocated
            /\ blocks[i].size >= l.bytes + Pad

\* No block is lost: one that is marked allocated belongs to a caller.
NoLeak ==
    machine # "corrupt" =>
        \A i \in Indices : blocks[i].allocated => \E l \in live : l.addr = blocks[i].addr

\* Free memory does not stay cut up: two neighbours are both free only while
\* one of them is being freed.
Coalesced ==
    machine # "corrupt" =>
        \A i \in 1 .. Len(blocks) - 1 :
            (~blocks[i].allocated /\ ~blocks[i + 1].allocated) =>
                \E t \in Threads : freeing[t] \in {blocks[i].addr, blocks[i + 1].addr}

\* The block that a thread has marked free is still there, and free, when the
\* thread gets the lock.  This needs the callers to take turns.
FreeingIsFree ==
    machine # "corrupt" =>
        \A t \in Threads : freeing[t] # None =>
            \E i \in Indices : IsBlock(i, freeing[t]) /\ ~blocks[i].allocated

\* While a caller keeps its memory, no step of anyone moves its block or
\* changes the size that its header records.
LiveUntouched ==
    [][machine' # "corrupt" =>
        \A l \in live \cap live' : \A i \in Indices :
            IsBlock(i, l.addr) => \E j \in 1 .. Len(blocks') : blocks'[j] = blocks[i]]_vars

\* No header is ever written over another block.  It holds if the requests and
\* the pool are cut in units larger than a header, and not in general.
NoCorruption == machine # "corrupt"
=============================================================================
